---------------------------- MODULE ToolContext ----------------------------
(***************************************************************************)
(* What a run sends to the model and what it lets the tools return          *)
(* (runtime/loops/context_tools.go, message_budget.go, conversation.go,     *)
(* config.go prepareModelRequest, and the callers in stream.go).            *)
(*                                                                          *)
(* The transcript is canonical and grows by whole exchanges.  Each request  *)
(* is a projection of it: old exchanges give way to a summary, results and  *)
(* images are cut to budgets, and if the model reports sizes the projection *)
(* is contracted until the encoded request fits.  Before tools run, a       *)
(* skeleton of their results is projected and a quota derived from it; the  *)
(* results are projected again afterwards, when the side effects have       *)
(* happened.                                                                *)
(*                                                                          *)
(* Sizes are numbers of bytes.  A text is a number of plain bytes and of    *)
(* heavy ones, which JSON escapes sixfold; the frame of a block inside a    *)
(* result is left out of the quota and of the encoding alike.  Invalid      *)
(* requests, parallel-call capability, tool choice and cancellation are the *)
(* run loop's (RunLoop).                                                    *)
(***************************************************************************)
EXTENDS Integers, Sequences, FiniteSets, SequencesExt

CONSTANTS
  Reserve,         \* projectedResultReserve, per result
  FixedBody,       \* the body of an omitted result
  MarkerText,      \* the marker inside a compacted text
  ImageNote,       \* the text in place of an omitted image
  SummaryText,     \* the summary of dropped exchanges, without details
  SummaryLine,     \* one line of its details
  MaxSummary,      \* the most it may take
  Frame,           \* the JSON around a message, a call or a result
  CanonicalFrame,  \* the frame of a canonical exchange
  PerCallRaw,      \* perCallRawReserve
  Configs,         \* the configurations of a Runner, see ConfigFields
  CallLists,       \* what a model may answer: the argument sizes of its calls
  Bodies,          \* the contents a result may have
  ProviderStates,  \* sizes of an assistant message's provider state
  OrdinaryImages,  \* numbers of images in a user message
  MaxExchanges,    \* bound: exchanges in a transcript
  MaxCalls,        \* bound: calls in a transcript
  MaxRuns          \* bound: runs over one transcript

ASSUME SizesAssumption ==
  /\ FixedBody <= Reserve /\ SummaryText <= MaxSummary
  /\ \A c \in Configs : c.text >= 2 * SummaryText + Reserve /\ c.canonical >= c.retained

RawQuotaDivisor == 6
MaxDeletes == 15

VARIABLES
  config,   \* the Runner's limits and the model's policies
  msgs,     \* the canonical transcript
  spent,    \* [retained, canonical]: the run's tool bytes so far
  phase,    \* where the run stands
  pending,  \* the admitted exchange: [assistant, quota]
  request,  \* the last request projected for the model
  fault,    \* why the run failed: [when, why, excess]
  runs      \* bound: runs so far

ctxVars == <<config, msgs, spent, phase, pending, request, fault, runs>>

(***************************************************************************)
(* Messages.                                                                *)
(***************************************************************************)
Text(plain, heavy) == [image |-> FALSE, plain |-> plain, heavy |-> heavy, accepted |-> TRUE]
Image(bytes, accepted) == [image |-> TRUE, plain |-> bytes, heavy |-> 0, accepted |-> accepted]

Plain(images) ==
  [calls |-> <<>>, results |-> <<>>, images |-> images, provider |-> 0, summary |-> 0, of |-> {}]
Assistant(calls, provider) == [Plain(0) EXCEPT !.calls = calls, !.provider = provider]
Results(results) == [Plain(0) EXCEPT !.results = results]
Summary(bytes, of) == [Plain(0) EXCEPT !.summary = bytes, !.of = of]

Total(s) == LET sum[i \in 0..Len(s)] == IF i = 0 THEN 0 ELSE sum[i - 1] + s[i] IN sum[Len(s)]

Bytes(c) == c.plain + c.heavy
Encoded(c) == IF c.image THEN 2 * c.plain ELSE c.plain + 6 * c.heavy
TextBytes(body) == Total([i \in DOMAIN body |-> IF body[i].image THEN 0 ELSE Bytes(body[i])])
RawBytes(body) == Total([i \in DOMAIN body |-> Bytes(body[i])])
BodySize(body) == Total([i \in DOMAIN body |-> Encoded(body[i])])

\* sessionwire.MessageFragmentSize; an encoded request is the sum of them.
FragmentSize(m) ==
  Frame + m.summary
    + Total([i \in DOMAIN m.calls |-> Frame + m.calls[i].args])
    + Total([i \in DOMAIN m.results |-> Frame + BodySize(m.results[i].body)])
EncodedSize(ms) == Total([i \in DOMAIN ms |-> FragmentSize(ms[i]) + ms[i].images + ms[i].provider])

\* canonicalToolExchangeBytes.
CanonicalBytes(a, r) == FragmentSize(a) + FragmentSize(r) + a.provider + CanonicalFrame

IDs(s) == {s[i].id : i \in DOMAIN s}
MatchingExchange(calls, results) ==
  /\ calls # <<>> /\ Len(calls) = Len(results)
  /\ IDs(calls) = IDs(results) /\ Cardinality(IDs(calls)) = Len(calls)

ValidToolHistory(ms) ==
  \A i \in DOMAIN ms :
    /\ ms[i].calls # <<>> =>
         i < Len(ms) /\ MatchingExchange(ms[i].calls, ms[i + 1].results)
    /\ ms[i].results # <<>> =>
         i > 1 /\ MatchingExchange(ms[i - 1].calls, ms[i].results)

\* The indices at which exchanges start, oldest first.
ExchangeSpans(ms) ==
  SetToSortSeq({i \in 1..(Len(ms) - 1) : MatchingExchange(ms[i].calls, ms[i + 1].results)}, <)

CallsIn(ms) == Total([i \in DOMAIN ms |-> Len(ms[i].calls)])

CanonicalHistoryBytes(ms) ==
  LET g == ExchangeSpans(ms) IN Total([i \in DOMAIN g |-> CanonicalBytes(ms[g[i]], ms[g[i] + 1])])

(***************************************************************************)
(* Which exchanges stay.  k counts the dropped ones.                        *)
(***************************************************************************)
ArgumentBytes(m) == Total([i \in DOMAIN m.calls |-> m.calls[i].args])
ReserveFrom(ms, g, k) ==
  Total([i \in DOMAIN g |-> IF i > k THEN Reserve * Len(ms[g[i] + 1].results) ELSE 0])
ArgumentsFrom(ms, g, k) ==
  Total([i \in DOMAIN g |-> IF i > k THEN ArgumentBytes(ms[g[i]]) ELSE 0])

FitsFrom(ms, g, k) ==
  /\ Len(g) - k <= config.exchanges
  /\ ArgumentsFrom(ms, g, k) <= config.args
  /\ ReserveFrom(ms, g, k) <= config.text

\* The loop over the exchanges from the newest stops at the first that does not
\* fit; the sums only grow, so it stops at the smallest k that does.
KeepStart(ms, g) == Min({k \in 0..Len(g) : FitsFrom(ms, g, k)})

SummaryCap == IF config.text \div 2 < MaxSummary THEN config.text \div 2 ELSE MaxSummary

ImagesIn(body) == Cardinality({i \in DOMAIN body : body[i].image})
DetailLines(ms, g, k) ==
  Total([i \in 1..k |-> LET r == ms[g[i] + 1].results
                        IN Total([j \in DOMAIN r |-> 1 + ImagesIn(r[j].body)])])

\* toolHistorySummary: details are added, newest first, while they fit.
SummaryBytes(ms, g, k, detailed) ==
  LET room == (SummaryCap - SummaryText) \div SummaryLine
      lines == DetailLines(ms, g, k)
  IN IF k = 0 THEN 0
     ELSE IF ~detailed THEN SummaryText
     ELSE SummaryText + SummaryLine * (IF lines < room THEN lines ELSE room)

\* More exchanges are dropped until the reserves and the summary fit.
Retreats(ms, g, k, detailed) ==
  {j \in k..(Len(g) - 1) : ReserveFrom(ms, g, j) + SummaryBytes(ms, g, j, detailed) <= config.text}

Drop(k, why) == [k |-> k, why |-> why]
Retreat(k, stay) ==
  IF k \in stay THEN Drop(k, "")
  ELSE IF stay = {} \/ ~config.deletes THEN Drop(0, "latest")
  ELSE Drop(Min(stay), "")

DroppedFrom(ms, g, first, k, detailed) ==
  IF first = Len(g) THEN Drop(0, "latest")
  ELSE IF k > 0 /\ ~config.deletes THEN Drop(0, "continuous")
  ELSE Retreat(k, Retreats(ms, g, k, detailed))

\* How many exchanges are dropped, or why the projection is refused.
Dropped(ms, g, plan) ==
  LET first == KeepStart(ms, g)
  IN IF g = <<>> THEN Drop(0, "")
     ELSE DroppedFrom(ms, g, first, Min({first + plan.drop, Len(g) - 1}), plan.detailed)

\* The transcript without the dropped exchanges, the summary at the newest one.
WithSummary(ms, g, k, bytes) ==
  LET gone == UNION {{g[i], g[i] + 1} : i \in 1..k}
      of == UNION {IDs(ms[g[i]].calls) : i \in 1..k}
  IN FlattenSeq([i \in DOMAIN ms |->
       IF k > 0 /\ i = g[k] THEN <<Summary(bytes, of)>> ELSE IF i \in gone THEN <<>> ELSE <<ms[i]>>])

(***************************************************************************)
(* The results of a projection, in the order they are served: the newest    *)
(* exchange first, errors before the others, then as the calls were made.   *)
(***************************************************************************)
CallIndex(calls, id) == CHOOSE i \in DOMAIN calls : calls[i].id = id

RefsOf(ms) ==
  LET g == ExchangeSpans(ms)
      ref(n, j) == LET r == ms[g[n] + 1].results[j]
                   IN [msg |-> g[n] + 1, res |-> j, age |-> Len(g) - n, err |-> r.err,
                       call |-> CallIndex(ms[g[n]].calls, r.id)]
      before(x, y) == \/ x.age < y.age
                      \/ x.age = y.age /\ x.err /\ ~y.err
                      \/ x.age = y.age /\ x.err = y.err /\ x.call < y.call
  IN SetToSortSeq(UNION {{ref(n, j) : j \in DOMAIN ms[g[n] + 1].results} : n \in DOMAIN g}, before)

BodyOf(ms, ref) == ms[ref.msg].results[ref.res].body

ForceOmitted(plan, ref) ==
  IF ref.age = 0 THEN plan.omitLatest ELSE plan.omitOlder

CountOrdinaryImages(ms) == Total([i \in DOMAIN ms |-> ms[i].images])

\* The images that stay, as <<ref, child>>: each must pass the policy, the byte
\* budget and the slots in its turn.  slots = -1 stands for an unknown policy.
KeptImages(ms, refs, plan, slots) ==
  LET images == FlattenSeq([i \in DOMAIN refs |->
                  IF ForceOmitted(plan, refs[i]) THEN <<>>
                  ELSE LET b == BodyOf(ms, refs[i])
                       IN SelectSeq([c \in DOMAIN b |-> <<i, c, b[c]>>], LAMBDA x : x[3].image)])
      take[n \in 0..Len(images)] ==
        IF n = 0 THEN [left |-> config.image, slots |-> slots, kept |-> {}]
        ELSE LET s == take[n - 1]
                 child == images[n][3]
             IN IF \/ slots >= 0 /\ ~child.accepted
                   \/ child.plain > s.left
                   \/ s.slots = 0
                THEN s
                ELSE [left |-> s.left - child.plain,
                      slots |-> IF s.slots > 0 THEN s.slots - 1 ELSE s.slots,
                      kept |-> s.kept \cup {<<images[n][1], images[n][2]>>}]
  IN take[Len(images)].kept

Prepared(body, i, kept) ==
  [c \in DOMAIN body |-> IF body[c].image /\ <<i, c>> \notin kept THEN Text(ImageNote, 0) ELSE body[c]]

(***************************************************************************)
(* fairProjectedTextAllowances: the results of the newest exchange share    *)
(* what is left; those that need less than their share free the rest.       *)
(***************************************************************************)
AtLeastReserve(n) == IF n < Reserve THEN Reserve ELSE n

\* The last split, when nobody fits, goes in call order and hands on remainders.
SplitInOrder(order, remaining) ==
  LET give[n \in 0..Len(order)] ==
        IF n = 0 THEN [left |-> remaining, got |-> <<>>]
        ELSE LET s == give[n - 1]
                 a == AtLeastReserve(s.left \div (Len(order) - n + 1))
             IN [left |-> s.left - a, got |-> s.got @@ (order[n] :> a)]
  IN give[Len(order)].got
Split(refs, active, remaining) ==
  SplitInOrder(SetToSortSeq(active, LAMBDA x, y : refs[x].call < refs[y].call), remaining)

\* latest: indices into refs; sizes: the texts of all refs.
FairAllowances(refs, sizes, latest, budget) ==
  LET fair[active \in SUBSET latest, left \in 0..budget] ==
        LET share == AtLeastReserve(left \div Cardinality(active))
            small == {i \in active : sizes[i] <= share}
        IN IF active = {} THEN <<>>
           ELSE IF small = {} THEN Split(refs, active, left)
           ELSE [i \in small |-> sizes[i]]
                  @@ fair[active \ small, left - MapThenSumSet(LAMBDA i : sizes[i], small)]
  IN fair[latest, budget]

(***************************************************************************)
(* compactProjectedText.                                                    *)
(***************************************************************************)
\* In a text the plain bytes come first: its runs, for counting a prefix.
TextRuns(body) ==
  FlattenSeq([i \in DOMAIN body |->
    IF body[i].image THEN <<>>
    ELSE <<[heavy |-> FALSE, n |-> body[i].plain], [heavy |-> TRUE, n |-> body[i].heavy]>>])

\* The first n bytes of some runs, plain and heavy apart.
FirstOf(seq, n) ==
  LET take[i \in 0..Len(seq)] ==
        IF i = 0 THEN [plain |-> 0, heavy |-> 0]
        ELSE LET s == take[i - 1]
                 got == Min({seq[i].n, n - s.plain - s.heavy})
             IN IF seq[i].heavy THEN [s EXCEPT !.heavy = @ + got] ELSE [s EXCEPT !.plain = @ + got]
  IN take[Len(seq)]
TextPrefix(body, n) == FirstOf(TextRuns(body), n)
TextSuffix(body, n) == FirstOf(Reverse(TextRuns(body)), n)

FirstText(body) == Min({i \in DOMAIN body : ~body[i].image})

\* A head, the marker and a tail, or the fixed body if the marker does not fit.
Preview(body, allowance) ==
  LET payload == allowance - MarkerText
      head == TextPrefix(body, payload \div 2)
      tail == TextSuffix(body, payload - payload \div 2)
  IN IF payload < 0 THEN Text(FixedBody, 0)
     ELSE Text(MarkerText + head.plain + tail.plain, head.heavy + tail.heavy)

CompactText(body, allowance) ==
  IF TextBytes(body) <= allowance THEN body
  ELSE [i \in DOMAIN body |->
          IF body[i].image THEN body[i]
          ELSE IF i = FirstText(body) THEN Preview(body, allowance) ELSE Text(0, 0)]

(***************************************************************************)
(* projectToolContextPlanned.                                               *)
(***************************************************************************)
Refused(why) == [ok |-> FALSE, why |-> why]

\* Mutant: the images the user sent take no slot.
ImageSlotsForTools(ms) == config.slots

ImageSlots(ms) == IF config.slots < 0 THEN -1
                  ELSE IF config.slots = 0 THEN 0 ELSE config.slots - CountOrdinaryImages(ms)

SetBodies(ms, refs, bodies) ==
  [m \in DOMAIN ms |->
     [ms[m] EXCEPT !.results =
        [j \in DOMAIN @ |->
           [@[j] EXCEPT !.body = bodies[CHOOSE i \in DOMAIN refs : refs[i].msg = m /\ refs[i].res = j]]]]]

\* The text pass: the newest results have their allowances, an older one gets
\* what is left but for the reserve of those after it.
TextPass(refs, prepared, plan, budget, allowed) ==
  LET n == Len(refs)
      pass[i \in 0..n] ==
        IF i = 0 THEN [left |-> budget, bodies |-> <<>>]
        ELSE LET s == pass[i - 1]
                 allowance == IF i \in DOMAIN allowed THEN allowed[i]
                              ELSE AtLeastReserve(s.left - (n - i) * Reserve)
                 body == IF ForceOmitted(plan, refs[i]) THEN <<Text(FixedBody, 0)>>
                         ELSE CompactText(prepared[i], allowance)
             IN [left |-> s.left - TextBytes(body), bodies |-> Append(s.bodies, body)]
  IN pass

\* The newest results, and the text they may share: what the reserves of the
\* others leave.
LatestOf(refs, plan) == {i \in DOMAIN refs : refs[i].age = 0 /\ ~ForceOmitted(plan, refs[i])}
LatestBudget(refs, latest, budget) == budget - (Len(refs) - Cardinality(latest)) * Reserve

Projected(out, refs, sizes, allowed, pass, group) ==
  IF \E i \in DOMAIN refs : pass[i].left < 0 THEN Refused("text")
  ELSE [ok |-> TRUE, msgs |-> SetBodies(out, refs, pass[Len(refs)].bodies),
        dropped |-> group.dropped, retained |-> group.retained, allowed |-> allowed, sizes |-> sizes]

ProjectAllowed(out, refs, prepared, sizes, allowed, plan, group, budget) ==
  Projected(out, refs, sizes, allowed, TextPass(refs, prepared, plan, budget, allowed), group)

ProjectTexts(out, refs, prepared, sizes, latest, plan, group, budget) ==
  IF latest # {} /\ LatestBudget(refs, latest, budget) < Cardinality(latest) * Reserve
  THEN Refused("fair")
  ELSE ProjectAllowed(out, refs, prepared, sizes,
         FairAllowances(refs, sizes, latest, LatestBudget(refs, latest, budget)), plan, group, budget)

ProjectImages(out, refs, kept, plan, group, budget) ==
  LET prepared == [i \in DOMAIN refs |-> Prepared(BodyOf(out, refs[i]), i, kept)]
  IN ProjectTexts(out, refs, prepared, [i \in DOMAIN refs |-> TextBytes(prepared[i])],
       LatestOf(refs, plan), plan, group, budget)

ProjectKept(out, refs, plan, group, budget) ==
  IF config.slots > 0 /\ ImageSlots(out) < 0 THEN Refused("images")
  ELSE ProjectImages(out, refs, KeptImages(out, refs, plan, ImageSlots(out)), plan, group, budget)

ProjectDropped(ms, g, k, bytes, plan) ==
  LET out == WithSummary(ms, g, k, bytes)
  IN ProjectKept(out, RefsOf(out), plan, [dropped |-> k, retained |-> Len(g) - k], config.text - bytes)

ProjectGroups(ms, g, drop, plan) ==
  IF drop.why # "" THEN Refused(drop.why)
  ELSE ProjectDropped(ms, g, drop.k, SummaryBytes(ms, g, drop.k, plan.detailed), plan)

ProjectToolContext(ms, plan) ==
  LET g == ExchangeSpans(ms)
  IN IF ~ValidToolHistory(ms) THEN Refused("history") ELSE ProjectGroups(ms, g, Dropped(ms, g, plan), plan)

(***************************************************************************)
(* prepareModelRequest: the first contraction that fits, in a fixed order.  *)
(***************************************************************************)
BasePlan == [detailed |-> TRUE, drop |-> 0, omitOlder |-> FALSE, omitLatest |-> FALSE]
TersePlan == [BasePlan EXCEPT !.detailed = FALSE, !.omitOlder = TRUE]

ContractionPlans(first) ==
  LET older == IF first.retained > 1 \/ first.dropped > 0 THEN <<TersePlan>> ELSE <<>>
      base == IF older = <<>> THEN BasePlan ELSE TersePlan
      deletes == IF config.deletes THEN Min({first.retained - 1, MaxDeletes}) ELSE 0
      fewer == [d \in 1..deletes |-> [base EXCEPT !.drop = d]]
      last == IF first.retained = 0 THEN <<>>
              ELSE <<[base EXCEPT !.drop = IF deletes > 0 THEN deletes ELSE 0, !.omitLatest = TRUE]>>
  IN older \o fewer \o last

FirstFitting(tried) ==
  LET settled == {i \in DOMAIN tried : ~tried[i].ok \/ EncodedSize(tried[i].msgs) <= config.encoded}
  IN IF settled = {} THEN Refused("encoded") ELSE tried[Min(settled)]

Contract(ms, plans) == FirstFitting([i \in DOMAIN plans |-> ProjectToolContext(ms, plans[i])])

PrepareFrom(ms, first) ==
  IF ~first.ok \/ ~config.sized \/ EncodedSize(first.msgs) <= config.encoded THEN first
  ELSE Contract(ms, ContractionPlans(first))
PrepareModelRequest(ms) == PrepareFrom(ms, ProjectToolContext(ms, BasePlan))

(***************************************************************************)
(* Admission: toolExchangeAdmission, then startAdmittedTools, which for a   *)
(* model that reports sizes projects a skeleton of the results first.       *)
(***************************************************************************)
Skeleton(calls, bytes) ==
  Results([i \in DOMAIN calls |-> [id |-> calls[i].id, err |-> TRUE, body |-> <<Text(bytes, 0)>>]])

MinimumRaw(calls) == Len(calls) * PerCallRaw
FixedReserve(calls) == FragmentSize(Skeleton(calls, 0)) + MinimumRaw(calls)
MinimumGroup(a) == FragmentSize(a) + FixedReserve(a.calls)
Remaining == [retained |-> config.retained - spent.retained,
              canonical |-> config.canonical - spent.canonical]

AdmitTools(a) ==
  IF FragmentSize(a) > config.ceiling THEN Refused("assistant")
  ELSE IF ArgumentBytes(a) > config.args THEN Refused("args")
  ELSE IF FixedReserve(a.calls) > config.ceiling THEN Refused("ceiling")
  ELSE IF MinimumGroup(a) > Min({Remaining.retained, Remaining.canonical}) THEN Refused("budget")
  ELSE [ok |-> TRUE]

\* Mutant: escaping is not allowed for.
RawQuotaUndivided(a) ==
  Min({config.ceiling - FixedReserve(a.calls), config.executor,
       Remaining.retained - MinimumGroup(a), Remaining.canonical - MinimumGroup(a)})

RawQuota(a) ==
  Min({(config.ceiling - FixedReserve(a.calls)) \div RawQuotaDivisor, config.executor,
       Remaining.retained - MinimumGroup(a), Remaining.canonical - MinimumGroup(a)})

\* The quota the batch is started with.
Started(a, quota) == IF quota < MinimumRaw(a.calls) THEN Refused("quota") ELSE [ok |-> TRUE, quota |-> quota]
QuotaAfter(a, skeleton) ==
  LET headroom == config.encoded - EncodedSize(skeleton.msgs)
  IN IF ~skeleton.ok THEN skeleton
     ELSE Started(a, Min({RawQuota(a), MinimumRaw(a.calls) + headroom \div RawQuotaDivisor}))
StartAdmittedTools(a) ==
  IF ~config.sized THEN Started(a, RawQuota(a))
  ELSE QuotaAfter(a, PrepareModelRequest(msgs \o <<a, Skeleton(a.calls, PerCallRaw)>>))

(***************************************************************************)
(* The steps of a run.                                                      *)
(***************************************************************************)
NoRequest == [ok |-> FALSE, why |-> ""]
NoFault == [when |-> "", why |-> "", escaped |-> 0]
NoExchange == [assistant |-> Plain(0), quota |-> 0]

Fail(when, why, escaped) ==
  /\ phase' = "failed"
  /\ fault' = [when |-> when, why |-> why, escaped |-> escaped]

\* beginModelTurn: the request of this turn.
BeginModelTurn ==
  /\ phase = "model"
  /\ request' = PrepareModelRequest(msgs)
  /\ IF request'.ok THEN phase' = "answer" /\ UNCHANGED fault ELSE Fail("request", request'.why, 0)
  /\ UNCHANGED <<config, msgs, spent, pending, runs>>

\* The model calls tools.  Call IDs are unique in a transcript.
Admission(a) == IF AdmitTools(a).ok THEN StartAdmittedTools(a) ELSE AdmitTools(a)
Answered(a, admission) ==
  IF ~admission.ok THEN Fail("before", admission.why, 0) /\ UNCHANGED pending
  ELSE /\ phase' = "tools"
       /\ pending' = [assistant |-> a, quota |-> admission.quota]
       /\ UNCHANGED fault
Answer(args, provider) ==
  LET a == Assistant([i \in DOMAIN args |-> [id |-> <<Len(msgs), i>>, args |-> args[i]]], provider)
  IN /\ phase = "answer" /\ Len(ExchangeSpans(msgs)) < MaxExchanges
     /\ CallsIn(msgs) + Len(args) <= MaxCalls
     /\ Answered(a, Admission(a))
     /\ UNCHANGED <<config, msgs, spent, request, runs>>

ResultsOf(a, bodies) ==
  Results([i \in DOMAIN a.calls |-> [id |-> a.calls[i].id, err |-> bodies[i].err, body |-> bodies[i].body]])
Escaped(bodies) == Total([i \in DOMAIN bodies |-> BodySize(bodies[i].body) - RawBytes(bodies[i].body)])

OverBudget(a, r) ==
  IF FragmentSize(r) > config.ceiling THEN "ceiling"
  ELSE IF FragmentSize(a) + FragmentSize(r) > Remaining.retained THEN "retained"
  ELSE IF CanonicalBytes(a, r) > Remaining.canonical THEN "canonical" ELSE ""

CommitExchange(a, r, next, escaped) ==
  IF ~next.ok THEN Fail("after", next.why, escaped) /\ UNCHANGED <<msgs, spent>>
  ELSE /\ msgs' = msgs \o <<a, r>>
       /\ spent' = [retained |-> spent.retained + FragmentSize(a) + FragmentSize(r),
                    canonical |-> spent.canonical + CanonicalBytes(a, r)]
       /\ phase' = "model"
       /\ UNCHANGED fault

\* finishToolBatch.  The executor kept the results within the quota.
FinishToolBatch(bodies) ==
  LET a == pending.assistant
      r == ResultsOf(a, bodies)
      over == OverBudget(a, r)
  IN /\ phase = "tools"
     /\ Total([i \in DOMAIN bodies |-> RawBytes(bodies[i].body)]) <= pending.quota
     /\ IF over # "" THEN Fail("after", over, Escaped(bodies)) /\ UNCHANGED <<msgs, spent>>
        ELSE CommitExchange(a, r, PrepareModelRequest(msgs \o <<a, r>>), Escaped(bodies))
     /\ UNCHANGED <<config, pending, request, runs>>

\* newConversation: why a transcript is refused.
NewConversation(ms) ==
  IF \E i \in DOMAIN ms : FragmentSize(ms[i]) > config.ceiling THEN "message"
  ELSE IF ~ValidToolHistory(ms) THEN "history"
  ELSE IF CanonicalHistoryBytes(ms) > config.canonical THEN "canonical" ELSE ""

\* The run completes, its transcript is committed, and the next run of the
\* session begins with it and a new budget (newRunBudget).
NextRun(images) ==
  LET ms == msgs \o <<Plain(0), Plain(images)>>
      why == NewConversation(ms)
  IN /\ phase = "answer" /\ runs < MaxRuns
     /\ runs' = runs + 1
     /\ msgs' = ms
     /\ spent' = [retained |-> 0, canonical |-> CanonicalHistoryBytes(ms)]
     /\ phase' = IF why = "" THEN "model" ELSE "failed"
     /\ fault' = IF why = "" THEN fault ELSE [NoFault EXCEPT !.when = "new", !.why = why]
     /\ UNCHANGED <<config, pending, request>>

Init ==
  /\ config \in Configs
  /\ \E images \in OrdinaryImages : msgs = <<Plain(images)>>
  /\ spent = [retained |-> 0, canonical |-> 0]
  /\ phase = "model" /\ pending = NoExchange /\ request = NoRequest /\ fault = NoFault /\ runs = 1

Next ==
  \/ BeginModelTurn
  \/ \E args \in CallLists, provider \in ProviderStates : Answer(args, provider)
  \/ phase = "tools"
       /\ \E bodies \in [1..Len(pending.assistant.calls) -> Bodies] : FinishToolBatch(bodies)
  \/ \E images \in OrdinaryImages : NextRun(images)

Spec == Init /\ [][Next]_ctxVars

(***************************************************************************)
(* Properties.                                                              *)
(***************************************************************************)
IsOrdinary(m) == m.calls = <<>> /\ m.results = <<>> /\ m.summary = 0
CallsOf(ms) == LET g == ExchangeSpans(ms) IN [i \in DOMAIN g |-> ms[g[i]]]
SummarizedIn(ms) == UNION {ms[i].of : i \in DOMAIN ms}
AllBodies(ms) == FlattenSeq([i \in DOMAIN ms |-> [j \in DOMAIN ms[i].results |-> ms[i].results[j].body]])

\* A request is the transcript with its oldest exchanges replaced by their
\* summary: no call without its result, no ordinary message lost or moved, and
\* the newest exchange always there ("never separates a tool call from its
\* result", context_tools.go).
Faithful(req) ==
  LET all == CallsOf(msgs)
      kept == CallsOf(req)
  IN /\ ValidToolHistory(req)
     /\ SelectSeq(req, IsOrdinary) = SelectSeq(msgs, IsOrdinary)
     /\ IsSuffix(kept, all) /\ (all # <<>> => kept # <<>>)
     /\ SummarizedIn(req) = UNION {IDs(all[i].calls) : i \in 1..(Len(all) - Len(kept))}

\* It respects every limit of the projection at once.
WithinLimits(req) ==
  LET bodies == AllBodies(req)
      images == FlattenSeq([i \in DOMAIN bodies |-> SelectSeq(bodies[i], LAMBDA c : c.image)])
  IN /\ Total([i \in DOMAIN bodies |-> TextBytes(bodies[i])])
          + Total([i \in DOMAIN req |-> req[i].summary]) <= config.text
     /\ Total([i \in DOMAIN req |-> ArgumentBytes(req[i])]) <= config.args
     /\ Len(CallsOf(req)) <= config.exchanges
     /\ Total([i \in DOMAIN images |-> images[i].plain]) <= config.image
     /\ config.slots >= 0 => (\A i \in DOMAIN images : images[i].accepted)
     /\ config.slots > 0 => (Len(images) + CountOrdinaryImages(req) <= config.slots)
     /\ config.sized => (EncodedSize(req) <= config.encoded)

\* The newest results share their budget max-min fairly: one is cut only if no
\* other got more than it, but for the remainder of a division.
Fair(r) ==
  \A i, j \in DOMAIN r.allowed :
    r.sizes[i] > r.allowed[i] => (r.allowed[j] <= r.allowed[i] + 1)

\* Every request sent is faithful to the transcript, within all limits at once,
\* and fair, whichever contraction produced it (projectToolContextPlanned,
\* prepareModelRequest).
RequestSound ==
  phase = "answer" => Faithful(request.msgs) /\ WithinLimits(request.msgs) /\ Fair(request)

Slack == MinimumRaw(pending.assistant.calls)

\* Once tools have run, their exchange is not refused for its size: the skeleton
\* projected before any "new tool side effect" (config.go prepareModelRequest)
\* and the quota derived from it answer for every result within the quota.  What
\* is left is that escaping, or the provider state, takes more than the reserve
\* of 1 KiB per call from a nearly spent run budget, and a model that reports no
\* sizes and wants its history whole.  What is committed is accepted by the next
\* run of the session: the run's own accounts agree with newConversation's.
AdmittedExchangeCommits ==
  /\ fault.when # "new"
  /\ fault.when = "after" =>
    \/ fault.why = "retained" /\ fault.escaped > Slack
    \/ fault.why = "canonical"
         /\ fault.escaped + pending.assistant.provider + CanonicalFrame > Slack
    \/ fault.why = "continuous" /\ ~config.sized
=============================================================================
