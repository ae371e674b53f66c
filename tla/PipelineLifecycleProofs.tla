---------------------- MODULE PipelineLifecycleProofs ----------------------
(***************************************************************************)
(* Proofs about the life of the streams, for any number of streams,        *)
(* configurations, failures of publishers and values of a StreamConfig.    *)
(***************************************************************************)
EXTENDS PipelineLifecycle, FiniteSetTheorems, TLAPS

-----------------------------------------------------------------------------
(* The order of std::map. *)

LEMMA IdsFinite ==
    ASSUME NEW ids \in SUBSET StreamIds PROVE IsFiniteSet(ids) /\ Cardinality(ids) \in Nat
<1>1. IsFiniteSet(1 .. NumStreams)
  <2>1. 1 \in Int /\ NumStreams \in Int
    BY LifecycleAssumption
  <2> QED
    BY <2>1, FS_Interval, Zenon
<1>2. IsFiniteSet(ids)
  BY <1>1, FS_Subset, Zenon DEF StreamIds
<1> QED
  BY <1>2, FS_CardinalityType, Zenon

(* The number of smaller ids tells the ids of a set apart, and takes every value. *)
LEMMA Ranks ==
    ASSUME NEW ids \in SUBSET StreamIds
    PROVE  /\ \A id \in ids : Cardinality({i \in ids : i < id}) \in 0 .. Cardinality(ids) - 1
           /\ \A a, b \in ids :
                 Cardinality({i \in ids : i < a}) = Cardinality({i \in ids : i < b}) => a = b
           /\ \A k \in 1 .. Cardinality(ids) :
                 \E id \in ids : Cardinality({i \in ids : i < id}) = k - 1
<1> DEFINE n == Cardinality(ids)
           before(id) == {i \in ids : i < id}
           rank(id) == Cardinality(before(id))
<1>1. IsFiniteSet(ids) /\ n \in Nat /\ \A id \in ids : id \in Int
  BY IdsFinite, LifecycleAssumption DEF StreamIds
<1>2. ASSUME NEW id \in ids PROVE rank(id) \in 0 .. n - 1 /\ IsFiniteSet(before(id))
  <2>1. before(id) \in SUBSET ids /\ id \notin before(id)
    BY <1>1
  <2>2. IsFiniteSet(before(id)) /\ rank(id) <= n /\ (n = rank(id) => ids = before(id))
    BY <1>1, <2>1, FS_Subset, Zenon
  <2>3. rank(id) \in Nat
    BY <2>2, FS_CardinalityType, Zenon
  <2>4. n # rank(id)
    BY <2>1, <2>2
  <2> HIDE DEF rank, n
  <2> QED
    BY <1>1, <2>2, <2>3, <2>4
<1>3. ASSUME NEW a \in ids, NEW b \in ids, a < b PROVE rank(a) # rank(b)
  <2>1. before(a) \in SUBSET before(b) /\ a \in before(b) /\ a \notin before(a)
    BY <1>1, <1>3
  <2>2. rank(b) = rank(a) => before(b) = before(a)
    BY <1>2, <2>1, FS_Subset, Zenon
  <2> HIDE DEF rank, before
  <2> QED
    BY <2>1, <2>2
<1> HIDE DEF rank, n, before
<1>0. \A id \in ids : rank(id) \in 0 .. n - 1 /\ rank(id) \in Int
  BY <1>2, <1>1
<1>4. \A a, b \in ids : rank(a) = rank(b) => a = b
  BY <1>1, <1>3
<1> DEFINE f == [id \in ids |-> rank(id) + 1]
<1>5. f \in Injection(ids, 1 .. n)
  <2>1. \A id \in ids : rank(id) + 1 \in 1 .. n
    BY <1>0, <1>1
  <2>2. \A a, b \in ids : rank(a) + 1 = rank(b) + 1 => a = b
    <3>1. \A x, y \in Int : x + 1 = y + 1 => x = y
      OBVIOUS
    <3> QED
      BY <1>0, <1>4, <3>1
  <2> QED
    BY <2>1, <2>2 DEF Injection, IsInjective
<1>6. IsFiniteSet(1 .. n) /\ Cardinality(1 .. n) = n
  <2>1. 1 \in Int /\ n \in Int
    BY <1>1
  <2>2. IsFiniteSet(1 .. n) /\ Cardinality(1 .. n) = IF 1 > n THEN 0 ELSE n - 1 + 1
    BY <2>1, FS_Interval, Zenon
  <2> QED
    BY <1>1, <2>2
<1>7. f \in Surjection(ids, 1 .. n)
  <2>1. Cardinality(ids) = Cardinality(1 .. n)
    BY <1>6 DEF n
  <2> HIDE DEF f
  <2> QED
    BY <1>5, <1>6, <2>1, FS_Injection, Zenon
<1>8. ASSUME NEW k \in 1 .. n PROVE \E id \in ids : rank(id) = k - 1
  <2>1. PICK id \in ids : f[id] = k
    BY <1>7 DEF Surjection
  <2> QED
    BY <1>0, <1>1, <2>1
<1> QED
  BY <1>0, <1>4, <1>8 DEF rank, n, before

(* InOrder lists a set without repetition. *)
LEMMA Ordered ==
    ASSUME NEW ids \in SUBSET StreamIds
    PROVE  /\ InOrder(ids) \in Seq(ids) /\ Range(InOrder(ids)) = ids
           /\ DOMAIN InOrder(ids) = 1 .. Len(InOrder(ids)) /\ Len(InOrder(ids)) \in Nat
           /\ \A k \in DOMAIN InOrder(ids) : InOrder(ids)[k] \in ids
           /\ \A k, l \in DOMAIN InOrder(ids) : InOrder(ids)[k] = InOrder(ids)[l] => k = l
<1> DEFINE n == Cardinality(ids)
           rank(id) == Cardinality({i \in ids : i < id})
           s == InOrder(ids)
<1>1. n \in Nat
  BY IdsFinite
<1>2. ASSUME NEW k \in 1 .. n PROVE s[k] \in ids /\ rank(s[k]) = k - 1
  <2>1. s[k] = CHOOSE id \in ids : rank(id) = k - 1
    BY <1>2 DEF InOrder
  <2>2. \E id \in ids : rank(id) = k - 1
    BY <1>2, Ranks
  <2> HIDE DEF rank, s
  <2> QED
    BY <2>1, <2>2
<1>3. DOMAIN s = 1 .. n /\ s = [k \in 1 .. n |-> s[k]]
  <2> DEFINE g(k) == CHOOSE id \in ids : rank(id) = k - 1
  <2>1. s = [k \in 1 .. n |-> g(k)]
    BY DEF InOrder
  <2> HIDE DEF g, s
  <2> QED
    BY <2>1
<1>4. /\ \A id \in ids : rank(id) \in 0 .. n - 1
      /\ \A a, b \in ids : rank(a) = rank(b) => a = b
  BY Ranks
<1> HIDE DEF rank, s, n
<1>5. s \in Seq(ids) /\ Len(s) = n
  BY <1>1, <1>2, <1>3
<1>6. ASSUME NEW id \in ids PROVE id \in Range(s)
  <2>1. rank(id) + 1 \in 1 .. n /\ rank(id) \in Int
    BY <1>1, <1>4
  <2>2. s[rank(id) + 1] \in ids /\ rank(s[rank(id) + 1]) = rank(id)
    BY <1>2, <2>1
  <2>3. s[rank(id) + 1] = id
    BY <1>4, <2>2
  <2> QED
    BY <1>3, <2>1, <2>3 DEF Range
<1>7. Range(s) = ids
  BY <1>2, <1>3, <1>6 DEF Range
<1>8. \A k, l \in DOMAIN s : s[k] = s[l] => k = l
  <2> SUFFICES ASSUME NEW k \in 1 .. n, NEW l \in 1 .. n, s[k] = s[l] PROVE k = l
    BY <1>3
  <2>1. k - 1 = l - 1
    BY <1>2
  <2> QED
    BY <1>1, <2>1
<1> QED
  BY <1>1, <1>2, <1>3, <1>5, <1>7, <1>8 DEF s

-----------------------------------------------------------------------------
(* Sequences and maps. *)

LEMMA EmptySeq == \A S : <<>> \in Seq(S) /\ Range(<<>>) = {}
BY DEF Range

LEMMA NotEmpty == \A s : s = <<>> => DOMAIN s = {}
OBVIOUS

LEMMA SeqParts ==
    ASSUME NEW S, NEW s \in Seq(S), s # <<>>
    PROVE  /\ Head(s) \in S /\ Head(s) \in Range(s) /\ Tail(s) \in Seq(S)
           /\ Range(s) = {Head(s)} \cup Range(Tail(s))
<1>1. /\ Len(s) \in Nat /\ Len(s) > 0 /\ DOMAIN s = 1 .. Len(s) /\ Head(s) = s[1]
      /\ Tail(s) \in Seq(S) /\ DOMAIN Tail(s) = 1 .. Len(s) - 1
      /\ \A i \in 1 .. Len(s) - 1 : Tail(s)[i] = s[i + 1]
  OBVIOUS
<1>2. 1 \in DOMAIN s /\ s[1] \in S
  BY <1>1
<1>3. ASSUME NEW i \in DOMAIN s, i # 1 PROVE s[i] \in Range(Tail(s))
  <2>1. i - 1 \in DOMAIN Tail(s) /\ Tail(s)[i - 1] = s[i]
    BY <1>1, <1>3
  <2> QED
    BY <2>1 DEF Range
<1>4. ASSUME NEW i \in DOMAIN Tail(s) PROVE Tail(s)[i] \in Range(s)
  <2>1. i + 1 \in DOMAIN s /\ Tail(s)[i] = s[i + 1]
    BY <1>1
  <2> QED
    BY <2>1 DEF Range
<1>5. Range(s) \subseteq {Head(s)} \cup Range(Tail(s))
  BY <1>1, <1>3 DEF Range
<1>6. Range(Tail(s)) \subseteq Range(s)
  BY <1>4 DEF Range
<1>7. Head(s) \in Range(s)
  BY <1>1, <1>2 DEF Range
<1> QED
  BY <1>1, <1>2, <1>5, <1>6, <1>7

LEMMA AppendRange ==
    ASSUME NEW S, NEW s \in Seq(S), NEW e \in S
    PROVE  Append(s, e) \in Seq(S) /\ Range(Append(s, e)) = Range(s) \cup {e}
<1>1. /\ Len(s) \in Nat /\ DOMAIN s = 1 .. Len(s) /\ DOMAIN Append(s, e) = 1 .. Len(s) + 1
      /\ Append(s, e) \in Seq(S) /\ Append(s, e)[Len(s) + 1] = e
      /\ \A i \in 1 .. Len(s) : Append(s, e)[i] = s[i]
  OBVIOUS
<1>2. DOMAIN Append(s, e) = DOMAIN s \cup {Len(s) + 1}
  BY <1>1
<1>3. \A x : x \in Range(Append(s, e)) <=> x \in Range(s) \/ x = e
  BY <1>1, <1>2 DEF Range
<1> QED
  BY <1>1, <1>3

LEMMA ConcatRange ==
    ASSUME NEW S, NEW s \in Seq(S), NEW t \in Seq(S)
    PROVE  s \o t \in Seq(S) /\ Range(s \o t) = Range(s) \cup Range(t)
<1>1. /\ Len(s) \in Nat /\ Len(t) \in Nat /\ DOMAIN s = 1 .. Len(s) /\ DOMAIN t = 1 .. Len(t)
      /\ DOMAIN (s \o t) = 1 .. Len(s) + Len(t) /\ s \o t \in Seq(S)
      /\ \A i \in 1 .. Len(s) + Len(t) : (s \o t)[i] = IF i <= Len(s) THEN s[i] ELSE t[i - Len(s)]
  OBVIOUS
<1>2. ASSUME NEW i \in DOMAIN (s \o t) PROVE (s \o t)[i] \in Range(s) \cup Range(t)
  <2>1. CASE i <= Len(s)
    BY <1>1, <2>1 DEF Range
  <2>2. CASE ~(i <= Len(s))
    <3>1. i - Len(s) \in DOMAIN t /\ (s \o t)[i] = t[i - Len(s)]
      BY <1>1, <2>2
    <3> QED
      BY <3>1 DEF Range
  <2> QED
    BY <2>1, <2>2
<1>3. ASSUME NEW i \in DOMAIN s PROVE s[i] \in Range(s \o t)
  <2>1. i \in DOMAIN (s \o t) /\ (s \o t)[i] = s[i]
    BY <1>1
  <2> QED
    BY <2>1 DEF Range
<1>4. ASSUME NEW i \in DOMAIN t PROVE t[i] \in Range(s \o t)
  <2>1. Len(s) + i \in DOMAIN (s \o t) /\ (s \o t)[Len(s) + i] = t[i]
    BY <1>1
  <2> QED
    BY <2>1 DEF Range
<1>5. Range(s \o t) \subseteq Range(s) \cup Range(t)
  BY <1>2 DEF Range
<1>6. Range(s) \subseteq Range(s \o t) /\ Range(t) \subseteq Range(s \o t)
  BY <1>3, <1>4 DEF Range
<1> QED
  BY <1>1, <1>5, <1>6

LEMMA OneElement == ASSUME NEW S, NEW e \in S PROVE <<e>> \in Seq(S) /\ Range(<<e>>) = {e}
<1>1. DOMAIN <<e>> = {1} /\ <<e>>[1] = e
  OBVIOUS
<1> QED
  BY <1>1 DEF Range

LEMMA RangeTyped == ASSUME NEW S, NEW s \in Seq(S) PROVE Range(s) \subseteq S
BY DEF Range

LEMMA WiderSeq == ASSUME NEW S, NEW T, S \subseteq T, NEW s \in Seq(S) PROVE s \in Seq(T)
OBVIOUS

LEMMA WithoutIs ==
    ASSUME NEW f, NEW ids
    PROVE  /\ DOMAIN Without(f, ids) = DOMAIN f \ ids
           /\ \A i \in DOMAIN f \ ids : Without(f, ids)[i] = f[i]
BY DEF Without

-----------------------------------------------------------------------------
(* What the types say. *)

ConfigStates == [pc : ConfigPcs, update : BOOLEAN, desired : MergedStreams,
                 updates : Seq(DOMAIN ctx), starts : Seq(StreamIds)]

LEMMA MergedTyped ==
    ASSUME NEW m \in MergedStreams
    PROVE  DOMAIN m \subseteq StreamIds /\ \A id \in DOMAIN m : m[id] \in StreamConfigs
BY DEF MergedStreams

LEMMA NoneMerged == NoStreams \in MergedStreams /\ DOMAIN NoStreams = {}
<1>1. NoStreams \in [{} -> StreamConfigs] /\ DOMAIN NoStreams = {}
  BY DEF NoStreams
<1> QED
  BY <1>1 DEF MergedStreams

LEMMA CtxTyped ==
    ASSUME TypeOK
    PROVE  /\ ctx \in Seq(Contexts) /\ Len(ctx) \in Nat /\ DOMAIN ctx = 1 .. Len(ctx)
           /\ \A c \in DOMAIN ctx :
                 /\ ctx[c] \in Contexts /\ ctx[c].sid \in StreamIds /\ ctx[c].cfg \in StreamConfigs
                 /\ ctx[c].stop_flag \in BOOLEAN /\ ctx[c].down \in BOOLEAN
                 /\ ctx[c].puller \in {"running", "erase", "push", "joined"}
<1>1. ctx \in Seq(Contexts)
  BY DEF TypeOK
<1>2. \A x \in Contexts : /\ x.sid \in StreamIds /\ x.cfg \in StreamConfigs
                          /\ x.stop_flag \in BOOLEAN /\ x.down \in BOOLEAN
                          /\ x.puller \in {"running", "erase", "push", "joined"}
  BY DEF Contexts
<1> QED
  BY <1>1, <1>2

LEMMA CtxUpdate ==
    ASSUME NEW s \in Seq(Contexts), NEW c \in DOMAIN s, NEW new \in Contexts
    PROVE  /\ [s EXCEPT ![c] = new] \in Seq(Contexts) /\ Len([s EXCEPT ![c] = new]) = Len(s)
           /\ DOMAIN [s EXCEPT ![c] = new] = DOMAIN s /\ [s EXCEPT ![c] = new][c] = new
           /\ \A d \in DOMAIN s : d # c => [s EXCEPT ![c] = new][d] = s[d]
OBVIOUS

LEMMA ConfigTyped ==
    ASSUME TypeOK
    PROVE  /\ config \in ConfigStates /\ config.pc \in ConfigPcs /\ config.update \in BOOLEAN
           /\ config.desired \in MergedStreams /\ DOMAIN config.desired \subseteq StreamIds
           /\ \A id \in DOMAIN config.desired : config.desired[id] \in StreamConfigs
           /\ config.updates \in Seq(DOMAIN ctx) /\ config.starts \in Seq(StreamIds)
           /\ Range(config.updates) \subseteq DOMAIN ctx /\ Range(config.starts) \subseteq StreamIds
<1>1. config \in ConfigStates
  BY DEF TypeOK, ConfigStates
<1>2. /\ config.pc \in ConfigPcs /\ config.update \in BOOLEAN /\ config.desired \in MergedStreams
      /\ config.updates \in Seq(DOMAIN ctx) /\ config.starts \in Seq(StreamIds)
  BY <1>1 DEF ConfigStates
<1> QED
  BY <1>1, <1>2, MergedTyped, RangeTyped, Zenon

LEMMA ListsTyped ==
    ASSUME TypeOK
    PROVE  /\ pendingStop \in Seq(DOMAIN ctx) /\ Range(pendingStop) \subseteq DOMAIN ctx
           /\ stops \in [Threads -> Seq(DOMAIN ctx)] /\ inStop \in [Threads -> BOOLEAN]
           /\ \A t \in Threads : stops[t] \in Seq(DOMAIN ctx) /\ Range(stops[t]) \subseteq DOMAIN ctx
<1>1. /\ pendingStop \in Seq(DOMAIN ctx) /\ stops \in [Threads -> Seq(DOMAIN ctx)]
      /\ inStop \in [Threads -> BOOLEAN]
  BY DEF TypeOK
<1>2. \A t \in Threads : stops[t] \in Seq(DOMAIN ctx)
  BY <1>1
<1> QED
  BY <1>1, <1>2, RangeTyped, Zenon

LEMMA MapsTyped ==
    ASSUME TypeOK
    PROVE  /\ DOMAIN streams \subseteq StreamIds /\ DOMAIN sched \subseteq StreamIds
           /\ \A id \in DOMAIN streams : streams[id] \in DOMAIN ctx /\ ctx[streams[id]].sid = id
           /\ \A id \in DOMAIN sched : sched[id] \in DOMAIN ctx
BY DEF TypeOK

(* The contexts of some listed streams, in the order of the map. *)
LEMMA ContextsOfIs ==
    ASSUME TypeOK, NEW ids \in SUBSET DOMAIN streams
    PROVE  /\ ContextsOf(ids) \in Seq(DOMAIN ctx)
           /\ Range(ContextsOf(ids)) = {streams[id] : id \in ids}
<1> DEFINE s == InOrder(ids)
<1>1. /\ DOMAIN s = 1 .. Len(s) /\ Len(s) \in Nat /\ Range(s) = ids
      /\ \A k \in DOMAIN s : s[k] \in ids
  BY Ordered, MapsTyped
<1>2. ContextsOf(ids) = [k \in 1 .. Len(s) |-> streams[s[k]]]
  BY DEF ContextsOf
<1> HIDE DEF s
<1>3. \A k \in 1 .. Len(s) : streams[s[k]] \in DOMAIN ctx
  BY <1>1, MapsTyped
<1>4. ContextsOf(ids) \in Seq(DOMAIN ctx)
  BY <1>1, <1>2, <1>3
<1>5. Range(ContextsOf(ids)) = {streams[id] : id \in ids}
  <2>1. \A x : x \in Range(ContextsOf(ids)) <=> \E k \in 1 .. Len(s) : x = streams[s[k]]
    BY <1>2 DEF Range
  <2>2. \A id : id \in ids <=> \E k \in 1 .. Len(s) : id = s[k]
    BY <1>1 DEF Range
  <2> QED
    BY <2>1, <2>2
<1> QED
  BY <1>4, <1>5

-----------------------------------------------------------------------------
(* What each step does, in terms of the fields it changes. *)

(* The config thread keeps its batch. *)
SameWork ==
    /\ config' \in ConfigStates /\ config'.update = config.update
    /\ config'.desired = config.desired /\ config'.updates = config.updates
    /\ config'.starts = config.starts

(* No context but c changes, and c keeps its stream and its configuration. *)
OnlyContext(c) ==
    /\ ctx' \in Seq(Contexts) /\ Len(ctx') = Len(ctx) /\ DOMAIN ctx' = DOMAIN ctx
    /\ \A d \in DOMAIN ctx : d # c => ctx'[d] = ctx[d]
    /\ ctx'[c].sid = ctx[c].sid /\ ctx'[c].cfg = ctx[c].cfg

LEMMA GotoKeeps == ASSUME TypeOK, NEW pc \in ConfigPcs, Goto(pc) PROVE SameWork /\ config'.pc = pc
BY ConfigTyped DEF Goto, ConfigStates, SameWork

LEMMA NotifyKeeps ==
    ASSUME TypeOK, NotifyConfig
    PROVE  SameWork /\ (config'.pc = config.pc \/ (config.pc = "waiting" /\ config'.pc = "pred"))
<1>1. "pred" \in ConfigPcs
  BY DEF ConfigPcs
<1> QED
  BY <1>1, ConfigTyped DEF NotifyConfig, ConfigStates, SameWork

(* The steps of the config thread that only move it. *)
Moves == LoopTop \/ PredicateFalse \/ Block \/ SpuriousWakeup \/ LoopBreak \/ NoUpdate \/ BatchDone

LEMMA MovesIs ==
    ASSUME TypeOK, Moves
    PROVE  /\ SameWork /\ config'.pc \in {"top", "pred", "blocking", "waiting", "exited"}
           /\ config.pc \notin {"check", "insert"}
           /\ ~(config.pc = "batch" /\ config.update)
           /\ config.pc \in {"batch", "apply"} => stops["config"] = <<>>
           /\ config.pc = "apply" => config.updates = <<>> /\ config.starts = <<>>
           /\ UNCHANGED <<wanted, hasPending, pendingStop, stopFlag, streams, ctx, sched, main,
                          stops, inStop, received, asyncStops>>
<1>0. {"top", "pred", "blocking", "waiting", "exited"} \subseteq ConfigPcs
  BY DEF ConfigPcs
<1>1. CASE LoopTop
  <2>1. SameWork /\ config'.pc = IF stopFlag THEN "exited" ELSE "pred"
    BY <1>0, <1>1, GotoKeeps DEF LoopTop
  <2> QED
    BY <1>1, <2>1 DEF LoopTop
<1>2. CASE PredicateFalse
  <2>1. SameWork /\ config'.pc = "blocking"
    BY <1>0, <1>2, GotoKeeps DEF PredicateFalse
  <2> QED
    BY <1>2, <2>1 DEF PredicateFalse
<1>3. CASE Block
  <2>1. SameWork /\ config'.pc = "waiting"
    BY <1>0, <1>3, GotoKeeps DEF Block
  <2> QED
    BY <1>3, <2>1 DEF Block
<1>4. CASE SpuriousWakeup
  <2>1. SameWork /\ config'.pc = "pred"
    BY <1>0, <1>4, GotoKeeps DEF SpuriousWakeup
  <2> QED
    BY <1>4, <2>1 DEF SpuriousWakeup
<1>5. CASE LoopBreak
  <2>1. SameWork /\ config'.pc = "exited"
    BY <1>0, <1>5, GotoKeeps DEF LoopBreak
  <2> QED
    BY <1>5, <2>1 DEF LoopBreak
<1>6. CASE NoUpdate
  <2>1. SameWork /\ config'.pc = "top"
    BY <1>0, <1>6, GotoKeeps DEF NoUpdate
  <2> QED
    BY <1>6, <2>1 DEF NoUpdate
<1>7. CASE BatchDone
  <2>1. SameWork /\ config'.pc = "top"
    BY <1>0, <1>7, GotoKeeps DEF BatchDone
  <2> QED
    BY <1>7, <2>1 DEF BatchDone, Starting
<1> QED
  BY <1>1, <1>2, <1>3, <1>4, <1>5, <1>6, <1>7 DEF Moves

LEMMA HandleSocketConfigIs ==
    ASSUME TypeOK, HandleSocketConfig
    PROVE  /\ wanted' \in MergedStreams /\ hasPending' = TRUE /\ received' \in 0 .. MaxConfigs
           /\ SameWork
           /\ config'.pc = config.pc \/ (config.pc = "waiting" /\ config'.pc = "pred")
           /\ UNCHANGED <<pendingStop, stopFlag, streams, ctx, sched, main, stops, inStop,
                          asyncStops>>
<1>1. received' \in 0 .. MaxConfigs
  BY LifecycleAssumption DEF TypeOK, HandleSocketConfig
<1> QED
  BY <1>1, NotifyKeeps DEF HandleSocketConfig

LEMMA AsyncFlagIs ==
    ASSUME TypeOK, NEW c \in DOMAIN ctx, AsyncFlag(c)
    PROVE  /\ OnlyContext(c) /\ ctx'[c].stop_flag = TRUE /\ ctx'[c].puller = "erase"
           /\ ctx[c].stop_flag = FALSE /\ ctx'[c].down = ctx[c].down
           /\ ctx[c].puller = "running"
           /\ asyncStops' \in 0 .. MaxAsyncStops
           /\ UNCHANGED <<wanted, hasPending, pendingStop, stopFlag, streams, sched, config, main,
                          stops, inStop, received>>
<1> DEFINE new == [ctx[c] EXCEPT !.stop_flag = TRUE, !.puller = "erase"]
<1>1. asyncStops' \in 0 .. MaxAsyncStops
  BY LifecycleAssumption DEF TypeOK, AsyncFlag
<1>2. /\ new \in Contexts /\ new.sid = ctx[c].sid /\ new.cfg = ctx[c].cfg /\ new.down = ctx[c].down
      /\ new.stop_flag = TRUE /\ new.puller = "erase"
  BY CtxTyped DEF Contexts
<1>3. ctx' = [ctx EXCEPT ![c] = new]
  BY CtxTyped DEF AsyncFlag
<1> HIDE DEF new
<1>4. OnlyContext(c) /\ ctx'[c] = new
  BY <1>2, <1>3, CtxTyped, CtxUpdate DEF OnlyContext
<1> QED
  BY <1>1, <1>2, <1>4, CtxTyped DEF AsyncFlag

LEMMA AsyncEraseIs ==
    ASSUME TypeOK, NEW c \in DOMAIN ctx, AsyncErase(c)
    PROVE  /\ OnlyContext(c) /\ ctx'[c].stop_flag = ctx[c].stop_flag /\ ctx'[c].puller = "push"
           /\ ctx'[c].down = ctx[c].down /\ ctx[c].puller = "erase"
           /\ DOMAIN streams' = {id \in DOMAIN streams : streams[id] # c}
           /\ \A id \in DOMAIN streams' : streams'[id] = streams[id]
           /\ UNCHANGED <<wanted, hasPending, pendingStop, stopFlag, sched, config, main, stops,
                          inStop, received, asyncStops>>
<1> DEFINE new == [ctx[c] EXCEPT !.puller = "push"]
<1>2. /\ new \in Contexts /\ new.sid = ctx[c].sid /\ new.cfg = ctx[c].cfg /\ new.down = ctx[c].down
      /\ new.stop_flag = ctx[c].stop_flag /\ new.puller = "push"
  BY CtxTyped DEF Contexts
<1>3. ctx' = [ctx EXCEPT ![c] = new]
  BY CtxTyped DEF AsyncErase
<1> HIDE DEF new
<1>4. OnlyContext(c) /\ ctx'[c] = new
  BY <1>2, <1>3, CtxTyped, CtxUpdate DEF OnlyContext
<1>5. /\ DOMAIN streams' = DOMAIN streams \ {id \in DOMAIN streams : streams[id] = c}
      /\ \A id \in DOMAIN streams \ {id \in DOMAIN streams : streams[id] = c} : streams'[id] = streams[id]
  BY WithoutIs DEF AsyncErase
<1> QED
  BY <1>2, <1>4, <1>5 DEF AsyncErase

LEMMA AsyncPushIs ==
    ASSUME TypeOK, NEW c \in DOMAIN ctx, AsyncPush(c)
    PROVE  /\ OnlyContext(c) /\ ctx'[c].stop_flag = ctx[c].stop_flag /\ ctx'[c].puller = "running"
           /\ ctx'[c].down = ctx[c].down /\ ctx[c].puller = "push"
           /\ pendingStop' \in Seq(DOMAIN ctx) /\ Range(pendingStop') = Range(pendingStop) \cup {c}
           /\ SameWork
           /\ config'.pc = config.pc \/ (config.pc = "waiting" /\ config'.pc = "pred")
           /\ UNCHANGED <<wanted, hasPending, stopFlag, streams, sched, main, stops, inStop,
                          received, asyncStops>>
<1> DEFINE new == [ctx[c] EXCEPT !.puller = "running"]
<1>2. /\ new \in Contexts /\ new.sid = ctx[c].sid /\ new.cfg = ctx[c].cfg /\ new.down = ctx[c].down
      /\ new.stop_flag = ctx[c].stop_flag /\ new.puller = "running"
  BY CtxTyped DEF Contexts
<1>3. ctx' = [ctx EXCEPT ![c] = new]
  BY CtxTyped DEF AsyncPush
<1> HIDE DEF new
<1>4. OnlyContext(c) /\ ctx'[c] = new
  BY <1>2, <1>3, CtxTyped, CtxUpdate DEF OnlyContext
<1>5. pendingStop' \in Seq(DOMAIN ctx) /\ Range(pendingStop') = Range(pendingStop) \cup {c}
  <2>1. pendingStop' = Append(pendingStop, c)
    BY DEF AsyncPush
  <2> QED
    BY <2>1, ListsTyped, AppendRange
<1> QED
  BY <1>2, <1>4, <1>5, NotifyKeeps DEF AsyncPush

LEMMA StopStreamBeginIs ==
    ASSUME TypeOK, NEW t \in Threads, StopStreamBegin(t), NEW c, c = Head(stops[t])
    PROVE  /\ c \in DOMAIN ctx /\ c \in Range(stops[t]) /\ stops[t] # <<>> /\ ~inStop[t]
           /\ t = "main" => main = "stopping"
           /\ OnlyContext(c) /\ ctx'[c].stop_flag = TRUE /\ ctx'[c].puller = ctx[c].puller
           /\ ctx'[c].down = ctx[c].down
           /\ DOMAIN sched' = DOMAIN sched \ {ctx[c].sid}
           /\ \A id \in DOMAIN sched' : sched'[id] = sched[id]
           /\ inStop' \in [Threads -> BOOLEAN] /\ inStop'[t] = TRUE
           /\ \A u \in Threads \ {t} : inStop'[u] = inStop[u]
           /\ UNCHANGED <<wanted, hasPending, pendingStop, stopFlag, streams, config, main, stops,
                          received, asyncStops>>
<1> DEFINE new == [ctx[c] EXCEPT !.stop_flag = TRUE]
<1>1. c \in DOMAIN ctx /\ c \in Range(stops[t]) /\ stops[t] # <<>>
  BY ListsTyped, SeqParts, Zenon DEF StopStreamBegin
<1>2. /\ new \in Contexts /\ new.sid = ctx[c].sid /\ new.cfg = ctx[c].cfg /\ new.down = ctx[c].down
      /\ new.stop_flag = TRUE /\ new.puller = ctx[c].puller
  BY <1>1, CtxTyped DEF Contexts
<1>3. ctx' = [ctx EXCEPT ![c] = new]
  BY <1>1, CtxTyped DEF StopStreamBegin
<1> HIDE DEF new
<1>4. OnlyContext(c) /\ ctx'[c] = new
  BY <1>1, <1>2, <1>3, CtxTyped, CtxUpdate DEF OnlyContext
<1>5. /\ DOMAIN sched' = DOMAIN sched \ {ctx[c].sid}
      /\ \A id \in DOMAIN sched' : sched'[id] = sched[id]
  <2>1. sched' = Without(sched, {ctx[c].sid})
    BY DEF StopStreamBegin
  <2>2. /\ DOMAIN Without(sched, {ctx[c].sid}) = DOMAIN sched \ {ctx[c].sid}
        /\ \A id \in DOMAIN sched \ {ctx[c].sid} : Without(sched, {ctx[c].sid})[id] = sched[id]
    BY WithoutIs, Zenon
  <2> QED
    BY <2>1, <2>2, Zenon
<1>6. /\ inStop' \in [Threads -> BOOLEAN] /\ inStop'[t] = TRUE
      /\ \A u \in Threads \ {t} : inStop'[u] = inStop[u]
  BY ListsTyped DEF StopStreamBegin
<1> QED
  BY <1>1, <1>2, <1>4, <1>5, <1>6 DEF StopStreamBegin

LEMMA StopStreamEndIs ==
    ASSUME TypeOK, NEW t \in Threads, StopStreamEnd(t), stops[t] # <<>>, NEW c, c = Head(stops[t])
    PROVE  /\ c \in DOMAIN ctx /\ inStop[t] /\ ctx[c].puller \in {"running", "joined"}
           /\ OnlyContext(c) /\ ctx'[c].stop_flag = ctx[c].stop_flag /\ ctx'[c].puller = "joined"
           /\ ctx'[c].down = TRUE
           /\ stops' \in [Threads -> Seq(DOMAIN ctx)] /\ Range(stops[t]) = {c} \cup Range(stops'[t])
           /\ inStop' \in [Threads -> BOOLEAN] /\ inStop'[t] = FALSE
           /\ \A u \in Threads \ {t} : inStop'[u] = inStop[u] /\ stops'[u] = stops[u]
           /\ UNCHANGED <<wanted, hasPending, pendingStop, stopFlag, streams, sched, config, main,
                          received, asyncStops>>
<1> DEFINE new == [ctx[c] EXCEPT !.puller = "joined", !.down = TRUE]
<1>1. /\ c \in DOMAIN ctx /\ Tail(stops[t]) \in Seq(DOMAIN ctx)
      /\ Range(stops[t]) = {c} \cup Range(Tail(stops[t]))
  BY ListsTyped, SeqParts
<1>2. /\ new \in Contexts /\ new.sid = ctx[c].sid /\ new.cfg = ctx[c].cfg /\ new.down = TRUE
      /\ new.stop_flag = ctx[c].stop_flag /\ new.puller = "joined"
  BY <1>1, CtxTyped DEF Contexts
<1>3. ctx' = [ctx EXCEPT ![c] = new]
  BY <1>1, CtxTyped DEF StopStreamEnd
<1> HIDE DEF new
<1>4. OnlyContext(c) /\ ctx'[c] = new
  BY <1>1, <1>2, <1>3, CtxTyped, CtxUpdate DEF OnlyContext
<1>5. /\ stops' \in [Threads -> Seq(DOMAIN ctx)] /\ stops'[t] = Tail(stops[t])
      /\ inStop' \in [Threads -> BOOLEAN] /\ inStop'[t] = FALSE
      /\ \A u \in Threads \ {t} : inStop'[u] = inStop[u] /\ stops'[u] = stops[u]
  BY <1>1, ListsTyped DEF StopStreamEnd
<1> QED
  BY <1>1, <1>2, <1>4, <1>5 DEF StopStreamEnd

LEMMA TakeBatchIs ==
    ASSUME TypeOK, TakeBatch
    PROVE  /\ config.pc = "pred" /\ ~stopFlag
           /\ config' \in ConfigStates /\ config'.pc = "batch" /\ config'.update = hasPending
           /\ config'.desired = wanted /\ config'.updates = config.updates
           /\ config'.starts = config.starts
           /\ hasPending' = FALSE /\ pendingStop' = <<>>
           /\ stops' \in [Threads -> Seq(DOMAIN ctx)] /\ stops'["config"] = pendingStop
           /\ stops'["main"] = stops["main"]
           /\ UNCHANGED <<wanted, stopFlag, streams, ctx, sched, main, inStop, received, asyncStops>>
<1>1. "batch" \in ConfigPcs /\ wanted \in MergedStreams /\ hasPending \in BOOLEAN
  BY DEF ConfigPcs, TypeOK
<1>2. /\ config' \in ConfigStates /\ config'.pc = "batch" /\ config'.update = hasPending
      /\ config'.desired = wanted /\ config'.updates = config.updates
      /\ config'.starts = config.starts
  BY <1>1, ConfigTyped DEF TakeBatch, ConfigStates
<1>3. /\ stops' \in [Threads -> Seq(DOMAIN ctx)] /\ stops'["config"] = pendingStop
      /\ stops'["main"] = stops["main"]
  BY ListsTyped DEF TakeBatch, Threads
<1> QED
  BY <1>2, <1>3 DEF TakeBatch

(* The sets that applyConfigBatch computes. *)
Moved == {id \in DOMAIN streams \cap DOMAIN config.desired :
             ctx[streams[id]].cfg.transport # config.desired[id].transport}
Dropped == (DOMAIN streams \ DOMAIN config.desired) \cup Moved
Updated == {id \in DOMAIN streams \ Dropped :
               ctx[streams[id]].cfg.runtime # config.desired[id].runtime}

LEMMA SameConfig ==
    ASSUME NEW a \in StreamConfigs, NEW b \in StreamConfigs,
           a.transport = b.transport, a.runtime = b.runtime
    PROVE  a = b
BY DEF StreamConfigs

LEMMA CompareStreamsIs ==
    ASSUME TypeOK, CompareStreams
    PROVE  /\ config.pc = "batch" /\ stops["config"] = <<>> /\ config.update
           /\ DOMAIN streams' = DOMAIN streams \ Dropped
           /\ \A id \in DOMAIN streams' : streams'[id] = streams[id]
           /\ ctx' \in Seq(Contexts) /\ Len(ctx') = Len(ctx) /\ DOMAIN ctx' = DOMAIN ctx
           /\ \A c \in DOMAIN ctx :
                 /\ ctx'[c].sid = ctx[c].sid /\ ctx'[c].stop_flag = ctx[c].stop_flag
                 /\ ctx'[c].puller = ctx[c].puller /\ ctx'[c].down = ctx[c].down
           /\ \A id \in DOMAIN streams' : id \in DOMAIN config.desired
                                          /\ ctx'[streams[id]].cfg = config.desired[id]
           /\ stops' \in [Threads -> Seq(DOMAIN ctx)] /\ stops'["main"] = stops["main"]
           /\ Range(stops'["config"]) = {streams[id] : id \in Dropped}
           /\ config' \in ConfigStates /\ config'.pc = "apply" /\ config'.update = config.update
           /\ config'.desired = config.desired
           /\ Range(config'.updates) = {streams[id] : id \in Updated}
           /\ config'.starts = InOrder(Moved) \o InOrder(DOMAIN config.desired \ DOMAIN streams')
           /\ Range(config'.starts) = Moved \cup (DOMAIN config.desired \ DOMAIN streams')
           /\ UNCHANGED <<wanted, hasPending, pendingStop, stopFlag, sched, main, inStop, received,
                          asyncStops>>
<1> DEFINE rest == DOMAIN config.desired \ (DOMAIN streams \ Dropped)
<1>1. Moved \in SUBSET StreamIds /\ Dropped \in SUBSET DOMAIN streams
      /\ Updated \in SUBSET DOMAIN streams /\ rest \in SUBSET StreamIds
  BY MapsTyped, ConfigTyped DEF Moved, Dropped, Updated
<1>2. streams' = Without(streams, Dropped)
  BY DEF CompareStreams, Dropped, Moved
<1>3. DOMAIN streams' = DOMAIN streams \ Dropped /\ \A id \in DOMAIN streams' : streams'[id] = streams[id]
  <2>1. /\ DOMAIN Without(streams, Dropped) = DOMAIN streams \ Dropped
        /\ \A id \in DOMAIN streams \ Dropped : Without(streams, Dropped)[id] = streams[id]
    BY WithoutIs, Zenon
  <2> QED
    BY <1>2, <2>1, Zenon
<1>4. ctx' = [c \in DOMAIN ctx |-> IF \E id \in Updated : streams[id] = c
                                   THEN [ctx[c] EXCEPT !.cfg = config.desired[ctx[c].sid]] ELSE ctx[c]]
  BY DEF CompareStreams, Dropped, Moved, Updated
<1>5. \A id \in Updated : id \in DOMAIN config.desired
  BY DEF Updated, Dropped
<1>6. ASSUME NEW c \in DOMAIN ctx
      PROVE  /\ ctx'[c] \in Contexts
             /\ ctx'[c].sid = ctx[c].sid /\ ctx'[c].stop_flag = ctx[c].stop_flag
             /\ ctx'[c].puller = ctx[c].puller /\ ctx'[c].down = ctx[c].down
             /\ (\E id \in Updated : streams[id] = c) => ctx'[c].cfg = config.desired[ctx[c].sid]
             /\ (\A id \in Updated : streams[id] # c) => ctx'[c].cfg = ctx[c].cfg
  <2>1. CASE \E id \in Updated : streams[id] = c
    <3>1. PICK id \in Updated : streams[id] = c
      BY <2>1
    <3>2. ctx[c].sid = id /\ config.desired[id] \in StreamConfigs
      BY <1>1, <1>5, <3>1, MapsTyped, ConfigTyped
    <3>3. ctx'[c] = [ctx[c] EXCEPT !.cfg = config.desired[id]]
      BY <1>4, <2>1, <3>2
    <3>4. ctx[c] \in Contexts
      BY CtxTyped
    <3> QED
      BY <2>1, <3>2, <3>3, <3>4 DEF Contexts
  <2>2. CASE \A id \in Updated : streams[id] # c
    <3>1. ctx'[c] = ctx[c]
      BY <1>4, <2>2
    <3> QED
      BY <2>2, <3>1, CtxTyped
  <2> QED
    BY <2>1, <2>2
<1>7. ctx' \in Seq(Contexts) /\ Len(ctx') = Len(ctx) /\ DOMAIN ctx' = DOMAIN ctx
  <2> DEFINE g(c) == IF \E id \in Updated : streams[id] = c
                     THEN [ctx[c] EXCEPT !.cfg = config.desired[ctx[c].sid]] ELSE ctx[c]
  <2>1. ctx' = [c \in DOMAIN ctx |-> g(c)]
    BY <1>4
  <2> HIDE DEF g
  <2>2. DOMAIN ctx = 1 .. Len(ctx) /\ Len(ctx) \in Nat
    BY CtxTyped
  <2>3. DOMAIN ctx' = DOMAIN ctx
    BY <2>1
  <2>4. \A c \in 1 .. Len(ctx) : g(c) \in Contexts
    BY <1>6, <2>1, <2>2
  <2> QED
    BY <2>1, <2>2, <2>3, <2>4
<1>8. ASSUME NEW id \in DOMAIN streams'
      PROVE  id \in DOMAIN config.desired /\ ctx'[streams[id]].cfg = config.desired[id]
  <2>1. /\ id \in DOMAIN streams \ Dropped /\ id \in DOMAIN config.desired
        /\ streams[id] \in DOMAIN ctx /\ ctx[streams[id]].sid = id
    BY <1>3, MapsTyped DEF Dropped
  <2>2. CASE id \in Updated
    BY <1>6, <2>1, <2>2
  <2>3. CASE id \notin Updated
    <3>1. \A i \in Updated : streams[i] # streams[id]
      BY <1>1, <2>1, <2>3, MapsTyped
    <3>2. ctx'[streams[id]].cfg = ctx[streams[id]].cfg
      BY <1>6, <2>1, <3>1
    <3>3. /\ ctx[streams[id]].cfg.transport = config.desired[id].transport
          /\ ctx[streams[id]].cfg.runtime = config.desired[id].runtime
      BY <2>1, <2>3 DEF Updated, Dropped, Moved
    <3> QED
      BY <2>1, <3>2, <3>3, SameConfig, CtxTyped, ConfigTyped
  <2> QED
    BY <2>2, <2>3
<1>9. /\ ContextsOf(Dropped) \in Seq(DOMAIN ctx)
      /\ Range(ContextsOf(Dropped)) = {streams[id] : id \in Dropped}
      /\ ContextsOf(Updated) \in Seq(DOMAIN ctx)
      /\ Range(ContextsOf(Updated)) = {streams[id] : id \in Updated}
  BY <1>1, ContextsOfIs
<1>10. stops' = [stops EXCEPT !["config"] = ContextsOf(Dropped)]
  BY DEF CompareStreams, Dropped, Moved
<1>11. /\ stops' \in [Threads -> Seq(DOMAIN ctx)] /\ stops'["main"] = stops["main"]
       /\ stops'["config"] = ContextsOf(Dropped)
  BY <1>9, <1>10, ListsTyped DEF Threads
<1>12. /\ InOrder(Moved) \in Seq(StreamIds) /\ InOrder(rest) \in Seq(StreamIds)
       /\ Range(InOrder(Moved)) = Moved /\ Range(InOrder(rest)) = rest
  BY <1>1, Ordered, WiderSeq
<1>13. /\ InOrder(Moved) \o InOrder(rest) \in Seq(StreamIds)
       /\ Range(InOrder(Moved) \o InOrder(rest)) = Moved \cup rest
  <2>1. /\ InOrder(Moved) \o InOrder(rest) \in Seq(StreamIds)
        /\ Range(InOrder(Moved) \o InOrder(rest)) = Range(InOrder(Moved)) \cup Range(InOrder(rest))
    BY <1>12, ConcatRange, Zenon
  <2> QED
    BY <1>12, <2>1, Zenon
<1>14. config' = [config EXCEPT !.pc = "apply", !.updates = ContextsOf(Updated),
                                !.starts = InOrder(Moved) \o InOrder(rest)]
  BY DEF CompareStreams, Dropped, Moved, Updated
<1>15. "apply" \in ConfigPcs
  BY DEF ConfigPcs
<1> HIDE DEF rest
<1>16. /\ config' \in ConfigStates /\ config'.pc = "apply" /\ config'.update = config.update
       /\ config'.desired = config.desired /\ config'.updates = ContextsOf(Updated)
       /\ config'.starts = InOrder(Moved) \o InOrder(rest)
  BY <1>9, <1>13, <1>14, <1>15, ConfigTyped DEF ConfigStates
<1> QED
  <2>1. rest = DOMAIN config.desired \ DOMAIN streams'
    BY <1>3, Zenon DEF rest
  <2>2. /\ config.pc = "batch" /\ stops["config"] = <<>> /\ config.update
        /\ UNCHANGED <<wanted, hasPending, pendingStop, stopFlag, sched, main, inStop, received,
                       asyncStops>>
    BY DEF CompareStreams
  <2> QED
    BY <1>3, <1>6, <1>7, <1>8, <1>9, <1>11, <1>13, <1>16, <2>1, <2>2

LEMMA UpdateStreamRuntimeIs ==
    ASSUME TypeOK, UpdateStreamRuntime, NEW c, c = Head(config.updates)
    PROVE  /\ config.pc = "apply" /\ stops["config"] = <<>>
           /\ c \in DOMAIN ctx /\ c \in Range(config.updates)
           /\ DOMAIN sched' = DOMAIN sched \cup {ctx[c].sid} /\ sched'[ctx[c].sid] = c
           /\ \A id \in DOMAIN sched \ {ctx[c].sid} : sched'[id] = sched[id]
           /\ config' \in ConfigStates /\ config'.pc = "apply" /\ config'.update = config.update
           /\ config'.desired = config.desired /\ config'.starts = config.starts
           /\ Range(config'.updates) \subseteq Range(config.updates)
           /\ UNCHANGED <<wanted, hasPending, pendingStop, stopFlag, streams, ctx, main, stops,
                          inStop, received, asyncStops>>
<1>1. config.updates # <<>> /\ config.pc = "apply"
  BY DEF UpdateStreamRuntime
<1>2. /\ c \in DOMAIN ctx /\ c \in Range(config.updates) /\ Tail(config.updates) \in Seq(DOMAIN ctx)
      /\ Range(config.updates) = {c} \cup Range(Tail(config.updates))
  BY <1>1, ConfigTyped, SeqParts
<1>3. sched' = With(sched, ctx[c].sid, c)
  BY DEF UpdateStreamRuntime
<1>4. /\ DOMAIN sched' = DOMAIN sched \cup {ctx[c].sid} /\ sched'[ctx[c].sid] = c
      /\ \A id \in DOMAIN sched \ {ctx[c].sid} : sched'[id] = sched[id]
  <2>1. /\ DOMAIN With(sched, ctx[c].sid, c) = DOMAIN sched \cup {ctx[c].sid} /\ With(sched, ctx[c].sid, c)[ctx[c].sid] = c
        /\ \A id \in DOMAIN sched \ {ctx[c].sid} : With(sched, ctx[c].sid, c)[id] = sched[id]
    BY DEF With
  <2> QED
    BY <1>3, <2>1, Zenon
<1>5. /\ config' \in ConfigStates /\ config'.pc = "apply" /\ config'.update = config.update
      /\ config'.desired = config.desired /\ config'.starts = config.starts
      /\ config'.updates = Tail(config.updates)
  BY <1>1, <1>2, ConfigTyped DEF UpdateStreamRuntime, ConfigStates
<1> QED
  BY <1>2, <1>4, <1>5 DEF UpdateStreamRuntime

LEMMA BuildStreamContextIs ==
    ASSUME TypeOK, BuildStreamContext, Range(config.starts) \subseteq DOMAIN config.desired,
           NEW id, id = Head(config.starts), NEW n, n = Len(ctx) + 1
    PROVE  /\ Starting /\ id \in Range(config.starts) /\ config.starts # <<>>
           /\ id \in DOMAIN config.desired /\ id \in StreamIds
           /\ n \in Nat /\ n \notin DOMAIN ctx
           /\ ctx' \in Seq(Contexts) /\ Len(ctx') = n /\ DOMAIN ctx' = DOMAIN ctx \cup {n}
           /\ \A c \in DOMAIN ctx : ctx'[c] = ctx[c]
           /\ DOMAIN sched' = DOMAIN sched \cup {id} /\ sched'[id] = n
           /\ \A i \in DOMAIN sched \ {id} : sched'[i] = sched[i]
           /\ config' \in [pc : ConfigPcs, update : BOOLEAN, desired : MergedStreams,
                           updates : Seq(DOMAIN ctx'), starts : Seq(StreamIds)]
           /\ config'.pc = "check" /\ config'.update = config.update
           /\ config'.desired = config.desired /\ config'.updates = <<>>
           /\ config'.starts = Tail(config.starts)
           /\ Range(config.starts) = {id} \cup Range(config'.starts)
           /\ UNCHANGED <<wanted, hasPending, pendingStop, stopFlag, streams, main, stops, inStop,
                          received, asyncStops>>
<1> DEFINE new == [sid |-> id, cfg |-> config.desired[id], stop_flag |-> FALSE,
                   puller |-> "running", down |-> FALSE]
<1>1. Starting /\ config.starts # <<>> /\ config.updates = <<>> /\ config.pc = "apply"
  BY DEF BuildStreamContext, Starting
<1>2. /\ id \in Range(config.starts) /\ id \in StreamIds /\ Tail(config.starts) \in Seq(StreamIds)
      /\ Range(config.starts) = {id} \cup Range(Tail(config.starts))
  BY <1>1, ConfigTyped, SeqParts
<1>3. id \in DOMAIN config.desired /\ config.desired[id] \in StreamConfigs
  BY <1>2, ConfigTyped
<1>4. new \in Contexts
  BY <1>2, <1>3 DEF Contexts
<1>5. ctx' = Append(ctx, new)
  BY DEF BuildStreamContext
<1> HIDE DEF new
<1>7. /\ n \in Nat /\ n \notin DOMAIN ctx /\ ctx' \in Seq(Contexts) /\ Len(ctx') = n
      /\ DOMAIN ctx' = DOMAIN ctx \cup {n}
      /\ \A c \in DOMAIN ctx : ctx'[c] = ctx[c]
  BY <1>4, <1>5, CtxTyped
<1>8. sched' = With(sched, id, n)
  BY DEF BuildStreamContext
<1>9. /\ DOMAIN sched' = DOMAIN sched \cup {id} /\ sched'[id] = n
      /\ \A i \in DOMAIN sched \ {id} : sched'[i] = sched[i]
  <2>1. /\ DOMAIN With(sched, id, n) = DOMAIN sched \cup {id} /\ With(sched, id, n)[id] = n
        /\ \A i \in DOMAIN sched \ {id} : With(sched, id, n)[i] = sched[i]
    BY DEF With
  <2> QED
    BY <1>8, <2>1, Zenon
<1>10. /\ DOMAIN config' = DOMAIN config /\ config'.pc = "check" /\ config'.update = config.update
       /\ config'.desired = config.desired /\ config'.updates = <<>>
       /\ config'.starts = Tail(config.starts)
       /\ config' = [pc |-> config'.pc, update |-> config'.update, desired |-> config'.desired,
                     updates |-> config'.updates, starts |-> config'.starts]
  BY <1>1, ConfigTyped DEF BuildStreamContext, ConfigStates
<1>11. "check" \in ConfigPcs /\ <<>> \in Seq(DOMAIN ctx')
  BY EmptySeq DEF ConfigPcs
<1>12. config' \in [pc : ConfigPcs, update : BOOLEAN, desired : MergedStreams,
                     updates : Seq(DOMAIN ctx'), starts : Seq(StreamIds)]
  BY <1>2, <1>10, <1>11, ConfigTyped
<1>13. UNCHANGED <<wanted, hasPending, pendingStop, stopFlag, streams, main, stops, inStop,
                   received, asyncStops>>
  BY DEF BuildStreamContext
<1> QED
  BY <1>1, <1>2, <1>3, <1>7, <1>9, <1>10, <1>12, <1>13

LEMMA NewContextIs ==
    ASSUME TypeOK, BuildStreamContext
    PROVE  /\ ctx'[Len(ctx) + 1].sid = Head(config.starts)
           /\ ctx'[Len(ctx) + 1].cfg = config.desired[Head(config.starts)]
           /\ ctx'[Len(ctx) + 1].stop_flag = FALSE /\ ctx'[Len(ctx) + 1].puller = "running"
           /\ ctx'[Len(ctx) + 1].down = FALSE
<1> DEFINE id == Head(config.starts)
           new == [sid |-> id, cfg |-> config.desired[id], stop_flag |-> FALSE,
                   puller |-> "running", down |-> FALSE]
<1>1. ctx' = Append(ctx, new)
  BY DEF BuildStreamContext
<1>2. /\ new.sid = id /\ new.cfg = config.desired[id] /\ new.stop_flag = FALSE
      /\ new.puller = "running" /\ new.down = FALSE
  OBVIOUS
<1> HIDE DEF new, id
<1>3. ctx'[Len(ctx) + 1] = new
  BY <1>1, CtxTyped
<1> QED
  BY <1>2, <1>3 DEF id

LEMMA CheckBuiltIs ==
    ASSUME TypeOK, CheckBuilt, ctx # <<>>, NEW n, n = Len(ctx)
    PROVE  /\ config.pc = "check" /\ n \in DOMAIN ctx /\ SameWork
           /\ stops' \in [Threads -> Seq(DOMAIN ctx)] /\ stops'["main"] = stops["main"]
           /\ \/ /\ ctx[n].stop_flag /\ config'.pc = "apply"
                 /\ stops'["config"] = <<n>> /\ Range(stops'["config"]) = {n}
              \/ ~ctx[n].stop_flag /\ config'.pc = "insert" /\ stops' = stops
           /\ UNCHANGED <<wanted, hasPending, pendingStop, stopFlag, streams, ctx, sched, main,
                          inStop, received, asyncStops>>
<1>1. n \in DOMAIN ctx /\ "apply" \in ConfigPcs /\ "insert" \in ConfigPcs
  BY CtxTyped DEF ConfigPcs
<1>2. <<n>> \in Seq(DOMAIN ctx) /\ Range(<<n>>) = {n}
  BY <1>1, OneElement
<1>3. /\ config.pc = "check"
      /\ UNCHANGED <<wanted, hasPending, pendingStop, stopFlag, streams, ctx, sched, main,
                     inStop, received, asyncStops>>
  BY DEF CheckBuilt
<1>4. CASE ctx[n].stop_flag
  <2>1. Goto("apply") /\ stops' = [stops EXCEPT !["config"] = <<n>>]
    BY <1>4 DEF CheckBuilt
  <2>2. SameWork /\ config'.pc = "apply"
    BY <1>1, <2>1, GotoKeeps
  <2>3. /\ stops' \in [Threads -> Seq(DOMAIN ctx)] /\ stops'["main"] = stops["main"]
        /\ stops'["config"] = <<n>>
    BY <1>2, <2>1, ListsTyped DEF Threads
  <2> QED
    BY <1>1, <1>2, <1>3, <1>4, <2>2, <2>3
<1>5. CASE ~ctx[n].stop_flag
  <2>1. Goto("insert") /\ stops' = stops
    BY <1>5 DEF CheckBuilt
  <2>2. SameWork /\ config'.pc = "insert"
    BY <1>1, <2>1, GotoKeeps
  <2> QED
    BY <1>1, <1>3, <1>5, <2>1, <2>2, ListsTyped
<1> QED
  BY <1>4, <1>5

LEMMA InsertStreamIs ==
    ASSUME TypeOK, InsertStream, ctx # <<>>, NEW n, n = Len(ctx)
    PROVE  /\ config.pc = "insert" /\ n \in DOMAIN ctx /\ SameWork /\ config'.pc = "apply"
           /\ DOMAIN streams' = DOMAIN streams \cup {ctx[n].sid} /\ streams'[ctx[n].sid] = n
           /\ \A id \in DOMAIN streams \ {ctx[n].sid} : streams'[id] = streams[id]
           /\ UNCHANGED <<wanted, hasPending, pendingStop, stopFlag, ctx, sched, main, stops,
                          inStop, received, asyncStops>>
<1>1. n \in DOMAIN ctx /\ "apply" \in ConfigPcs
  BY CtxTyped DEF ConfigPcs
<1>2. SameWork /\ config'.pc = "apply"
  BY <1>1, GotoKeeps DEF InsertStream
<1>3. streams' = With(streams, ctx[n].sid, n)
  BY DEF InsertStream
<1>4. /\ DOMAIN streams' = DOMAIN streams \cup {ctx[n].sid} /\ streams'[ctx[n].sid] = n
      /\ \A id \in DOMAIN streams \ {ctx[n].sid} : streams'[id] = streams[id]
  <2>1. /\ DOMAIN With(streams, ctx[n].sid, n) = DOMAIN streams \cup {ctx[n].sid} /\ With(streams, ctx[n].sid, n)[ctx[n].sid] = n
        /\ \A id \in DOMAIN streams \ {ctx[n].sid} : With(streams, ctx[n].sid, n)[id] = streams[id]
    BY DEF With
  <2> QED
    BY <1>3, <2>1, Zenon
<1> QED
  BY <1>1, <1>2, <1>4 DEF InsertStream

LEMMA StopIs ==
    ASSUME TypeOK, Stop
    PROVE  /\ main = "up" /\ main' = "swapStreams" /\ stopFlag' = TRUE /\ SameWork
           /\ config'.pc = config.pc \/ (config.pc = "waiting" /\ config'.pc = "pred")
           /\ UNCHANGED <<wanted, hasPending, pendingStop, streams, ctx, sched, stops, inStop,
                          received, asyncStops>>
BY NotifyKeeps DEF Stop

LEMMA SwapStreamsIs ==
    ASSUME TypeOK, SwapStreams
    PROVE  /\ main = "swapStreams" /\ main' = "swapPending" /\ DOMAIN streams' = {}
           /\ stops' \in [Threads -> Seq(DOMAIN ctx)] /\ stops'["config"] = stops["config"]
           /\ UNCHANGED <<wanted, hasPending, pendingStop, stopFlag, ctx, sched, config, inStop,
                          received, asyncStops>>
<1>1. ContextsOf(DOMAIN streams) \in Seq(DOMAIN ctx)
  BY ContextsOfIs
<1>2. stops' \in [Threads -> Seq(DOMAIN ctx)] /\ stops'["config"] = stops["config"]
  BY <1>1, ListsTyped DEF SwapStreams, Threads
<1> QED
  BY <1>2, NoneMerged DEF SwapStreams

LEMMA SwapPendingStopsIs ==
    ASSUME TypeOK, SwapPendingStops
    PROVE  /\ main = "swapPending" /\ main' = "stopping" /\ pendingStop' = <<>>
           /\ stops' \in [Threads -> Seq(DOMAIN ctx)] /\ stops'["config"] = stops["config"]
           /\ UNCHANGED <<wanted, hasPending, stopFlag, streams, ctx, sched, config, inStop,
                          received, asyncStops>>
<1>1. "main" \in Threads /\ "config" \in Threads
  BY DEF Threads
<1>2. stops["main"] \o pendingStop \in Seq(DOMAIN ctx)
  BY <1>1, ListsTyped, ConcatRange
<1>3. stops' \in [Threads -> Seq(DOMAIN ctx)] /\ stops'["config"] = stops["config"]
  BY <1>1, <1>2, ListsTyped DEF SwapPendingStops
<1> QED
  BY <1>3 DEF SwapPendingStops

-----------------------------------------------------------------------------
(* Type correctness. *)

(* The thread that stops a context has it at the head of its list; the main thread
   fills its list before it stops anything; what the config thread still has to do
   belongs to the part of the batch it is in, and it starts wanted streams only. *)
Control ==
    /\ \A t \in Threads : inStop[t] => stops[t] # <<>>
    /\ inStop["main"] => main = "stopping"
    /\ stopFlag <=> main # "up"
    /\ main = "up" => stops["main"] = <<>>
    /\ config.pc \notin {"batch", "apply"} => stops["config"] = <<>>
    /\ config.pc \notin {"apply", "check", "insert"} => config.starts = <<>>
    /\ config.pc # "apply" => config.updates = <<>>
    /\ config.pc \in {"check", "insert"} => ctx # <<>>
    /\ Range(config.starts) \subseteq DOMAIN config.desired

Typed == TypeOK /\ Control

(* The types after a step that builds no context. *)
LEMMA TypesKept ==
    ASSUME TypeOK,
           wanted' \in MergedStreams, hasPending' \in BOOLEAN, stopFlag' \in BOOLEAN,
           pendingStop' \in Seq(DOMAIN ctx),
           DOMAIN streams' \subseteq StreamIds,
           \A id \in DOMAIN streams' : streams'[id] \in DOMAIN ctx /\ ctx[streams'[id]].sid = id,
           ctx' \in Seq(Contexts), DOMAIN ctx' = DOMAIN ctx,
           \A c \in DOMAIN ctx : ctx'[c].sid = ctx[c].sid,
           DOMAIN sched' \subseteq StreamIds, \A id \in DOMAIN sched' : sched'[id] \in DOMAIN ctx,
           config' \in ConfigStates, main' \in MainPcs,
           stops' \in [Threads -> Seq(DOMAIN ctx)], inStop' \in [Threads -> BOOLEAN],
           received' \in 0 .. MaxConfigs, asyncStops' \in 0 .. MaxAsyncStops
    PROVE  TypeOK'
<1>1. pendingStop' \in Seq(DOMAIN ctx') /\ stops' \in [Threads -> Seq(DOMAIN ctx')]
  BY Zenon
<1>2. config' \in [pc : ConfigPcs, update : BOOLEAN, desired : MergedStreams,
                   updates : Seq(DOMAIN ctx'), starts : Seq(StreamIds)]
  BY Zenon DEF ConfigStates
<1>3. \A id \in DOMAIN streams' : streams'[id] \in DOMAIN ctx' /\ ctx'[streams'[id]].sid = id
  BY Zenon
<1>4. \A id \in DOMAIN sched' : sched'[id] \in DOMAIN ctx'
  BY Zenon
<1> QED
  BY <1>1, <1>2, <1>3, <1>4, Zenon DEF TypeOK

(* The same, for the variables that most steps leave alone. *)
LEMMA TypesHeld ==
    ASSUME TypeOK
    PROVE  /\ wanted \in MergedStreams /\ hasPending \in BOOLEAN /\ stopFlag \in BOOLEAN
           /\ pendingStop \in Seq(DOMAIN ctx) /\ DOMAIN streams \subseteq StreamIds
           /\ \A id \in DOMAIN streams : streams[id] \in DOMAIN ctx /\ ctx[streams[id]].sid = id
           /\ ctx \in Seq(Contexts)
           /\ DOMAIN sched \subseteq StreamIds /\ \A id \in DOMAIN sched : sched[id] \in DOMAIN ctx
           /\ config \in ConfigStates /\ main \in MainPcs
           /\ stops \in [Threads -> Seq(DOMAIN ctx)] /\ inStop \in [Threads -> BOOLEAN]
           /\ received \in 0 .. MaxConfigs /\ asyncStops \in 0 .. MaxAsyncStops
BY Zenon DEF TypeOK, ConfigStates

LEMMA OneContextTyped ==
    ASSUME NEW c \in DOMAIN ctx, OnlyContext(c)
    PROVE  ctx' \in Seq(Contexts) /\ DOMAIN ctx' = DOMAIN ctx /\ \A d \in DOMAIN ctx : ctx'[d].sid = ctx[d].sid
BY DEF OnlyContext

LEMMA StillSome == ASSUME NEW c \in DOMAIN ctx, OnlyContext(c) PROVE ctx' # <<>>
<1>1. c \in DOMAIN ctx'
  BY DEF OnlyContext
<1> QED
  BY <1>1, NotEmpty

LEMMA TypedInit == ASSUME Init PROVE Typed
<1>1. <<>> \in Seq(Contexts) /\ DOMAIN <<>> = {} /\ \A S : <<>> \in Seq(S) /\ Range(<<>>) = {}
  BY EmptySeq
<1>2. config \in ConfigStates
  BY <1>1, NoneMerged DEF Init, ConfigStates, ConfigPcs
<1>3. stops \in [Threads -> Seq(DOMAIN ctx)] /\ inStop \in [Threads -> BOOLEAN]
  BY <1>1 DEF Init
<1>4. TypeOK
  <2>1. received \in 0 .. MaxConfigs /\ asyncStops \in 0 .. MaxAsyncStops /\ main \in MainPcs
    BY LifecycleAssumption DEF Init, MainPcs
  <2>2. pendingStop \in Seq(DOMAIN ctx) /\ ctx \in Seq(Contexts)
    BY <1>1 DEF Init
  <2>3. DOMAIN streams = {} /\ DOMAIN sched = {} /\ wanted \in MergedStreams
    BY NoneMerged DEF Init
  <2>4. hasPending \in BOOLEAN /\ stopFlag \in BOOLEAN
    BY DEF Init
  <2> QED
    BY <1>2, <1>3, <2>1, <2>2, <2>3, <2>4 DEF TypeOK, ConfigStates
<1>5. Control
  BY <1>1 DEF Init, Control, Threads
<1> QED
  BY <1>4, <1>5 DEF Typed

LEMMA TypesStep == ASSUME Typed, Next PROVE TypeOK'
<1> USE DEF Typed
<1>0. "config" \in Threads /\ "main" \in Threads
  BY DEF Threads
<1>1. CASE HandleSocketConfig
  BY <1>1, HandleSocketConfigIs, TypesHeld, TypesKept DEF SameWork
<1>2. ASSUME NEW c \in DOMAIN ctx, AsyncFlag(c) PROVE TypeOK'
  BY <1>2, AsyncFlagIs, OneContextTyped, TypesHeld, TypesKept
<1>3. ASSUME NEW c \in DOMAIN ctx, AsyncErase(c) PROVE TypeOK'
  <2>1. /\ DOMAIN streams' \subseteq StreamIds
        /\ \A id \in DOMAIN streams' : streams'[id] \in DOMAIN ctx /\ ctx[streams'[id]].sid = id
    BY <1>3, AsyncEraseIs, TypesHeld
  <2> QED
    BY <1>3, <2>1, AsyncEraseIs, OneContextTyped, TypesHeld, TypesKept
<1>4. ASSUME NEW c \in DOMAIN ctx, AsyncPush(c) PROVE TypeOK'
  BY <1>4, AsyncPushIs, OneContextTyped, TypesHeld, TypesKept DEF SameWork
<1>5. ASSUME NEW t \in Threads, StopStreamBegin(t) PROVE TypeOK'
  <2> DEFINE c == Head(stops[t])
  <2>1. c \in DOMAIN ctx /\ OnlyContext(c) /\ DOMAIN sched' \subseteq DOMAIN sched
        /\ \A id \in DOMAIN sched' : sched'[id] = sched[id]
    BY <1>5, StopStreamBeginIs
  <2> HIDE DEF c
  <2>2. DOMAIN sched' \subseteq StreamIds /\ \A id \in DOMAIN sched' : sched'[id] \in DOMAIN ctx
    BY <2>1, TypesHeld
  <2> QED
    BY <1>5, <2>1, <2>2, StopStreamBeginIs, OneContextTyped, TypesHeld, TypesKept
<1>6. ASSUME NEW t \in Threads, StopStreamEnd(t) PROVE TypeOK'
  <2> DEFINE c == Head(stops[t])
  <2>1. stops[t] # <<>>
    BY <1>6 DEF Control, StopStreamEnd
  <2>2. c \in DOMAIN ctx /\ OnlyContext(c)
    BY <1>6, <2>1, StopStreamEndIs
  <2> HIDE DEF c
  <2> QED
    BY <1>6, <2>1, <2>2, StopStreamEndIs, OneContextTyped, TypesHeld, TypesKept
<1>7. CASE Moves
  BY <1>7, MovesIs, TypesHeld, TypesKept DEF SameWork
<1>8. CASE TakeBatch
  BY <1>8, TakeBatchIs, TypesHeld, TypesKept, EmptySeq
<1>9. CASE CompareStreams
  <2>1. /\ DOMAIN streams' \subseteq StreamIds
        /\ \A id \in DOMAIN streams' : streams'[id] \in DOMAIN ctx /\ ctx[streams'[id]].sid = id
    BY <1>9, CompareStreamsIs, TypesHeld
  <2> QED
    BY <1>9, <2>1, CompareStreamsIs, TypesHeld, TypesKept
<1>10. CASE UpdateStreamRuntime
  <2> DEFINE c == Head(config.updates)
  <2>1. /\ c \in DOMAIN ctx /\ DOMAIN sched' = DOMAIN sched \cup {ctx[c].sid} /\ sched'[ctx[c].sid] = c
        /\ \A id \in DOMAIN sched \ {ctx[c].sid} : sched'[id] = sched[id]
    BY <1>10, UpdateStreamRuntimeIs
  <2> HIDE DEF c
  <2>2. DOMAIN sched' \subseteq StreamIds /\ \A id \in DOMAIN sched' : sched'[id] \in DOMAIN ctx
    BY <2>1, TypesHeld, CtxTyped
  <2> QED
    BY <1>10, <2>2, UpdateStreamRuntimeIs, TypesHeld, TypesKept
<1>11. CASE BuildStreamContext
  <2> SUFFICES ASSUME NEW id, id = Head(config.starts), NEW n, n = Len(ctx) + 1 PROVE TypeOK'
    OBVIOUS
  <2>1. Range(config.starts) \subseteq DOMAIN config.desired
    BY DEF Control
  <2>2. /\ id \in StreamIds /\ ctx' \in Seq(Contexts) /\ DOMAIN ctx' = DOMAIN ctx \cup {n}
        /\ \A c \in DOMAIN ctx : ctx'[c] = ctx[c]
        /\ DOMAIN sched' = DOMAIN sched \cup {id} /\ sched'[id] = n
        /\ \A i \in DOMAIN sched \ {id} : sched'[i] = sched[i]
        /\ config' \in [pc : ConfigPcs, update : BOOLEAN, desired : MergedStreams,
                        updates : Seq(DOMAIN ctx'), starts : Seq(StreamIds)]
        /\ UNCHANGED <<wanted, hasPending, pendingStop, stopFlag, streams, main, stops, inStop,
                       received, asyncStops>>
    BY <1>11, <2>1, BuildStreamContextIs
  <2>3. pendingStop' \in Seq(DOMAIN ctx')
    BY <2>2, TypesHeld, WiderSeq
  <2>4. stops' \in [Threads -> Seq(DOMAIN ctx')]
    <3>1. \A t \in Threads : stops[t] \in Seq(DOMAIN ctx')
      BY <2>2, ListsTyped, WiderSeq
    <3> QED
      BY <2>2, <3>1, TypesHeld
  <2>5. \A i \in DOMAIN streams' : streams'[i] \in DOMAIN ctx' /\ ctx'[streams'[i]].sid = i
    BY <2>2, TypesHeld
  <2>6. DOMAIN sched' \subseteq StreamIds /\ \A i \in DOMAIN sched' : sched'[i] \in DOMAIN ctx'
    BY <2>2, TypesHeld
  <2> QED
    BY <2>2, <2>3, <2>4, <2>5, <2>6, TypesHeld, Zenon DEF TypeOK
<1>12. CASE CheckBuilt
  <2>1. ctx # <<>>
    BY <1>12 DEF Control, CheckBuilt
  <2> QED
    BY <1>12, <2>1, CheckBuiltIs, TypesHeld, TypesKept DEF SameWork
<1>13. CASE InsertStream
  <2> DEFINE n == Len(ctx)
  <2>1. ctx # <<>>
    BY <1>13 DEF Control, InsertStream
  <2>2. /\ n \in DOMAIN ctx /\ DOMAIN streams' = DOMAIN streams \cup {ctx[n].sid}
        /\ streams'[ctx[n].sid] = n
        /\ \A id \in DOMAIN streams \ {ctx[n].sid} : streams'[id] = streams[id]
    BY <1>13, <2>1, InsertStreamIs
  <2> HIDE DEF n
  <2>3. /\ DOMAIN streams' \subseteq StreamIds
        /\ \A id \in DOMAIN streams' : streams'[id] \in DOMAIN ctx /\ ctx[streams'[id]].sid = id
    BY <2>2, TypesHeld, CtxTyped
  <2> QED
    BY <1>13, <2>1, <2>3, InsertStreamIs, TypesHeld, TypesKept DEF SameWork
<1>14. CASE Stop
  <2>1. main' \in MainPcs /\ stopFlag' \in BOOLEAN
    BY <1>14 DEF Stop, MainPcs
  <2> QED
    BY <1>14, <2>1, StopIs, TypesHeld, TypesKept DEF SameWork
<1>15. CASE SwapStreams
  <2>1. main' \in MainPcs
    BY <1>15 DEF SwapStreams, MainPcs
  <2> QED
    BY <1>15, <2>1, SwapStreamsIs, TypesHeld, TypesKept
<1>16. CASE SwapPendingStops
  <2>1. main' \in MainPcs
    BY <1>16 DEF SwapPendingStops, MainPcs
  <2> QED
    BY <1>16, <2>1, SwapPendingStopsIs, TypesHeld, TypesKept, EmptySeq
<1>17. CASE JoinThreads
  <2>1. main' \in MainPcs
    BY <1>17 DEF JoinThreads, MainPcs
  <2> QED
    BY <1>17, <2>1, TypesHeld, TypesKept DEF JoinThreads
<1>18. CASE FinishStop
  <2>1. main' \in MainPcs
    BY <1>18 DEF FinishStop, MainPcs
  <2> QED
    BY <1>18, <2>1, TypesHeld, TypesKept, EmptySeq, NoneMerged DEF FinishStop
<1>19. CASE Stopped
  BY <1>19, TypesHeld, TypesKept DEF Stopped, vars
<1> QED
  BY <1>0, <1>1, <1>2, <1>3, <1>4, <1>5, <1>6, <1>7, <1>8, <1>9, <1>10, <1>11, <1>12, <1>13,
     <1>14, <1>15, <1>16, <1>17, <1>18, <1>19, Zenon
     DEF Next, ConfigThread, MainThread, StopStream, AsyncStop, Moves

LEMMA ControlStep == ASSUME Typed, Next PROVE Control'
<1> USE DEF Typed
<1>0. Threads = {"config", "main"}
  BY DEF Threads
<1>1. CASE HandleSocketConfig
  BY <1>1, HandleSocketConfigIs DEF Control, SameWork
<1>2. ASSUME NEW c \in DOMAIN ctx, AsyncFlag(c) PROVE Control'
  <2>1. ctx' # <<>>
    BY <1>2, AsyncFlagIs, StillSome
  <2> QED
    BY <1>2, <2>1, AsyncFlagIs DEF Control
<1>3. ASSUME NEW c \in DOMAIN ctx, AsyncErase(c) PROVE Control'
  <2>1. ctx' # <<>>
    BY <1>3, AsyncEraseIs, StillSome
  <2> QED
    BY <1>3, <2>1, AsyncEraseIs DEF Control
<1>4. ASSUME NEW c \in DOMAIN ctx, AsyncPush(c) PROVE Control'
  <2>1. ctx' # <<>>
    BY <1>4, AsyncPushIs, StillSome
  <2> QED
    BY <1>4, <2>1, AsyncPushIs DEF Control, SameWork
<1>5. ASSUME NEW t \in Threads, StopStreamBegin(t) PROVE Control'
  <2> SUFFICES ASSUME NEW c, c = Head(stops[t]) PROVE Control'
    OBVIOUS
  <2>1. ctx' # <<>>
    BY <1>5, StopStreamBeginIs, StillSome
  <2>2. /\ stops[t] # <<>> /\ (t = "main" => main = "stopping") /\ inStop'[t] = TRUE
        /\ \A u \in Threads \ {t} : inStop'[u] = inStop[u]
        /\ UNCHANGED <<stopFlag, config, main, stops>>
    BY <1>5, StopStreamBeginIs
  <2> QED
    BY <1>0, <2>1, <2>2 DEF Control
<1>6. ASSUME NEW t \in Threads, StopStreamEnd(t) PROVE Control'
  <2> SUFFICES ASSUME NEW c, c = Head(stops[t]) PROVE Control'
    OBVIOUS
  <2>1. stops[t] # <<>> /\ inStop[t]
    BY <1>6 DEF Control, StopStreamEnd
  <2>2. ctx' # <<>>
    BY <1>6, <2>1, StopStreamEndIs, StillSome
  <2>3. /\ inStop'[t] = FALSE
        /\ \A u \in Threads \ {t} : inStop'[u] = inStop[u] /\ stops'[u] = stops[u]
        /\ UNCHANGED <<stopFlag, config, main>>
    BY <1>6, <2>1, StopStreamEndIs
  <2> QED
    BY <1>0, <2>1, <2>2, <2>3 DEF Control
<1>7. CASE Moves
  BY <1>7, MovesIs DEF Control, SameWork
<1>8. CASE TakeBatch
  <2>1. ~inStop["config"] /\ config.starts = <<>> /\ config.updates = <<>>
    BY <1>0, <1>8, TakeBatchIs DEF Control
  <2> QED
    BY <1>0, <1>8, <2>1, TakeBatchIs, EmptySeq DEF Control
<1>9. CASE CompareStreams
  <2>1. ~inStop["config"]
    BY <1>0, <1>9, CompareStreamsIs DEF Control
  <2>2. Range(config'.starts) \subseteq DOMAIN config'.desired
    BY <1>9, CompareStreamsIs DEF Moved
  <2>3. /\ config'.pc = "apply" /\ stops'["main"] = stops["main"] /\ inStop' = inStop
        /\ main' = main /\ stopFlag' = stopFlag
    BY <1>9, CompareStreamsIs
  <2> QED
    BY <1>0, <2>1, <2>2, <2>3 DEF Control
<1>10. CASE UpdateStreamRuntime
  BY <1>10, UpdateStreamRuntimeIs DEF Control
<1>11. CASE BuildStreamContext
  <2> SUFFICES ASSUME NEW id, id = Head(config.starts), NEW n, n = Len(ctx) + 1 PROVE Control'
    OBVIOUS
  <2>1. Range(config.starts) \subseteq DOMAIN config.desired
    BY DEF Control
  <2>2. /\ Starting /\ n \in Nat /\ DOMAIN ctx' = DOMAIN ctx \cup {n}
        /\ config'.pc = "check" /\ config'.desired = config.desired /\ config'.updates = <<>>
        /\ Range(config.starts) = {id} \cup Range(config'.starts)
        /\ UNCHANGED <<stopFlag, main, stops, inStop>>
    BY <1>11, <2>1, BuildStreamContextIs
  <2>3. ctx' # <<>>
    BY <2>2, NotEmpty, Zenon
  <2> QED
    BY <2>1, <2>2, <2>3 DEF Control, Starting
<1>12. CASE CheckBuilt
  <2> SUFFICES ASSUME NEW n, n = Len(ctx) PROVE Control'
    OBVIOUS
  <2>1. ctx # <<>> /\ ~inStop["config"] /\ stops["config"] = <<>>
    BY <1>0, <1>12 DEF Control, CheckBuilt
  <2>2. CASE config'.pc = "apply"
    BY <1>0, <1>12, <2>1, <2>2, CheckBuiltIs DEF Control, SameWork
  <2>3. CASE config'.pc # "apply"
    <3>1. config'.pc = "insert" /\ stops' = stops
      BY <1>12, <2>1, <2>3, CheckBuiltIs
    <3> QED
      BY <1>12, <2>1, <3>1, CheckBuiltIs DEF Control, SameWork
  <2> QED
    BY <2>2, <2>3
<1>13. CASE InsertStream
  <2>1. ctx # <<>>
    BY <1>13 DEF Control, InsertStream
  <2> QED
    BY <1>13, <2>1, InsertStreamIs DEF Control, SameWork
<1>14. CASE Stop
  BY <1>14, StopIs DEF Control, SameWork
<1>15. CASE SwapStreams
  BY <1>0, <1>15, SwapStreamsIs DEF Control
<1>16. CASE SwapPendingStops
  BY <1>0, <1>16, SwapPendingStopsIs DEF Control
<1>17. CASE JoinThreads
  BY <1>0, <1>17 DEF Control, JoinThreads
<1>18. CASE FinishStop
  BY <1>0, <1>18 DEF Control, FinishStop
<1>19. CASE Stopped
  BY <1>19 DEF Control, Stopped, vars
<1> QED
  BY <1>0, <1>1, <1>2, <1>3, <1>4, <1>5, <1>6, <1>7, <1>8, <1>9, <1>10, <1>11, <1>12, <1>13,
     <1>14, <1>15, <1>16, <1>17, <1>18, <1>19, Zenon
     DEF Next, ConfigThread, MainThread, StopStream, AsyncStop, Moves

LEMMA TypedStutter == ASSUME Typed, UNCHANGED vars PROVE Typed'
<1>1. TypeOK'
  BY TypesHeld, TypesKept DEF Typed, vars
<1>2. Control'
  BY DEF Typed, Control, vars
<1> QED
  BY <1>1, <1>2 DEF Typed

(* Every reachable state is typed, and the threads are where their lists say. *)
LEMMA TypedAlways == Spec => []Typed
<1>1. Init => Typed
  BY TypedInit
<1>2. Typed /\ [Next]_vars => Typed'
  BY TypesStep, ControlStep, TypedStutter DEF Typed
<1> QED
  BY <1>1, <1>2, PTL DEF Spec

(* Type correctness of the life of the streams: streams_, the scheduler, the lists of
   contexts to stop and to update name contexts that have been built, and a listed
   context is listed under its own stream. *)
THEOREM TypeCorrect == Spec => []TypeOK
<1>1. Typed => TypeOK
  BY DEF Typed
<1> QED
  BY <1>1, TypedAlways, PTL

-----------------------------------------------------------------------------
(* The scheduler's entries. *)

(* The context that applyConfigBatch has built and not yet inserted. *)
Adding(c) == config.pc \in {"check", "insert"} /\ c = Len(ctx)

(* The stop of the context has been asked for by its own puller, and not taken up. *)
Asked(c) == ctx[c].puller \in {"erase", "push"} \/ c \in Range(pendingStop)

(* It is to be stopped by the config thread. *)
Doomed(c) == Asked(c) \/ c \in Range(stops["config"])

Listed(c) == ctx[c].sid \in DOMAIN streams /\ streams[ctx[c].sid] = c

(* An entry is that of a context of its stream, which is listed, about to be, or about
   to be stopped; stopStream finds no entry of the stream when it has removed it; what
   is updated is listed or asks for its stop; and the context that is being added has
   the entry of its stream. *)
OwnStream == \A id \in DOMAIN sched : ctx[sched[id]].sid = id
EntryKept == \A id \in DOMAIN sched : Listed(sched[id]) \/ Doomed(sched[id]) \/ Adding(sched[id])
EntryRemoved == inStop["config"] => ctx[Head(stops["config"])].sid \notin DOMAIN sched
UpdatesKept == \A c \in Range(config.updates) : Listed(c) \/ Asked(c)
NewEntry == \A id \in DOMAIN sched, c \in DOMAIN ctx : Adding(c) /\ ctx[c].sid = id => sched[id] = c

Registered == ~stopFlag => OwnStream /\ EntryKept /\ EntryRemoved /\ UpdatesKept /\ NewEntry

(* While the program runs, the main thread stops nothing. *)
LEMMA Running ==
    ASSUME Typed, ~stopFlag
    PROVE  /\ main = "up" /\ ~inStop["main"] /\ stops["main"] = <<>>
           /\ ~StopStream("main") /\ ~SwapStreams /\ ~SwapPendingStops /\ ~JoinThreads
           /\ ~FinishStop /\ ~Stopped
<1>1. main = "up" /\ ~inStop["main"] /\ stops["main"] = <<>>
  BY DEF Typed, Control
<1> QED
  BY <1>1 DEF StopStream, StopStreamBegin, StopStreamEnd, SwapStreams, SwapPendingStops,
     JoinThreads, FinishStop, Stopped

LEMMA StaysStopped == ASSUME Typed, [Next]_vars, ~stopFlag' PROVE ~stopFlag
<1>1. TypeOK /\ (stopFlag \in BOOLEAN)
  BY DEF Typed, TypeOK
<1>2. CASE Next
  <2>1. stopFlag' = stopFlag \/ stopFlag' = TRUE
    BY <1>2 DEF Next, HandleSocketConfig, AsyncFlag, AsyncStop, AsyncErase, AsyncPush,
       ConfigThread, StopStream, StopStreamBegin, StopStreamEnd, LoopTop, PredicateFalse, Block,
       SpuriousWakeup, LoopBreak, TakeBatch, NoUpdate, CompareStreams, UpdateStreamRuntime,
       BuildStreamContext, CheckBuilt, InsertStream, BatchDone, Stop, MainThread, SwapStreams,
       SwapPendingStops, JoinThreads, FinishStop, Stopped, vars
  <2> QED
    BY <1>1, <2>1
<1>3. CASE UNCHANGED vars
  BY <1>3 DEF vars
<1> QED
  BY <1>2, <1>3

LEMMA RegisteredInit == ASSUME Init PROVE Registered
<1>1. DOMAIN sched = {} /\ Range(config.updates) = {} /\ ~inStop["config"]
  BY NoneMerged, EmptySeq DEF Init, Threads
<1> QED
  BY <1>1 DEF Registered, OwnStream, EntryKept, EntryRemoved, UpdatesKept, NewEntry

(* A step that leaves the maps, the lists of the config thread and the streams of the
   contexts alone, and loses no request for a stop. *)
LEMMA RegisteredKept ==
    ASSUME Typed, Registered, ~stopFlag,
           UNCHANGED <<sched, stops, inStop>>,
           Len(ctx') = Len(ctx), DOMAIN ctx' = DOMAIN ctx,
           \A c \in DOMAIN ctx : ctx'[c].sid = ctx[c].sid,
           \A c \in DOMAIN ctx : Asked(c) => Asked(c)',
           \A c \in DOMAIN ctx : Listed(c) => Listed(c)' \/ Asked(c)',
           config'.updates = config.updates,
           config.pc \in {"check", "insert"} <=> config'.pc \in {"check", "insert"}
    PROVE  Registered'
<1>0. /\ \A id \in DOMAIN sched : sched[id] \in DOMAIN ctx
      /\ Range(config.updates) \subseteq DOMAIN ctx
  BY MapsTyped, ConfigTyped DEF Typed
<1>1. OwnStream' /\ NewEntry'
  BY <1>0 DEF Registered, OwnStream, NewEntry, Adding
<1>2. EntryKept'
  <2> SUFFICES ASSUME NEW id \in DOMAIN sched
               PROVE  Listed(sched[id])' \/ Doomed(sched[id])' \/ Adding(sched[id])'
    BY DEF EntryKept
  <2>1. Listed(sched[id]) \/ Doomed(sched[id]) \/ Adding(sched[id])
    BY DEF Registered, EntryKept
  <2>2. Adding(sched[id]) => Adding(sched[id])'
    BY DEF Adding
  <2>3. Doomed(sched[id]) => Doomed(sched[id])'
    <3>1. Asked(sched[id]) => Asked(sched[id])'
      BY <1>0
    <3> QED
      BY <3>1 DEF Doomed
  <2>4. Listed(sched[id]) => Listed(sched[id])' \/ Asked(sched[id])'
    BY <1>0
  <2> QED
    BY <2>1, <2>2, <2>3, <2>4 DEF Doomed
<1>3. EntryRemoved'
  <2>1. inStop["config"] => Head(stops["config"]) \in DOMAIN ctx
    BY ListsTyped, SeqParts DEF Typed, Control, Threads
  <2> QED
    BY <2>1 DEF Registered, EntryRemoved
<1>4. UpdatesKept'
  BY <1>0 DEF Registered, UpdatesKept
<1> QED
  BY <1>1, <1>2, <1>3, <1>4 DEF Registered

LEMMA RegisteredAsync ==
    ASSUME Typed, Registered, ~stopFlag, NEW c \in DOMAIN ctx,
           AsyncFlag(c) \/ AsyncErase(c) \/ AsyncPush(c)
    PROVE  Registered'
<1> USE DEF Typed
<1>1. CASE AsyncFlag(c)
  <2>1. \A d \in DOMAIN ctx : (Asked(d) => Asked(d)') /\ (Listed(d) => Listed(d)')
    BY <1>1, AsyncFlagIs DEF Asked, Listed, OnlyContext
  <2> QED
    BY <1>1, <2>1, AsyncFlagIs, RegisteredKept DEF OnlyContext
<1>2. CASE AsyncErase(c)
  <2>1. \A d \in DOMAIN ctx : Asked(d) => Asked(d)'
    BY <1>2, AsyncEraseIs DEF Asked, OnlyContext
  <2>2. \A d \in DOMAIN ctx : Listed(d) => Listed(d)' \/ Asked(d)'
    <3> SUFFICES ASSUME NEW d \in DOMAIN ctx, Listed(d), d # c PROVE Listed(d)'
      BY <1>2, AsyncEraseIs DEF Asked
    <3>1. ctx'[d] = ctx[d] /\ ctx[d].sid \in DOMAIN streams /\ streams[ctx[d].sid] = d
      BY <1>2, AsyncEraseIs DEF OnlyContext, Listed
    <3>2. ctx[d].sid \in DOMAIN streams' /\ streams'[ctx[d].sid] = streams[ctx[d].sid]
      BY <1>2, <3>1, AsyncEraseIs
    <3> QED
      BY <3>1, <3>2 DEF Listed
  <2> QED
    BY <1>2, <2>1, <2>2, AsyncEraseIs, RegisteredKept DEF OnlyContext
<1>3. CASE AsyncPush(c)
  <2>1. \A d \in DOMAIN ctx : (Asked(d) => Asked(d)') /\ (Listed(d) => Listed(d)')
    BY <1>3, AsyncPushIs DEF Asked, Listed, OnlyContext
  <2>2. /\ config'.updates = config.updates
        /\ config.pc \in {"check", "insert"} <=> config'.pc \in {"check", "insert"}
    BY <1>3, AsyncPushIs DEF SameWork
  <2> QED
    BY <1>3, <2>1, <2>2, AsyncPushIs, RegisteredKept DEF OnlyContext
<1> QED
  BY <1>1, <1>2, <1>3

LEMMA RegisteredStopBegin ==
    ASSUME Typed, Registered, ~stopFlag, StopStreamBegin("config") PROVE Registered'
<1> SUFFICES ASSUME NEW c, c = Head(stops["config"]) PROVE Registered'
  OBVIOUS
<1> USE DEF Typed
<1>0. "config" \in Threads
  BY DEF Threads
<1>1. /\ c \in DOMAIN ctx /\ OnlyContext(c) /\ ctx'[c].puller = ctx[c].puller
      /\ DOMAIN sched' = DOMAIN sched \ {ctx[c].sid}
      /\ \A id \in DOMAIN sched' : sched'[id] = sched[id]
      /\ UNCHANGED <<pendingStop, stopFlag, streams, config, stops>>
  BY <1>0, StopStreamBeginIs
<1>2. /\ Len(ctx') = Len(ctx) /\ DOMAIN ctx' = DOMAIN ctx
      /\ \A d \in DOMAIN ctx : ctx'[d].sid = ctx[d].sid /\ ctx'[d].puller = ctx[d].puller
  BY <1>1 DEF OnlyContext
<1>3. /\ \A id \in DOMAIN sched : sched[id] \in DOMAIN ctx
      /\ Range(config.updates) \subseteq DOMAIN ctx
  BY MapsTyped, ConfigTyped
<1>4. \A d \in DOMAIN ctx : (Asked(d) => Asked(d)') /\ (Listed(d) => Listed(d)')
                            /\ (Doomed(d) => Doomed(d)') /\ (Adding(d) <=> Adding(d)')
  BY <1>1, <1>2 DEF Asked, Listed, Doomed, Adding
<1>5. OwnStream' /\ NewEntry'
  BY <1>1, <1>2, <1>3, <1>4 DEF Registered, OwnStream, NewEntry
<1>6. EntryKept'
  <2> SUFFICES ASSUME NEW id \in DOMAIN sched', NEW d, d = sched'[id]
               PROVE  Listed(d)' \/ Doomed(d)' \/ Adding(d)'
    BY DEF EntryKept, Listed, Doomed, Asked, Adding
  <2>1. id \in DOMAIN sched /\ d = sched[id] /\ d \in DOMAIN ctx
    BY <1>1, <1>3
  <2>2. Listed(d) \/ Doomed(d) \/ Adding(d)
    BY <2>1 DEF Registered, EntryKept
  <2> QED
    BY <1>4, <2>1, <2>2
<1>7. EntryRemoved'
  BY <1>1, <1>2 DEF EntryRemoved
<1>8. UpdatesKept'
  BY <1>1, <1>3, <1>4 DEF Registered, UpdatesKept
<1> QED
  BY <1>5, <1>6, <1>7, <1>8 DEF Registered

LEMMA RegisteredStopEnd ==
    ASSUME Typed, Registered, ~stopFlag, StopStreamEnd("config") PROVE Registered'
<1> SUFFICES ASSUME NEW c, c = Head(stops["config"]) PROVE Registered'
  OBVIOUS
<1> USE DEF Typed
<1>0. "config" \in Threads /\ stops["config"] # <<>>
  BY DEF Threads, StopStreamEnd, Control
<1>1. /\ c \in DOMAIN ctx /\ OnlyContext(c) /\ ctx'[c].puller = "joined"
      /\ ctx[c].puller \in {"running", "joined"}
      /\ inStop["config"] /\ ~inStop'["config"]
      /\ Range(stops["config"]) = {c} \cup Range(stops'["config"])
      /\ UNCHANGED <<pendingStop, stopFlag, streams, sched, config>>
  BY <1>0, StopStreamEndIs
<1>2. /\ Len(ctx') = Len(ctx) /\ DOMAIN ctx' = DOMAIN ctx
      /\ \A d \in DOMAIN ctx : ctx'[d].sid = ctx[d].sid
      /\ \A d \in DOMAIN ctx \ {c} : ctx'[d].puller = ctx[d].puller
  BY <1>1 DEF OnlyContext
<1>3. /\ \A id \in DOMAIN sched : sched[id] \in DOMAIN ctx
      /\ Range(config.updates) \subseteq DOMAIN ctx
  BY MapsTyped, ConfigTyped
<1>4. \A d \in DOMAIN ctx : (Asked(d) => Asked(d)') /\ (Listed(d) => Listed(d)')
                            /\ (Adding(d) <=> Adding(d)')
  BY <1>1, <1>2 DEF Asked, Listed, Adding
<1>5. \A d \in DOMAIN ctx \ {c} : Doomed(d) => Doomed(d)'
  BY <1>1, <1>4 DEF Doomed
<1>6. OwnStream' /\ NewEntry'
  BY <1>1, <1>2, <1>3, <1>4 DEF Registered, OwnStream, NewEntry
<1>7. EntryKept'
  <2> SUFFICES ASSUME NEW id \in DOMAIN sched', NEW d, d = sched'[id]
               PROVE  Listed(d)' \/ Doomed(d)' \/ Adding(d)'
    BY DEF EntryKept, Listed, Doomed, Asked, Adding
  <2>1. id \in DOMAIN sched /\ d = sched[id] /\ d \in DOMAIN ctx /\ ctx[d].sid = id
    BY <1>1, <1>3 DEF Registered, OwnStream
  <2>2. d # c
    BY <1>1, <2>1 DEF Registered, EntryRemoved
  <2>3. Listed(d) \/ Doomed(d) \/ Adding(d)
    BY <2>1 DEF Registered, EntryKept
  <2> QED
    BY <1>4, <1>5, <2>1, <2>2, <2>3
<1>8. EntryRemoved' /\ UpdatesKept'
  BY <1>1, <1>3, <1>4 DEF Registered, UpdatesKept, EntryRemoved
<1> QED
  BY <1>6, <1>7, <1>8 DEF Registered

LEMMA RegisteredTakeBatch == ASSUME Typed, Registered, TakeBatch PROVE Registered'
<1> USE DEF Typed
<1>1. /\ ~stopFlag /\ config.pc = "pred" /\ config'.pc = "batch" /\ config'.updates = config.updates
      /\ pendingStop' = <<>> /\ stops'["config"] = pendingStop
      /\ UNCHANGED <<stopFlag, streams, ctx, sched, inStop>>
  BY TakeBatchIs
<1>2. stops["config"] = <<>> /\ config.updates = <<>> /\ ~inStop["config"]
  BY <1>1 DEF Control, Threads
<1>3. Range(stops["config"]) = {} /\ Range(config'.updates) = {}
  BY <1>1, <1>2, EmptySeq, Zenon
<1>4. \A d \in DOMAIN ctx : (Doomed(d) => Doomed(d)') /\ (Listed(d) => Listed(d)') /\ ~Adding(d)
                            /\ ~Adding(d)'
  BY <1>1, <1>3 DEF Doomed, Asked, Listed, Adding
<1>5. OwnStream' /\ NewEntry'
  BY <1>1, <1>4 DEF Registered, OwnStream, NewEntry
<1>6. EntryKept'
  <2> SUFFICES ASSUME NEW id \in DOMAIN sched', NEW d, d = sched'[id]
               PROVE  Listed(d)' \/ Doomed(d)' \/ Adding(d)'
    BY DEF EntryKept, Listed, Doomed, Asked, Adding
  <2>1. id \in DOMAIN sched /\ d = sched[id] /\ d \in DOMAIN ctx
    BY <1>1, MapsTyped
  <2>2. Listed(d) \/ Doomed(d) \/ Adding(d)
    BY <1>1, <2>1 DEF Registered, EntryKept
  <2> QED
    BY <1>4, <2>1, <2>2
<1>7. EntryRemoved' /\ UpdatesKept'
  BY <1>1, <1>2, <1>3 DEF EntryRemoved, UpdatesKept
<1> QED
  BY <1>5, <1>6, <1>7 DEF Registered

LEMMA RegisteredCompare == ASSUME Typed, Registered, ~stopFlag, CompareStreams PROVE Registered'
<1> USE DEF Typed
<1>1. /\ config.pc = "batch" /\ stops["config"] = <<>> /\ config'.pc = "apply"
      /\ DOMAIN streams' = DOMAIN streams \ Dropped
      /\ \A id \in DOMAIN streams' : streams'[id] = streams[id]
      /\ Len(ctx') = Len(ctx) /\ DOMAIN ctx' = DOMAIN ctx
      /\ \A c \in DOMAIN ctx : ctx'[c].sid = ctx[c].sid /\ ctx'[c].puller = ctx[c].puller
      /\ Range(stops'["config"]) = {streams[id] : id \in Dropped}
      /\ Range(config'.updates) = {streams[id] : id \in Updated}
      /\ UNCHANGED <<pendingStop, stopFlag, sched, inStop>>
  BY CompareStreamsIs
<1>2. ~inStop["config"] /\ Range(stops["config"]) = {}
  <2>1. ~inStop["config"]
    BY <1>1 DEF Control, Threads
  <2> QED
    BY <1>1, <2>1, EmptySeq, Zenon
<1>3. \A d \in DOMAIN ctx : (Asked(d) => Asked(d)') /\ ~Adding(d) /\ ~Adding(d)'
  BY <1>1 DEF Asked, Adding
<1>4. \A d \in DOMAIN ctx : Doomed(d) => Doomed(d)'
  BY <1>2, <1>3 DEF Doomed
<1>5. ASSUME NEW d \in DOMAIN ctx, Listed(d) PROVE Listed(d)' \/ Doomed(d)'
  <2>1. CASE ctx[d].sid \in Dropped
    BY <1>1, <1>5, <2>1 DEF Listed, Doomed
  <2>2. CASE ctx[d].sid \notin Dropped
    BY <1>1, <1>5, <2>2 DEF Listed
  <2> QED
    BY <2>1, <2>2
<1>6. OwnStream' /\ NewEntry'
  BY <1>1, <1>3, MapsTyped DEF Registered, OwnStream, NewEntry
<1>7. EntryKept'
  <2> SUFFICES ASSUME NEW id \in DOMAIN sched', NEW d, d = sched'[id]
               PROVE  Listed(d)' \/ Doomed(d)' \/ Adding(d)'
    BY DEF EntryKept, Listed, Doomed, Asked, Adding
  <2>1. id \in DOMAIN sched /\ d = sched[id] /\ d \in DOMAIN ctx
    BY <1>1, MapsTyped
  <2>2. Listed(d) \/ Doomed(d) \/ Adding(d)
    BY <1>1, <2>1 DEF Registered, EntryKept
  <2> QED
    BY <1>3, <1>4, <1>5, <2>1, <2>2
<1>8. UpdatesKept'
  <2> SUFFICES ASSUME NEW id \in Updated, NEW d, d = streams[id] PROVE Listed(d)'
    BY <1>1 DEF UpdatesKept
  <2>1. id \in DOMAIN streams /\ id \in DOMAIN streams'
    BY <1>1 DEF Updated
  <2>2. d \in DOMAIN ctx /\ ctx'[d].sid = id /\ streams'[id] = d
    BY <1>1, <2>1, MapsTyped
  <2> QED
    BY <2>1, <2>2 DEF Listed
<1>9. EntryRemoved'
  BY <1>1, <1>2 DEF EntryRemoved
<1> QED
  BY <1>6, <1>7, <1>8, <1>9 DEF Registered

LEMMA RegisteredUpdate ==
    ASSUME Typed, Registered, ~stopFlag, UpdateStreamRuntime PROVE Registered'
<1> SUFFICES ASSUME NEW c, c = Head(config.updates) PROVE Registered'
  OBVIOUS
<1> USE DEF Typed
<1>1. /\ config.pc = "apply" /\ config'.pc = "apply" /\ stops["config"] = <<>>
      /\ c \in DOMAIN ctx /\ c \in Range(config.updates)
      /\ DOMAIN sched' = DOMAIN sched \cup {ctx[c].sid} /\ sched'[ctx[c].sid] = c
      /\ \A id \in DOMAIN sched \ {ctx[c].sid} : sched'[id] = sched[id]
      /\ Range(config'.updates) \subseteq Range(config.updates)
      /\ UNCHANGED <<pendingStop, stopFlag, streams, ctx, stops, inStop>>
  BY UpdateStreamRuntimeIs
<1>2. ~inStop["config"]
  BY <1>1 DEF Control, Threads
<1>3. \A d : /\ Asked(d) => Asked(d)'
             /\ Listed(d) => Listed(d)'
             /\ Doomed(d) => Doomed(d)'
             /\ ~Adding(d) /\ ~Adding(d)'
  BY <1>1 DEF Asked, Listed, Doomed, Adding
<1>4. Listed(c) \/ Asked(c)
  BY <1>1 DEF Registered, UpdatesKept
<1>5. OwnStream' /\ NewEntry'
  BY <1>1, <1>3 DEF Registered, OwnStream, NewEntry
<1>6. EntryKept'
  <2> SUFFICES ASSUME NEW id \in DOMAIN sched', NEW d, d = sched'[id]
               PROVE  Listed(d)' \/ Doomed(d)' \/ Adding(d)'
    BY DEF EntryKept, Listed, Doomed, Asked, Adding
  <2>1. CASE d = c
    BY <1>3, <1>4, <2>1 DEF Doomed
  <2>2. CASE d # c
    <3>1. id \in DOMAIN sched /\ d = sched[id]
      BY <1>1, <2>2
    <3>2. Listed(d) \/ Doomed(d) \/ Adding(d)
      BY <3>1 DEF Registered, EntryKept
    <3> QED
      BY <1>3, <3>2
  <2> QED
    BY <2>1, <2>2
<1>7. EntryRemoved' /\ UpdatesKept'
  BY <1>1, <1>2, <1>3 DEF Registered, EntryRemoved, UpdatesKept
<1> QED
  BY <1>5, <1>6, <1>7 DEF Registered

LEMMA RegisteredBuild ==
    ASSUME Typed, Registered, ~stopFlag, BuildStreamContext PROVE Registered'
<1> SUFFICES ASSUME NEW id, id = Head(config.starts), NEW n, n = Len(ctx) + 1 PROVE Registered'
  OBVIOUS
<1> USE DEF Typed
<1>0. Range(config.starts) \subseteq DOMAIN config.desired
  BY DEF Control
<1>1. /\ Starting /\ n \notin DOMAIN ctx /\ Len(ctx') = n /\ DOMAIN ctx' = DOMAIN ctx \cup {n}
      /\ \A c \in DOMAIN ctx : ctx'[c] = ctx[c]
      /\ ctx'[n].sid = id
      /\ DOMAIN sched' = DOMAIN sched \cup {id} /\ sched'[id] = n
      /\ \A i \in DOMAIN sched \ {id} : sched'[i] = sched[i]
      /\ config'.pc = "check" /\ config'.updates = <<>>
      /\ UNCHANGED <<pendingStop, stopFlag, streams, stops, inStop>>
  <2>1. ctx'[n].sid = id
    BY NewContextIs
  <2>2. /\ Starting /\ n \notin DOMAIN ctx /\ Len(ctx') = n /\ DOMAIN ctx' = DOMAIN ctx \cup {n}
        /\ \A c \in DOMAIN ctx : ctx'[c] = ctx[c]
        /\ DOMAIN sched' = DOMAIN sched \cup {id} /\ sched'[id] = n
        /\ \A i \in DOMAIN sched \ {id} : sched'[i] = sched[i]
        /\ config'.pc = "check" /\ config'.updates = <<>>
        /\ UNCHANGED <<pendingStop, stopFlag, streams, stops, inStop>>
    BY <1>0, BuildStreamContextIs
  <2> QED
    BY <2>1, <2>2
<1>2. config.pc = "apply" /\ stops["config"] = <<>> /\ ~inStop["config"]
  BY <1>1 DEF Control, Threads, Starting
<1>3. \A d \in DOMAIN ctx : /\ Doomed(d) => Doomed(d)'
                            /\ Listed(d) => Listed(d)'
                            /\ ~Adding(d) /\ ~Adding(d)'
  BY <1>1, <1>2 DEF Asked, Listed, Doomed, Adding
<1>4. Adding(n)'
  BY <1>1 DEF Adding
<1>5. OwnStream'
  BY <1>1, MapsTyped DEF Registered, OwnStream
<1>6. NewEntry'
  BY <1>1 DEF NewEntry, Adding
<1>7. EntryKept'
  <2> SUFFICES ASSUME NEW i \in DOMAIN sched', NEW d, d = sched'[i]
               PROVE  Listed(d)' \/ Doomed(d)' \/ Adding(d)'
    BY DEF EntryKept, Listed, Doomed, Asked, Adding
  <2>1. CASE i = id
    BY <1>1, <1>4, <2>1
  <2>2. CASE i # id
    <3>1. i \in DOMAIN sched /\ d = sched[i] /\ d \in DOMAIN ctx
      BY <1>1, <2>2, MapsTyped
    <3>2. Listed(d) \/ Doomed(d) \/ Adding(d)
      BY <3>1 DEF Registered, EntryKept
    <3> QED
      BY <1>3, <3>1, <3>2
  <2> QED
    BY <2>1, <2>2
<1>8. Range(config'.updates) = {}
  BY <1>1, EmptySeq, Zenon
<1>9. EntryRemoved' /\ UpdatesKept'
  BY <1>1, <1>2, <1>8 DEF EntryRemoved, UpdatesKept
<1> QED
  BY <1>5, <1>6, <1>7, <1>9 DEF Registered

LEMMA RegisteredCheck == ASSUME Typed, Registered, ~stopFlag, CheckBuilt PROVE Registered'
<1> SUFFICES ASSUME NEW n, n = Len(ctx) PROVE Registered'
  OBVIOUS
<1> USE DEF Typed
<1>0. config.pc = "check" /\ ctx # <<>> /\ stops["config"] = <<>> /\ ~inStop["config"]
  BY DEF Control, CheckBuilt, Threads
<1>1. CASE config'.pc = "apply"
  <2>1. /\ n \in DOMAIN ctx /\ Range(stops'["config"]) = {n} /\ config'.updates = config.updates
        /\ UNCHANGED <<pendingStop, stopFlag, streams, ctx, sched, inStop>>
    BY <1>0, <1>1, CheckBuiltIs DEF SameWork
  <2>2. Range(stops["config"]) = {} /\ Range(config'.updates) = {}
    <3>1. config.updates = <<>>
      BY <1>0 DEF Control
    <3> QED
      BY <1>0, <2>1, <3>1, EmptySeq, Zenon
  <2>3. \A d \in DOMAIN ctx : /\ Doomed(d) => Doomed(d)'
                              /\ Listed(d) => Listed(d)'
                              /\ Adding(d) => Doomed(d)'
                              /\ ~Adding(d)'
    BY <1>1, <2>1, <2>2 DEF Asked, Listed, Doomed, Adding
  <2>4. OwnStream' /\ NewEntry'
    BY <2>1, <2>3 DEF Registered, OwnStream, NewEntry
  <2>5. EntryKept'
    <3> SUFFICES ASSUME NEW i \in DOMAIN sched', NEW d, d = sched'[i]
                 PROVE  Listed(d)' \/ Doomed(d)' \/ Adding(d)'
      BY DEF EntryKept, Listed, Doomed, Asked, Adding
    <3>1. i \in DOMAIN sched /\ d = sched[i] /\ d \in DOMAIN ctx
      BY <2>1, MapsTyped
    <3>2. Listed(d) \/ Doomed(d) \/ Adding(d)
      BY <3>1 DEF Registered, EntryKept
    <3> QED
      BY <2>3, <3>1, <3>2
  <2>6. EntryRemoved' /\ UpdatesKept'
    BY <1>0, <2>1, <2>2 DEF EntryRemoved, UpdatesKept
  <2> QED
    BY <2>4, <2>5, <2>6 DEF Registered
<1>2. CASE config'.pc # "apply"
  <2>1. /\ config'.pc = "insert" /\ stops' = stops /\ config'.updates = config.updates
        /\ UNCHANGED <<pendingStop, stopFlag, streams, ctx, sched, inStop>>
    BY <1>0, <1>2, CheckBuiltIs DEF SameWork
  <2>2. \A d \in DOMAIN ctx : (Asked(d) => Asked(d)') /\ (Listed(d) => Listed(d)')
    BY <2>1 DEF Asked, Listed
  <2> QED
    BY <1>0, <2>1, <2>2, RegisteredKept
<1> QED
  BY <1>1, <1>2

LEMMA RegisteredInsert == ASSUME Typed, Registered, ~stopFlag, InsertStream PROVE Registered'
<1> SUFFICES ASSUME NEW n, n = Len(ctx) PROVE Registered'
  OBVIOUS
<1> USE DEF Typed
<1>0. config.pc = "insert" /\ ctx # <<>> /\ stops["config"] = <<>> /\ ~inStop["config"]
  BY DEF Control, InsertStream, Threads
<1>1. /\ n \in DOMAIN ctx /\ config'.pc = "apply" /\ config'.updates = config.updates
      /\ DOMAIN streams' = DOMAIN streams \cup {ctx[n].sid} /\ streams'[ctx[n].sid] = n
      /\ \A id \in DOMAIN streams \ {ctx[n].sid} : streams'[id] = streams[id]
      /\ UNCHANGED <<pendingStop, stopFlag, ctx, sched, stops, inStop>>
  BY <1>0, InsertStreamIs DEF SameWork
<1>2. Range(config'.updates) = {}
  <2>1. config.updates = <<>>
    BY <1>0 DEF Control
  <2> QED
    BY <1>1, <2>1, EmptySeq, Zenon
<1>3. \A d \in DOMAIN ctx : /\ Doomed(d) => Doomed(d)'
                            /\ Listed(d) /\ ctx[d].sid # ctx[n].sid => Listed(d)'
                            /\ Adding(d) <=> d = n
                            /\ ~Adding(d)'
  BY <1>0, <1>1 DEF Asked, Listed, Doomed, Adding
<1>4. Listed(n)'
  BY <1>1 DEF Listed
<1>5. OwnStream' /\ NewEntry'
  BY <1>1, <1>3 DEF Registered, OwnStream, NewEntry
<1>6. EntryKept'
  <2> SUFFICES ASSUME NEW i \in DOMAIN sched', NEW d, d = sched'[i]
               PROVE  Listed(d)' \/ Doomed(d)' \/ Adding(d)'
    BY DEF EntryKept, Listed, Doomed, Asked, Adding
  <2>1. i \in DOMAIN sched /\ d = sched[i] /\ d \in DOMAIN ctx /\ ctx[d].sid = i
    BY <1>1, MapsTyped DEF Registered, OwnStream
  <2>2. ctx[n].sid = i => d = n
    BY <1>1, <1>3, <2>1 DEF Registered, NewEntry
  <2>3. Listed(d) \/ Doomed(d) \/ Adding(d)
    BY <2>1 DEF Registered, EntryKept
  <2>4. CASE d = n
    BY <1>4, <2>4
  <2>5. CASE d # n
    BY <1>3, <2>1, <2>2, <2>3, <2>5
  <2> QED
    BY <2>4, <2>5
<1>7. EntryRemoved' /\ UpdatesKept'
  BY <1>0, <1>1, <1>2 DEF EntryRemoved, UpdatesKept
<1> QED
  BY <1>5, <1>6, <1>7 DEF Registered

LEMMA RegisteredStep == ASSUME Typed, Registered, [Next]_vars PROVE Registered'
<1> SUFFICES ASSUME ~stopFlag' PROVE Registered'
  BY DEF Registered
<1>0. ~stopFlag
  BY StaysStopped
<1>1. CASE HandleSocketConfig
  <2>1. /\ config'.updates = config.updates
        /\ config'.pc \in {"check", "insert"} <=> config.pc \in {"check", "insert"}
        /\ UNCHANGED <<pendingStop, streams, ctx, sched, stops, inStop>>
    BY <1>1, HandleSocketConfigIs DEF Typed, SameWork
  <2>2. \A d \in DOMAIN ctx : (Asked(d) => Asked(d)') /\ (Listed(d) => Listed(d)')
    BY <2>1 DEF Asked, Listed
  <2> QED
    BY <1>0, <2>1, <2>2, RegisteredKept
<1>2. CASE Moves
  <2>1. /\ config'.updates = config.updates
        /\ config'.pc \notin {"check", "insert"} /\ config.pc \notin {"check", "insert"}
        /\ UNCHANGED <<pendingStop, streams, ctx, sched, stops, inStop>>
    BY <1>2, MovesIs DEF Typed, SameWork
  <2>2. \A d \in DOMAIN ctx : (Asked(d) => Asked(d)') /\ (Listed(d) => Listed(d)')
    BY <2>1 DEF Asked, Listed
  <2> QED
    BY <1>0, <2>1, <2>2, RegisteredKept
<1>3. CASE Stop
  BY <1>3 DEF Stop
<1>4. CASE UNCHANGED vars
  <2>1. \A d \in DOMAIN ctx : (Asked(d) => Asked(d)') /\ (Listed(d) => Listed(d)')
    BY <1>4 DEF Asked, Listed, vars
  <2> QED
    BY <1>0, <1>4, <2>1, RegisteredKept DEF vars
<1>5. /\ ~StopStream("main") /\ ~SwapStreams /\ ~SwapPendingStops /\ ~JoinThreads /\ ~FinishStop
      /\ ~Stopped
  BY <1>0, Running
<1> QED
  BY <1>0, <1>1, <1>2, <1>3, <1>4, <1>5, RegisteredAsync, RegisteredStopBegin, RegisteredStopEnd,
     RegisteredTakeBatch, RegisteredCompare, RegisteredUpdate, RegisteredBuild, RegisteredCheck,
     RegisteredInsert, Zenon
     DEF Next, ConfigThread, MainThread, StopStream, AsyncStop, Moves

LEMMA RegisteredAlways == Spec => [](Typed /\ Registered)
<1>1. Init => Registered
  BY RegisteredInit
<1>2. Typed /\ Registered /\ [Next]_vars => Registered'
  BY RegisteredStep
<1> QED
  BY <1>1, <1>2, TypedAlways, PTL DEF Spec

(* When the config thread has caught up, an entry of the scheduler is that of the listed
   context of its stream: stopStream and upsertStream, which go by stream id, leave no
   entry of a context that was replaced or taken out of streams_, however the stops that
   streams ask for, the restarts and the updates fall together.  Nothing is said of the
   listed context itself: it may have been asked to stop, and it may have no entry. *)
THEOREM EntriesOfListedStreams == Spec => []EntryOfListed
<1>1. ASSUME Typed, Registered PROVE EntryOfListed
  <2> SUFFICES ASSUME Quiet, NEW id \in DOMAIN sched
               PROVE  id \in DOMAIN streams /\ streams[id] = sched[id]
    BY DEF EntryOfListed
  <2>1. /\ ~stopFlag /\ config.pc = "waiting" /\ pendingStop = <<>>
        /\ \A c \in DOMAIN ctx : ctx[c].puller \notin {"erase", "push"}
    BY DEF Quiet
  <2>2. stops["config"] = <<>>
    BY <1>1, <2>1 DEF Typed, Control
  <2>3. Range(pendingStop) = {} /\ Range(stops["config"]) = {}
    BY <2>1, <2>2, EmptySeq, Zenon
  <2>4. sched[id] \in DOMAIN ctx /\ ctx[sched[id]].sid = id
    BY <1>1, <2>1, MapsTyped DEF Typed, Registered, OwnStream
  <2>5. ~Doomed(sched[id]) /\ ~Adding(sched[id])
    BY <2>1, <2>3, <2>4 DEF Doomed, Asked, Adding
  <2>6. Listed(sched[id])
    BY <1>1, <2>1, <2>5 DEF Registered, EntryKept
  <2> QED
    BY <2>4, <2>6 DEF Listed
<1> QED
  BY <1>1, RegisteredAlways, PTL

-----------------------------------------------------------------------------
(* The streams and the configuration. *)

(* Unless a configuration is pending, the last batch was taken from the one received
   last; once its streams have been compared, what is listed is as desired, and a
   desired stream that is not listed is still to be started, is being added, or had
   its stop asked for; the context that is being added is as desired. *)
Compared == ~(config.pc = "batch" /\ config.update)
UpToDate == ~hasPending => config.desired = wanted
AsDesired ==
    Compared => \A id \in DOMAIN streams : /\ id \in DOMAIN config.desired
                                           /\ ctx[streams[id]].cfg = config.desired[id]
Accounted ==
    Compared => \A id \in DOMAIN config.desired \ DOMAIN streams :
        \/ id \in Range(config.starts)
        \/ \E c \in DOMAIN ctx : ctx[c].sid = id /\ (ctx[c].down \/ Doomed(c) \/ Adding(c))
NewAsDesired ==
    \A c \in DOMAIN ctx :
        Adding(c) => ctx[c].sid \in DOMAIN config.desired /\ ctx[c].cfg = config.desired[ctx[c].sid]

Settled == ~stopFlag => UpToDate /\ AsDesired /\ Accounted /\ NewAsDesired

LEMMA SettledInit == ASSUME Init PROVE Settled
<1>1. DOMAIN streams = {} /\ DOMAIN config.desired = {} /\ config.desired = wanted /\ DOMAIN ctx = {}
  BY NoneMerged DEF Init
<1> QED
  BY <1>1 DEF Settled, UpToDate, AsDesired, Accounted, NewAsDesired

(* A step that starts, inserts and compares nothing: a stream that it removes is one
   that is to be stopped, and no stop is forgotten. *)
LEMMA SettledKept ==
    ASSUME Typed, Settled, ~stopFlag,
           ~hasPending' => config'.desired = wanted',
           DOMAIN ctx' = DOMAIN ctx,
           \A c \in DOMAIN ctx : /\ ctx'[c].sid = ctx[c].sid /\ ctx'[c].cfg = ctx[c].cfg
                                 /\ ctx[c].down => ctx'[c].down
                                 /\ Doomed(c) => Doomed(c)' \/ ctx'[c].down
                                 /\ Adding(c) => Adding(c)' \/ Doomed(c)'
                                 /\ Adding(c)' => Adding(c),
           config'.desired = config.desired, config'.starts = config.starts,
           Compared' => Compared,
           DOMAIN streams' \subseteq DOMAIN streams,
           \A id \in DOMAIN streams' : streams'[id] = streams[id],
           \A id \in DOMAIN streams \ DOMAIN streams' :
               \E c \in DOMAIN ctx : ctx[c].sid = id /\ Doomed(c)'
    PROVE  Settled'
<1>0. \A id \in DOMAIN streams : streams[id] \in DOMAIN ctx
  BY MapsTyped DEF Typed
<1>1. UpToDate'
  BY DEF UpToDate
<1>2. AsDesired'
  <2> SUFFICES ASSUME Compared', NEW id \in DOMAIN streams'
               PROVE  id \in DOMAIN config'.desired /\ ctx'[streams'[id]].cfg = config'.desired[id]
    BY DEF AsDesired
  <2>1. id \in DOMAIN streams /\ streams'[id] = streams[id] /\ Compared
    OBVIOUS
  <2>2. id \in DOMAIN config.desired /\ ctx[streams[id]].cfg = config.desired[id]
    BY <2>1 DEF Settled, AsDesired
  <2> QED
    BY <1>0, <2>1, <2>2
<1>3. Accounted'
  <2> SUFFICES ASSUME Compared', NEW id \in DOMAIN config.desired \ DOMAIN streams',
                      id \notin Range(config.starts)
               PROVE  \E c \in DOMAIN ctx : ctx'[c].sid = id /\ (ctx'[c].down \/ Doomed(c)' \/ Adding(c)')
    BY DEF Accounted
  <2>1. CASE id \in DOMAIN streams
    BY <2>1
  <2>2. CASE id \notin DOMAIN streams
    <3>1. PICK c \in DOMAIN ctx : ctx[c].sid = id /\ (ctx[c].down \/ Doomed(c) \/ Adding(c))
      BY <2>2 DEF Settled, Accounted
    <3>2. ctx'[c].sid = id /\ (ctx'[c].down \/ Doomed(c)' \/ Adding(c)')
      BY <3>1
    <3> QED
      BY <3>2
  <2> QED
    BY <2>1, <2>2
<1>4. NewAsDesired'
  BY DEF Settled, NewAsDesired
<1> QED
  BY <1>1, <1>2, <1>3, <1>4 DEF Settled

LEMMA SettledAsync ==
    ASSUME Typed, Settled, ~stopFlag, NEW c \in DOMAIN ctx,
           AsyncFlag(c) \/ AsyncErase(c) \/ AsyncPush(c)
    PROVE  Settled'
<1> USE DEF Typed
<1>1. CASE AsyncFlag(c)
  <2>1. /\ ~hasPending' => config'.desired = wanted'
        /\ Compared' => Compared
    BY <1>1, AsyncFlagIs DEF Settled, UpToDate, Compared
  <2>2. \A d \in DOMAIN ctx : /\ ctx'[d].sid = ctx[d].sid /\ ctx'[d].cfg = ctx[d].cfg
                              /\ ctx'[d].down = ctx[d].down
                              /\ Doomed(d) => Doomed(d)'
                              /\ Adding(d) <=> Adding(d)'
    BY <1>1, AsyncFlagIs DEF OnlyContext, Doomed, Asked, Adding
  <2> QED
    BY <1>1, <2>1, <2>2, AsyncFlagIs, SettledKept DEF OnlyContext
<1>2. CASE AsyncErase(c)
  <2>1. /\ ~hasPending' => config'.desired = wanted'
        /\ Compared' => Compared
    BY <1>2, AsyncEraseIs DEF Settled, UpToDate, Compared
  <2>2. \A d \in DOMAIN ctx : /\ ctx'[d].sid = ctx[d].sid /\ ctx'[d].cfg = ctx[d].cfg
                              /\ ctx'[d].down = ctx[d].down
                              /\ Doomed(d) => Doomed(d)'
                              /\ Adding(d) <=> Adding(d)'
    BY <1>2, AsyncEraseIs DEF OnlyContext, Doomed, Asked, Adding
  <2>3. /\ DOMAIN streams' \subseteq DOMAIN streams
        /\ \A id \in DOMAIN streams' : streams'[id] = streams[id]
        /\ Doomed(c)'
    BY <1>2, AsyncEraseIs DEF Doomed, Asked
  <2>4. \A id \in DOMAIN streams \ DOMAIN streams' : ctx[c].sid = id
    BY <1>2, AsyncEraseIs, MapsTyped
  <2> QED
    BY <1>2, <2>1, <2>2, <2>3, <2>4, AsyncEraseIs, SettledKept DEF OnlyContext
<1>3. CASE AsyncPush(c)
  <2>1. /\ ~hasPending' => config'.desired = wanted'
        /\ Compared' => Compared
        /\ config'.desired = config.desired /\ config'.starts = config.starts
    BY <1>3, AsyncPushIs DEF Settled, UpToDate, Compared, SameWork
  <2>2. \A d \in DOMAIN ctx : /\ ctx'[d].sid = ctx[d].sid /\ ctx'[d].cfg = ctx[d].cfg
                              /\ ctx'[d].down = ctx[d].down
                              /\ Doomed(d) => Doomed(d)'
                              /\ Adding(d) <=> Adding(d)'
    BY <1>3, AsyncPushIs DEF OnlyContext, Doomed, Asked, Adding
  <2> QED
    BY <1>3, <2>1, <2>2, AsyncPushIs, SettledKept DEF OnlyContext
<1> QED
  BY <1>1, <1>2, <1>3

LEMMA SettledStop == ASSUME Typed, Settled, ~stopFlag, StopStream("config") PROVE Settled'
<1> SUFFICES ASSUME NEW c, c = Head(stops["config"]) PROVE Settled'
  OBVIOUS
<1> USE DEF Typed
<1>0. "config" \in Threads
  BY DEF Threads
<1>1. CASE StopStreamBegin("config")
  <2>1. /\ c \in DOMAIN ctx /\ OnlyContext(c) /\ ctx'[c].puller = ctx[c].puller
        /\ ctx'[c].down = ctx[c].down
        /\ UNCHANGED <<wanted, hasPending, pendingStop, streams, config, stops>>
    BY <1>0, <1>1, StopStreamBeginIs
  <2>2. \A d \in DOMAIN ctx : /\ ctx'[d].sid = ctx[d].sid /\ ctx'[d].cfg = ctx[d].cfg
                              /\ ctx'[d].down = ctx[d].down
                              /\ Doomed(d) => Doomed(d)'
                              /\ Adding(d) <=> Adding(d)'
    BY <2>1 DEF OnlyContext, Doomed, Asked, Adding
  <2>3. /\ ~hasPending' => config'.desired = wanted'
        /\ Compared' => Compared
    BY <2>1 DEF Settled, UpToDate, Compared
  <2> QED
    BY <2>1, <2>2, <2>3, SettledKept DEF OnlyContext
<1>2. CASE StopStreamEnd("config")
  <2>0. stops["config"] # <<>>
    BY <1>0, <1>2 DEF StopStreamEnd, Control
  <2>1. /\ c \in DOMAIN ctx /\ OnlyContext(c) /\ ctx'[c].down
        /\ Range(stops["config"]) = {c} \cup Range(stops'["config"])
        /\ UNCHANGED <<wanted, hasPending, pendingStop, streams, config>>
    BY <1>0, <1>2, <2>0, StopStreamEndIs
  <2>2. \A d \in DOMAIN ctx : /\ ctx'[d].sid = ctx[d].sid /\ ctx'[d].cfg = ctx[d].cfg
                              /\ ctx[d].down => ctx'[d].down
                              /\ Doomed(d) => Doomed(d)' \/ ctx'[d].down
                              /\ Adding(d) <=> Adding(d)'
    BY <2>1 DEF OnlyContext, Doomed, Asked, Adding
  <2>3. /\ ~hasPending' => config'.desired = wanted'
        /\ Compared' => Compared
    BY <2>1 DEF Settled, UpToDate, Compared
  <2> QED
    BY <2>1, <2>2, <2>3, SettledKept DEF OnlyContext
<1> QED
  BY <1>1, <1>2 DEF StopStream

LEMMA SettledTakeBatch == ASSUME Typed, Settled, TakeBatch PROVE Settled'
<1> USE DEF Typed
<1>1. /\ ~stopFlag /\ config.pc = "pred" /\ config'.pc = "batch" /\ config'.update = hasPending
      /\ config'.desired = wanted /\ config'.starts = config.starts
      /\ pendingStop' = <<>> /\ stops'["config"] = pendingStop
      /\ UNCHANGED <<wanted, stopFlag, streams, ctx>>
  BY TakeBatchIs
<1>2. CASE hasPending
  BY <1>1, <1>2 DEF Settled, UpToDate, AsDesired, Accounted, NewAsDesired, Compared, Adding
<1>3. CASE ~hasPending
  <2>1. config'.desired = config.desired /\ Compared
    BY <1>1, <1>3 DEF Settled, UpToDate, Compared
  <2>2. Range(stops["config"]) = {}
    <3>1. stops["config"] = <<>>
      BY <1>1 DEF Control
    <3> QED
      BY <3>1, EmptySeq, Zenon
  <2>3. \A d \in DOMAIN ctx : /\ Doomed(d) => Doomed(d)'
                              /\ ~Adding(d) /\ ~Adding(d)'
    BY <1>1, <2>2 DEF Doomed, Asked, Adding
  <2> QED
    BY <1>1, <2>1, <2>3, SettledKept
<1> QED
  BY <1>2, <1>3

LEMMA SettledCompare == ASSUME Typed, Settled, ~stopFlag, CompareStreams PROVE Settled'
<1> USE DEF Typed
<1>1. /\ config'.pc = "apply" /\ config'.desired = config.desired
      /\ \A id \in DOMAIN streams' : /\ streams'[id] = streams[id] /\ id \in DOMAIN config.desired
                                     /\ ctx'[streams[id]].cfg = config.desired[id]
      /\ DOMAIN config.desired \ DOMAIN streams' \subseteq Range(config'.starts)
      /\ UNCHANGED <<wanted, hasPending, stopFlag>>
  BY CompareStreamsIs
<1>2. UpToDate' /\ AsDesired' /\ Accounted'
  BY <1>1 DEF Settled, UpToDate, AsDesired, Accounted
<1>3. NewAsDesired'
  BY <1>1 DEF NewAsDesired, Adding
<1> QED
  BY <1>2, <1>3 DEF Settled

LEMMA SettledBuild == ASSUME Typed, Settled, ~stopFlag, BuildStreamContext PROVE Settled'
<1> SUFFICES ASSUME NEW id, id = Head(config.starts), NEW n, n = Len(ctx) + 1 PROVE Settled'
  OBVIOUS
<1> USE DEF Typed
<1>0. Range(config.starts) \subseteq DOMAIN config.desired
  BY DEF Control
<1>1. /\ Starting /\ DOMAIN ctx' = DOMAIN ctx \cup {n} /\ id \in DOMAIN config.desired
      /\ config'.pc = "check" /\ config'.desired = config.desired
      /\ Range(config.starts) = {id} \cup Range(config'.starts)
      /\ UNCHANGED <<wanted, hasPending, pendingStop, stopFlag, streams, stops>>
  BY <1>0, BuildStreamContextIs
<1>2. Len(ctx') = n /\ \A c \in DOMAIN ctx : ctx'[c] = ctx[c]
  BY <1>0, BuildStreamContextIs
<1>3. ctx'[n].sid = id /\ ctx'[n].cfg = config.desired[id]
  BY NewContextIs
<1>4. Compared /\ \A d \in DOMAIN ctx : ~Adding(d) /\ (Doomed(d) => Doomed(d)')
  BY <1>1, <1>2 DEF Starting, Adding, Doomed, Asked, Compared
<1>5. Adding(n)' /\ \A d : Adding(d)' => d = n
  BY <1>1, <1>2 DEF Adding
<1>6. UpToDate' /\ NewAsDesired'
  BY <1>1, <1>3, <1>5 DEF Settled, UpToDate, NewAsDesired
<1>7. AsDesired'
  BY <1>1, <1>2, <1>4, MapsTyped DEF Settled, AsDesired
<1>8. Accounted'
  <2> SUFFICES ASSUME NEW i \in DOMAIN config.desired \ DOMAIN streams,
                      i \notin Range(config'.starts)
               PROVE  \E c \in DOMAIN ctx' : ctx'[c].sid = i /\ (ctx'[c].down \/ Doomed(c)' \/ Adding(c)')
    BY <1>1 DEF Accounted
  <2>1. CASE i = id
    BY <1>1, <1>3, <1>5, <2>1
  <2>2. CASE i # id
    <3>1. i \notin Range(config.starts)
      BY <1>1, <2>2
    <3>2. PICK c \in DOMAIN ctx : ctx[c].sid = i /\ (ctx[c].down \/ Doomed(c) \/ Adding(c))
      BY <1>4, <3>1 DEF Settled, Accounted
    <3>3. ctx'[c].sid = i /\ (ctx'[c].down \/ Doomed(c)') /\ c \in DOMAIN ctx'
      BY <1>1, <1>2, <1>4, <3>2
    <3> QED
      BY <3>3
  <2> QED
    BY <2>1, <2>2
<1> QED
  BY <1>6, <1>7, <1>8 DEF Settled

LEMMA SettledInsert == ASSUME Typed, Settled, ~stopFlag, InsertStream PROVE Settled'
<1> SUFFICES ASSUME NEW n, n = Len(ctx) PROVE Settled'
  OBVIOUS
<1> USE DEF Typed
<1>0. config.pc = "insert" /\ ctx # <<>>
  BY DEF Control, InsertStream
<1>1. /\ n \in DOMAIN ctx /\ config'.pc = "apply" /\ config'.desired = config.desired
      /\ config'.starts = config.starts
      /\ DOMAIN streams' = DOMAIN streams \cup {ctx[n].sid} /\ streams'[ctx[n].sid] = n
      /\ \A id \in DOMAIN streams \ {ctx[n].sid} : streams'[id] = streams[id]
      /\ UNCHANGED <<wanted, hasPending, pendingStop, stopFlag, ctx, stops>>
  BY <1>0, InsertStreamIs DEF SameWork
<1>2. Compared /\ Adding(n)
  BY <1>0 DEF Compared, Adding
<1>3. \A d \in DOMAIN ctx : /\ Adding(d) <=> d = n
                            /\ ~Adding(d)'
                            /\ Doomed(d) => Doomed(d)'
  BY <1>0, <1>1 DEF Adding, Doomed, Asked
<1>4. UpToDate' /\ NewAsDesired'
  BY <1>1, <1>3 DEF Settled, UpToDate, NewAsDesired
<1>5. AsDesired'
  <2>1. ctx[n].sid \in DOMAIN config.desired /\ ctx[n].cfg = config.desired[ctx[n].sid]
    BY <1>1, <1>2 DEF Settled, NewAsDesired
  <2>2. \A id \in DOMAIN streams : /\ id \in DOMAIN config.desired
                                   /\ ctx[streams[id]].cfg = config.desired[id]
    BY <1>2 DEF Settled, AsDesired
  <2> SUFFICES ASSUME NEW id \in DOMAIN streams'
               PROVE  id \in DOMAIN config.desired /\ ctx[streams'[id]].cfg = config.desired[id]
    BY <1>1 DEF AsDesired
  <2>3. CASE id = ctx[n].sid
    BY <1>1, <2>1, <2>3
  <2>4. CASE id # ctx[n].sid
    BY <1>1, <2>2, <2>4
  <2> QED
    BY <2>3, <2>4
<1>6. Accounted'
  <2> SUFFICES ASSUME NEW id \in DOMAIN config.desired \ DOMAIN streams',
                      id \notin Range(config.starts)
               PROVE  \E c \in DOMAIN ctx : ctx[c].sid = id /\ (ctx[c].down \/ Doomed(c)' \/ Adding(c)')
    BY <1>1 DEF Accounted
  <2>1. id \notin DOMAIN streams /\ id # ctx[n].sid
    BY <1>1
  <2>2. PICK c \in DOMAIN ctx : ctx[c].sid = id /\ (ctx[c].down \/ Doomed(c) \/ Adding(c))
    BY <1>2, <2>1 DEF Settled, Accounted
  <2>3. ctx[c].down \/ Doomed(c)'
    BY <1>3, <2>1, <2>2
  <2> QED
    BY <2>2, <2>3
<1> QED
  BY <1>4, <1>5, <1>6 DEF Settled

LEMMA SettledStep == ASSUME Typed, Settled, [Next]_vars PROVE Settled'
<1> SUFFICES ASSUME ~stopFlag' PROVE Settled'
  BY DEF Settled
<1>0. ~stopFlag
  BY StaysStopped
<1>1. CASE HandleSocketConfig
  <2>1. /\ hasPending' /\ SameWork
        /\ config'.pc = config.pc \/ (config.pc = "waiting" /\ config'.pc = "pred")
        /\ UNCHANGED <<pendingStop, streams, ctx, stops>>
    BY <1>1, HandleSocketConfigIs DEF Typed
  <2>2. \A d \in DOMAIN ctx : (Doomed(d) => Doomed(d)') /\ (Adding(d) <=> Adding(d)')
    BY <2>1 DEF Doomed, Asked, Adding
  <2>3. Compared' => Compared
    BY <2>1 DEF Compared, SameWork
  <2> QED
    BY <1>0, <2>1, <2>2, <2>3, SettledKept DEF SameWork
<1>2. CASE Moves
  <2>1. /\ SameWork /\ Compared
        /\ config'.pc \notin {"check", "insert"} /\ config.pc \notin {"check", "insert"}
        /\ UNCHANGED <<wanted, hasPending, pendingStop, streams, ctx, stops>>
    BY <1>2, MovesIs DEF Typed, Compared
  <2>2. \A d \in DOMAIN ctx : (Doomed(d) => Doomed(d)') /\ (Adding(d) <=> Adding(d)')
    BY <2>1 DEF Doomed, Asked, Adding
  <2>3. ~hasPending' => config'.desired = wanted'
    BY <1>0, <2>1 DEF Settled, UpToDate, SameWork
  <2> QED
    BY <1>0, <2>1, <2>2, <2>3, SettledKept DEF SameWork
<1>3. CASE UpdateStreamRuntime
  <2>1. /\ config.pc = "apply" /\ config'.pc = "apply" /\ config'.desired = config.desired
        /\ config'.starts = config.starts
        /\ UNCHANGED <<wanted, hasPending, pendingStop, streams, ctx, stops>>
    BY <1>3, UpdateStreamRuntimeIs DEF Typed
  <2>2. \A d \in DOMAIN ctx : (Doomed(d) => Doomed(d)') /\ (Adding(d) <=> Adding(d)')
    BY <2>1 DEF Doomed, Asked, Adding
  <2>3. (~hasPending' => config'.desired = wanted') /\ Compared
    BY <1>0, <2>1 DEF Settled, UpToDate, Compared
  <2> QED
    BY <1>0, <2>1, <2>2, <2>3, SettledKept
<1>4. CASE CheckBuilt
  <2>0. config.pc = "check" /\ ctx # <<>> /\ stops["config"] = <<>>
    BY <1>4 DEF Typed, Control, CheckBuilt
  <2>1. /\ SameWork
        /\ \/ config'.pc = "apply" /\ Range(stops'["config"]) = {Len(ctx)}
           \/ config'.pc = "insert" /\ stops' = stops
        /\ UNCHANGED <<wanted, hasPending, pendingStop, streams, ctx>>
    BY <1>4, <2>0, CheckBuiltIs DEF Typed
  <2>2. Range(stops["config"]) = {}
    BY <2>0, EmptySeq, Zenon
  <2>3. \A d \in DOMAIN ctx : /\ Doomed(d) => Doomed(d)'
                              /\ Adding(d) => Adding(d)' \/ Doomed(d)'
                              /\ Adding(d)' => Adding(d)
    BY <2>0, <2>1, <2>2 DEF Doomed, Asked, Adding
  <2>4. (~hasPending' => config'.desired = wanted') /\ Compared
    BY <1>0, <2>0, <2>1 DEF Settled, UpToDate, SameWork, Compared
  <2> QED
    BY <1>0, <2>1, <2>3, <2>4, SettledKept DEF SameWork
<1>5. CASE Stop
  BY <1>5 DEF Stop
<1>6. CASE UNCHANGED vars
  BY <1>6 DEF vars, Settled, UpToDate, AsDesired, Accounted, NewAsDesired, Compared, Adding,
     Doomed, Asked
<1>7. /\ ~StopStream("main") /\ ~SwapStreams /\ ~SwapPendingStops /\ ~JoinThreads /\ ~FinishStop
      /\ ~Stopped
  BY <1>0, Running
<1> QED
  BY <1>0, <1>1, <1>2, <1>3, <1>4, <1>5, <1>6, <1>7, SettledAsync, SettledStop, SettledTakeBatch,
     SettledCompare, SettledBuild, SettledInsert, Zenon
     DEF Next, ConfigThread, MainThread, AsyncStop, Moves

(* When the config thread has caught up, streams_ is what the last configuration asks
   for: nothing else is listed, what is listed has the wanted configuration, and a
   stream is missing only if a context of it has been stopped because its publisher
   failed; for every interleaving of configurations, failures and batches. *)
THEOREM StreamsConverge == Spec => []Converged
<1>1. Init => Settled
  BY SettledInit
<1>2. Typed /\ Settled /\ [Next]_vars => Settled'
  BY SettledStep
<1>3. ASSUME Typed, Settled PROVE Converged
  <2> SUFFICES ASSUME Quiet
               PROVE  /\ DOMAIN streams \subseteq DOMAIN wanted
                      /\ \A id \in DOMAIN streams : ctx[streams[id]].cfg = wanted[id]
                      /\ \A id \in DOMAIN wanted \ DOMAIN streams :
                            \E c \in DOMAIN ctx : ctx[c].sid = id /\ ctx[c].down
    BY DEF Converged
  <2>1. /\ ~stopFlag /\ config.pc = "waiting" /\ ~hasPending /\ pendingStop = <<>>
        /\ \A c \in DOMAIN ctx : ctx[c].puller \notin {"erase", "push"}
    BY DEF Quiet
  <2>2. stops["config"] = <<>> /\ config.starts = <<>> /\ config.desired = wanted /\ Compared
    BY <1>3, <2>1 DEF Typed, Control, Settled, UpToDate, Compared
  <2>3. Range(pendingStop) = {} /\ Range(stops["config"]) = {} /\ Range(config.starts) = {}
    BY <2>1, <2>2, EmptySeq, Zenon
  <2>4. \A c \in DOMAIN ctx : ~Doomed(c) /\ ~Adding(c)
    BY <2>1, <2>3 DEF Doomed, Asked, Adding
  <2>5. \A id \in DOMAIN streams : id \in DOMAIN wanted /\ ctx[streams[id]].cfg = wanted[id]
    BY <1>3, <2>1, <2>2 DEF Settled, AsDesired
  <2>6. \A id \in DOMAIN wanted \ DOMAIN streams : \E c \in DOMAIN ctx : ctx[c].sid = id /\ ctx[c].down
    BY <1>3, <2>1, <2>2, <2>3, <2>4 DEF Settled, Accounted
  <2> QED
    BY <2>5, <2>6
<1> QED
  BY <1>1, <1>2, <1>3, TypedAlways, PTL DEF Spec

-----------------------------------------------------------------------------
(* One puller per stream, while no transport changes. *)

Live(c) == ~ctx[c].stop_flag
NoDup(s) == \A i, j \in DOMAIN s : s[i] = s[j] => i = j

(* What has asked for its stop, or is being stopped, or has been, runs no more; what
   runs is listed, being added or waiting for its stop, the last under a stream that is
   not listed and only once; and a stream is started once in a batch, if not listed. *)
AskedFlagged ==
    /\ \A c \in Range(pendingStop) : ~Live(c)
    /\ \A c \in DOMAIN ctx : ctx[c].puller \in {"erase", "push"} \/ ctx[c].down => ~Live(c)
    /\ config.pc = "batch" => \A c \in Range(stops["config"]) : ~Live(c)
    /\ inStop["config"] => ctx[Head(stops["config"])].stop_flag
LiveKept == \A c \in DOMAIN ctx : Live(c) => Listed(c) \/ Adding(c) \/ c \in Range(stops["config"])
LiveStops ==
    /\ \A c \in Range(stops["config"]) : Live(c) => ctx[c].sid \notin DOMAIN streams
    /\ \A c, d \in Range(stops["config"]) : Live(c) /\ Live(d) /\ ctx[c].sid = ctx[d].sid => c = d
StartsOnce ==
    /\ NoDup(config.starts) /\ Range(config.starts) \cap DOMAIN streams = {}
    /\ \A c \in DOMAIN ctx : Adding(c) => ctx[c].sid \notin DOMAIN streams \cup Range(config.starts)

Once == ~stopFlag => AskedFlagged /\ LiveKept /\ LiveStops /\ StartsOnce

LEMMA NoDupParts ==
    ASSUME NEW S, NEW s \in Seq(S), s # <<>>, NoDup(s)
    PROVE  NoDup(Tail(s)) /\ Head(s) \notin Range(Tail(s))
<1>1. /\ Len(s) \in Nat /\ Len(s) > 0 /\ DOMAIN s = 1 .. Len(s) /\ Head(s) = s[1]
      /\ DOMAIN Tail(s) = 1 .. Len(s) - 1
      /\ \A i \in 1 .. Len(s) - 1 : Tail(s)[i] = s[i + 1]
  OBVIOUS
<1>2. ASSUME NEW i \in DOMAIN Tail(s), NEW j \in DOMAIN Tail(s), Tail(s)[i] = Tail(s)[j]
      PROVE  i = j
  <2>1. i + 1 \in DOMAIN s /\ j + 1 \in DOMAIN s /\ s[i + 1] = s[j + 1] /\ i \in Int /\ j \in Int
    BY <1>1, <1>2
  <2>2. i + 1 = j + 1
    BY <2>1 DEF NoDup
  <2> QED
    BY <2>1, <2>2
<1>3. ASSUME NEW i \in DOMAIN Tail(s) PROVE Tail(s)[i] # Head(s)
  <2>1. i + 1 \in DOMAIN s /\ 1 \in DOMAIN s /\ i + 1 # 1 /\ Tail(s)[i] = s[i + 1]
    BY <1>1
  <2> QED
    BY <1>1, <2>1 DEF NoDup
<1> QED
  BY <1>2, <1>3 DEF NoDup, Range

LEMMA NoneInOrder == ASSUME NEW S, NEW t \in Seq(S) PROVE InOrder({}) \o t = t
<1>1. InOrder({}) \in Seq({})
  BY Ordered
<1>2. InOrder({}) = <<>>
  BY <1>1
<1> QED
  BY <1>2

LEMMA OnceInit == ASSUME Init PROVE Once
<1>1. /\ DOMAIN ctx = {} /\ Range(pendingStop) = {} /\ Range(config.starts) = {}
      /\ DOMAIN config.starts = {} /\ Range(stops["config"]) = {} /\ ~inStop["config"]
  BY EmptySeq DEF Init, Threads
<1> QED
  BY <1>1 DEF Once, AskedFlagged, LiveKept, LiveStops, StartsOnce, NoDup

(* A step that compares, starts and inserts nothing, and forgets nothing that runs. *)
LEMMA OnceKept ==
    ASSUME Typed, Once, ~stopFlag,
           DOMAIN ctx' = DOMAIN ctx,
           \A c \in DOMAIN ctx :
               /\ ctx'[c].sid = ctx[c].sid
               /\ Live(c)' => Live(c)
               /\ ctx'[c].puller \in {"erase", "push"} \/ ctx'[c].down => ~Live(c)'
               /\ Adding(c)' => Adding(c)
               /\ Live(c)' => /\ Listed(c) => Listed(c)'
                              /\ Adding(c) => Adding(c)'
                              /\ c \in Range(stops["config"]) <=> c \in Range(stops'["config"]),
           Range(pendingStop') \subseteq DOMAIN ctx, Range(stops'["config"]) \subseteq DOMAIN ctx,
           \A c \in Range(pendingStop') : ~Live(c)',
           inStop'["config"] => ctx'[Head(stops'["config"])].stop_flag,
           DOMAIN streams' \subseteq DOMAIN streams,
           config'.starts = config.starts,
           config'.pc = "batch" => config.pc = "batch"
    PROVE  Once'
<1>1. AskedFlagged'
  BY DEF Once, AskedFlagged
<1>2. LiveKept'
  BY DEF Once, LiveKept
<1>3. LiveStops'
  BY DEF Once, LiveStops
<1>4. StartsOnce'
  BY DEF Once, StartsOnce
<1> QED
  BY <1>1, <1>2, <1>3, <1>4 DEF Once

LEMMA OnceAsync ==
    ASSUME Typed, Once, ~stopFlag, NEW c \in DOMAIN ctx,
           AsyncFlag(c) \/ AsyncErase(c) \/ AsyncPush(c)
    PROVE  Once'
<1> USE DEF Typed
<1>0. /\ Range(pendingStop) \subseteq DOMAIN ctx /\ Range(stops["config"]) \subseteq DOMAIN ctx
      /\ inStop["config"] => Head(stops["config"]) \in DOMAIN ctx
  BY ListsTyped, SeqParts DEF Control, Threads
<1>1. CASE AsyncFlag(c)
  <2>1. /\ DOMAIN ctx' = DOMAIN ctx /\ Len(ctx') = Len(ctx)
        /\ \A d \in DOMAIN ctx : ctx'[d].sid = ctx[d].sid /\ (d # c => ctx'[d] = ctx[d])
        /\ ctx'[c].stop_flag
        /\ UNCHANGED <<pendingStop, streams, config, stops, inStop>>
    BY <1>1, AsyncFlagIs DEF OnlyContext
  <2>2. \A d \in DOMAIN ctx :
            /\ Live(d)' => Live(d)
            /\ ctx'[d].puller \in {"erase", "push"} \/ ctx'[d].down => ~Live(d)'
            /\ Adding(d)' <=> Adding(d)
            /\ Listed(d) => Listed(d)'
    BY <2>1 DEF Once, AskedFlagged, Live, Adding, Listed
  <2>3. /\ \A d \in Range(pendingStop) : ~Live(d)'
        /\ inStop'["config"] => ctx'[Head(stops'["config"])].stop_flag
    BY <1>0, <2>1 DEF Once, AskedFlagged, Live
  <2> QED
    BY <1>0, <2>1, <2>2, <2>3, OnceKept
<1>2. CASE AsyncErase(c)
  <2>1. /\ DOMAIN ctx' = DOMAIN ctx /\ Len(ctx') = Len(ctx)
        /\ \A d \in DOMAIN ctx : ctx'[d].sid = ctx[d].sid /\ (d # c => ctx'[d] = ctx[d])
        /\ ctx[c].puller = "erase" /\ ctx'[c].stop_flag = ctx[c].stop_flag
        /\ DOMAIN streams' = {id \in DOMAIN streams : streams[id] # c}
        /\ \A id \in DOMAIN streams' : streams'[id] = streams[id]
        /\ UNCHANGED <<pendingStop, config, stops, inStop>>
    BY <1>2, AsyncEraseIs DEF OnlyContext
  <2>2. ctx[c].stop_flag
    BY <2>1 DEF Once, AskedFlagged, Live
  <2>3. \A d \in DOMAIN ctx :
            /\ Live(d)' => Live(d)
            /\ ctx'[d].puller \in {"erase", "push"} \/ ctx'[d].down => ~Live(d)'
            /\ Adding(d)' <=> Adding(d)
    BY <2>1, <2>2 DEF Once, AskedFlagged, Live, Adding
  <2>4. ASSUME NEW d \in DOMAIN ctx, Live(d)', Listed(d) PROVE Listed(d)'
    <3>1. d # c /\ ctx'[d] = ctx[d]
      BY <2>1, <2>2, <2>4 DEF Live
    <3> QED
      BY <2>1, <2>4, <3>1 DEF Listed
  <2>5. /\ \A d \in Range(pendingStop) : ~Live(d)'
        /\ inStop'["config"] => ctx'[Head(stops'["config"])].stop_flag
    BY <1>0, <2>1, <2>2 DEF Once, AskedFlagged, Live
  <2> QED
    BY <1>0, <2>1, <2>3, <2>4, <2>5, OnceKept
<1>3. CASE AsyncPush(c)
  <2>1. /\ DOMAIN ctx' = DOMAIN ctx /\ Len(ctx') = Len(ctx)
        /\ \A d \in DOMAIN ctx : ctx'[d].sid = ctx[d].sid /\ (d # c => ctx'[d] = ctx[d])
        /\ ctx[c].puller = "push" /\ ctx'[c].stop_flag = ctx[c].stop_flag
        /\ Range(pendingStop') = Range(pendingStop) \cup {c}
        /\ config'.starts = config.starts
        /\ config'.pc = config.pc \/ (config.pc = "waiting" /\ config'.pc = "pred")
        /\ UNCHANGED <<streams, stops, inStop>>
    BY <1>3, AsyncPushIs DEF OnlyContext, SameWork
  <2>2. ctx[c].stop_flag
    BY <2>1 DEF Once, AskedFlagged, Live
  <2>3. \A d \in DOMAIN ctx :
            /\ Live(d)' => Live(d)
            /\ ctx'[d].puller \in {"erase", "push"} \/ ctx'[d].down => ~Live(d)'
            /\ Adding(d)' <=> Adding(d)
            /\ Listed(d) => Listed(d)'
    BY <2>1, <2>2 DEF Once, AskedFlagged, Live, Adding, Listed
  <2>4. /\ \A d \in Range(pendingStop') : ~Live(d)'
        /\ inStop'["config"] => ctx'[Head(stops'["config"])].stop_flag
    BY <1>0, <2>1, <2>2 DEF Once, AskedFlagged, Live
  <2>5. Range(pendingStop') \subseteq DOMAIN ctx /\ (config'.pc = "batch" => config.pc = "batch")
    BY <1>0, <2>1
  <2> QED
    BY <1>0, <2>1, <2>3, <2>4, <2>5, OnceKept
<1> QED
  BY <1>1, <1>2, <1>3

LEMMA OnceStop == ASSUME Typed, Once, ~stopFlag, StopStream("config") PROVE Once'
<1> SUFFICES ASSUME NEW c, c = Head(stops["config"]) PROVE Once'
  OBVIOUS
<1> USE DEF Typed
<1>0. /\ "config" \in Threads
      /\ Range(pendingStop) \subseteq DOMAIN ctx /\ Range(stops["config"]) \subseteq DOMAIN ctx
  BY ListsTyped DEF Threads
<1>1. CASE StopStreamBegin("config")
  <2>1. /\ c \in DOMAIN ctx /\ ctx'[c].stop_flag
        /\ OnlyContext(c)
        /\ UNCHANGED <<pendingStop, streams, config, stops>>
    BY <1>0, <1>1, StopStreamBeginIs
  <2>2. /\ DOMAIN ctx' = DOMAIN ctx /\ Len(ctx') = Len(ctx)
        /\ \A d \in DOMAIN ctx : ctx'[d].sid = ctx[d].sid /\ (d # c => ctx'[d] = ctx[d])
    BY <2>1 DEF OnlyContext
  <2>3. \A d \in DOMAIN ctx :
            /\ Live(d)' => Live(d)
            /\ ctx'[d].puller \in {"erase", "push"} \/ ctx'[d].down => ~Live(d)'
            /\ Adding(d)' <=> Adding(d)
            /\ Listed(d) => Listed(d)'
    BY <2>1, <2>2 DEF Once, AskedFlagged, Live, Adding, Listed
  <2>4. /\ \A d \in Range(pendingStop) : ~Live(d)'
        /\ inStop'["config"] => ctx'[Head(stops'["config"])].stop_flag
    BY <1>0, <2>1, <2>2 DEF Once, AskedFlagged, Live
  <2> QED
    BY <1>0, <2>1, <2>2, <2>3, <2>4, OnceKept
<1>2. CASE StopStreamEnd("config")
  <2>0. stops["config"] # <<>>
    BY <1>0, <1>2 DEF StopStreamEnd, Control
  <2>1. /\ c \in DOMAIN ctx /\ OnlyContext(c) /\ ctx'[c].stop_flag = ctx[c].stop_flag
        /\ Range(stops["config"]) = {c} \cup Range(stops'["config"])
        /\ inStop["config"] /\ ~inStop'["config"]
        /\ UNCHANGED <<pendingStop, streams, config>>
    BY <1>0, <1>2, <2>0, StopStreamEndIs
  <2>2. /\ DOMAIN ctx' = DOMAIN ctx /\ Len(ctx') = Len(ctx)
        /\ \A d \in DOMAIN ctx : ctx'[d].sid = ctx[d].sid /\ (d # c => ctx'[d] = ctx[d])
    BY <2>1 DEF OnlyContext
  <2>3. ctx[c].stop_flag
    BY <2>1 DEF Once, AskedFlagged
  <2>4. \A d \in DOMAIN ctx :
            /\ Live(d)' => Live(d) /\ d # c
            /\ ctx'[d].puller \in {"erase", "push"} \/ ctx'[d].down => ~Live(d)'
            /\ Adding(d)' <=> Adding(d)
            /\ Listed(d) => Listed(d)'
    BY <2>1, <2>2, <2>3 DEF Once, AskedFlagged, Live, Adding, Listed
  <2>5. \A d \in Range(pendingStop) : ~Live(d)'
    BY <1>0, <2>1, <2>2, <2>3 DEF Once, AskedFlagged, Live
  <2>6. \A d \in DOMAIN ctx :
            Live(d)' => (d \in Range(stops["config"]) <=> d \in Range(stops'["config"]))
    BY <2>1, <2>4
  <2>7. Range(stops'["config"]) \subseteq DOMAIN ctx
    BY <1>0, <2>1
  <2> QED
    BY <1>0, <2>1, <2>2, <2>4, <2>5, <2>6, <2>7, OnceKept
<1> QED
  BY <1>1, <1>2 DEF StopStream

LEMMA OnceTakeBatch == ASSUME Typed, Once, TakeBatch PROVE Once'
<1> USE DEF Typed
<1>1. /\ ~stopFlag /\ config.pc = "pred" /\ config'.pc = "batch" /\ config'.starts = config.starts
      /\ pendingStop' = <<>> /\ stops'["config"] = pendingStop
      /\ UNCHANGED <<stopFlag, streams, ctx, inStop>>
  BY TakeBatchIs
<1>2. stops["config"] = <<>> /\ ~inStop["config"]
  BY <1>1 DEF Control, Threads
<1>3. Range(stops["config"]) = {} /\ Range(pendingStop') = {}
  BY <1>1, <1>2, EmptySeq, Zenon
<1>4. \A c : /\ Live(c)' <=> Live(c)
             /\ Listed(c)' <=> Listed(c)
             /\ ~Adding(c) /\ ~Adding(c)'
  BY <1>1 DEF Live, Listed, Adding
<1>5. \A c \in Range(stops'["config"]) : ~Live(c)'
  BY <1>1, <1>4 DEF Once, AskedFlagged
<1>6. AskedFlagged'
  BY <1>1, <1>2, <1>3, <1>4, <1>5 DEF Once, AskedFlagged
<1>7. LiveKept' /\ LiveStops'
  BY <1>1, <1>3, <1>4, <1>5 DEF Once, LiveKept, LiveStops
<1>8. StartsOnce'
  BY <1>1, <1>4 DEF Once, StartsOnce
<1> QED
  BY <1>6, <1>7, <1>8 DEF Once

LEMMA OnceCompare == ASSUME Typed, Once, ~stopFlag, CompareStreams, Moved = {} PROVE Once'
<1> USE DEF Typed
<1> DEFINE rest == DOMAIN config.desired \ DOMAIN streams'
<1>1. /\ config.pc = "batch" /\ stops["config"] = <<>> /\ config'.pc = "apply"
      /\ DOMAIN streams' = DOMAIN streams \ Dropped
      /\ \A id \in DOMAIN streams' : streams'[id] = streams[id]
      /\ DOMAIN ctx' = DOMAIN ctx
      /\ \A c \in DOMAIN ctx : /\ ctx'[c].sid = ctx[c].sid /\ ctx'[c].stop_flag = ctx[c].stop_flag
                               /\ ctx'[c].puller = ctx[c].puller /\ ctx'[c].down = ctx[c].down
      /\ Range(stops'["config"]) = {streams[id] : id \in Dropped}
      /\ config'.starts = InOrder(Moved) \o InOrder(rest)
      /\ Range(config'.starts) = Moved \cup rest
      /\ UNCHANGED <<pendingStop, stopFlag, inStop>>
  BY CompareStreamsIs
<1>2. ~inStop["config"] /\ Range(stops["config"]) = {}
  <2>1. ~inStop["config"]
    BY <1>1 DEF Control, Threads
  <2> QED
    BY <1>1, <2>1, EmptySeq, Zenon
<1>3. Range(pendingStop) \subseteq DOMAIN ctx /\ Dropped \subseteq DOMAIN streams
  BY ListsTyped DEF Dropped, Moved
<1>4. \A c \in DOMAIN ctx : (Live(c)' <=> Live(c)) /\ ~Adding(c) /\ ~Adding(c)'
  BY <1>1 DEF Live, Adding
<1>5. AskedFlagged'
  BY <1>1, <1>2, <1>3, <1>4 DEF Once, AskedFlagged
<1>6. LiveKept'
  <2> SUFFICES ASSUME NEW c \in DOMAIN ctx, Live(c)
               PROVE  Listed(c)' \/ c \in Range(stops'["config"])
    BY <1>1, <1>4 DEF LiveKept
  <2>1. Listed(c)
    BY <1>2, <1>4 DEF Once, LiveKept
  <2>2. CASE ctx[c].sid \in Dropped
    BY <1>1, <2>1, <2>2 DEF Listed
  <2>3. CASE ctx[c].sid \notin Dropped
    BY <1>1, <2>1, <2>3 DEF Listed
  <2> QED
    BY <2>2, <2>3
<1>7. LiveStops'
  <2>1. \A id \in Dropped : streams[id] \in DOMAIN ctx /\ ctx'[streams[id]].sid = id
    BY <1>1, <1>3, MapsTyped
  <2>2. \A c \in Range(stops'["config"]) : ctx'[c].sid \in Dropped /\ c = streams[ctx'[c].sid]
    BY <1>1, <2>1
  <2> QED
    BY <1>1, <2>2 DEF LiveStops
<1>8. NoDup(config'.starts)
  <2>1. rest \in SUBSET StreamIds
    BY ConfigTyped
  <2>2. InOrder(rest) \in Seq(rest) /\ NoDup(InOrder(rest))
    BY <2>1, Ordered DEF NoDup
  <2>3. InOrder({}) \o InOrder(rest) = InOrder(rest)
    BY <2>2, NoneInOrder
  <2> HIDE DEF rest
  <2>4. config'.starts = InOrder(rest)
    BY <1>1, <2>3
  <2> QED
    BY <2>2, <2>4
<1>9. StartsOnce'
  BY <1>1, <1>4, <1>8 DEF StartsOnce
<1> QED
  BY <1>5, <1>6, <1>7, <1>9 DEF Once

LEMMA OnceBuild == ASSUME Typed, Once, ~stopFlag, BuildStreamContext PROVE Once'
<1> SUFFICES ASSUME NEW id, id = Head(config.starts), NEW n, n = Len(ctx) + 1 PROVE Once'
  OBVIOUS
<1> USE DEF Typed
<1>0. Range(config.starts) \subseteq DOMAIN config.desired
  BY DEF Control
<1>1. /\ Starting /\ DOMAIN ctx' = DOMAIN ctx \cup {n} /\ id \in Range(config.starts)
      /\ config.starts # <<>> /\ config'.starts = Tail(config.starts)
      /\ config'.pc = "check"
      /\ Range(config.starts) = {id} \cup Range(config'.starts)
      /\ UNCHANGED <<pendingStop, stopFlag, streams, stops, inStop>>
  BY <1>0, BuildStreamContextIs
<1>2. Len(ctx') = n /\ \A c \in DOMAIN ctx : ctx'[c] = ctx[c]
  BY <1>0, BuildStreamContextIs
<1>3. ctx'[n].sid = id /\ ~ctx'[n].down /\ ctx'[n].puller = "running"
  BY NewContextIs
<1>4. config.pc = "apply" /\ stops["config"] = <<>> /\ ~inStop["config"]
  BY <1>1 DEF Control, Threads, Starting
<1>5. Range(stops["config"]) = {} /\ Range(pendingStop) \subseteq DOMAIN ctx
  <2>1. Range(stops["config"]) = {}
    BY <1>4, EmptySeq, Zenon
  <2> QED
    BY <2>1, ListsTyped
<1>6. /\ Adding(n)' /\ \A d : Adding(d)' => d = n
      /\ \A d \in DOMAIN ctx : (Live(d)' <=> Live(d)) /\ (Listed(d) => Listed(d)') /\ ~Adding(d)
  BY <1>1, <1>2, <1>4 DEF Adding, Live, Listed
<1>7. AskedFlagged'
  BY <1>1, <1>2, <1>3, <1>4, <1>5, <1>6 DEF Once, AskedFlagged
<1>8. LiveKept' /\ LiveStops'
  BY <1>1, <1>5, <1>6 DEF Once, LiveKept, LiveStops
<1>9. StartsOnce'
  <2>1. NoDup(config.starts) /\ Range(config.starts) \cap DOMAIN streams = {}
    BY DEF Once, StartsOnce
  <2>2. NoDup(config'.starts) /\ id \notin Range(config'.starts)
    BY <1>1, <2>1, NoDupParts, ConfigTyped
  <2> QED
    BY <1>1, <1>3, <1>6, <2>1, <2>2 DEF StartsOnce
<1> QED
  BY <1>7, <1>8, <1>9 DEF Once

LEMMA OnceInsert == ASSUME Typed, Once, ~stopFlag, InsertStream PROVE Once'
<1> SUFFICES ASSUME NEW n, n = Len(ctx) PROVE Once'
  OBVIOUS
<1> USE DEF Typed
<1>0. config.pc = "insert" /\ ctx # <<>> /\ stops["config"] = <<>> /\ ~inStop["config"]
  BY DEF Control, InsertStream, Threads
<1>1. /\ n \in DOMAIN ctx /\ config'.pc = "apply" /\ config'.starts = config.starts
      /\ DOMAIN streams' = DOMAIN streams \cup {ctx[n].sid} /\ streams'[ctx[n].sid] = n
      /\ \A id \in DOMAIN streams \ {ctx[n].sid} : streams'[id] = streams[id]
      /\ UNCHANGED <<pendingStop, stopFlag, ctx, stops, inStop>>
  BY <1>0, InsertStreamIs DEF SameWork
<1>2. Range(stops["config"]) = {}
  BY <1>0, EmptySeq, Zenon
<1>3. \A d \in DOMAIN ctx : /\ Adding(d) <=> d = n
                            /\ ~Adding(d)'
                            /\ Live(d)' <=> Live(d)
  BY <1>0, <1>1 DEF Adding, Live
<1>4. ctx[n].sid \notin DOMAIN streams \cup Range(config.starts)
  BY <1>1, <1>3 DEF Once, StartsOnce
<1>5. Listed(n)' /\ \A d \in DOMAIN ctx : Listed(d) => Listed(d)'
  BY <1>1, <1>4 DEF Listed
<1>6. AskedFlagged'
  BY <1>0, <1>1, <1>3, ListsTyped DEF Once, AskedFlagged
<1>7. LiveKept' /\ LiveStops'
  BY <1>1, <1>2, <1>3, <1>5 DEF Once, LiveKept, LiveStops
<1>8. StartsOnce'
  BY <1>1, <1>3, <1>4 DEF Once, StartsOnce
<1> QED
  BY <1>6, <1>7, <1>8 DEF Once

(* A step of applyConfigBatch finds no listed stream whose transport has changed. *)
TransportsKept == CompareStreams => Moved = {}

LEMMA OnceStep == ASSUME Typed, Once, [Next]_vars, [TransportsKept]_vars PROVE Once'
<1> SUFFICES ASSUME ~stopFlag' PROVE Once'
  BY DEF Once
<1>0. ~stopFlag
  BY StaysStopped
<1>a. /\ Range(pendingStop) \subseteq DOMAIN ctx /\ Range(stops["config"]) \subseteq DOMAIN ctx
      /\ \A d \in Range(pendingStop) : ~Live(d)
      /\ \A d \in DOMAIN ctx : ctx[d].puller \in {"erase", "push"} \/ ctx[d].down => ~Live(d)
      /\ inStop["config"] => ctx[Head(stops["config"])].stop_flag
  BY <1>0, ListsTyped DEF Typed, Threads, Once, AskedFlagged
<1>1. CASE HandleSocketConfig
  <2>1. /\ config'.starts = config.starts
        /\ config'.pc = config.pc \/ (config.pc = "waiting" /\ config'.pc = "pred")
        /\ UNCHANGED <<pendingStop, streams, ctx, stops, inStop>>
    BY <1>1, HandleSocketConfigIs DEF Typed, SameWork
  <2>2. /\ config'.pc = "batch" => config.pc = "batch"
        /\ \A d : (Live(d)' <=> Live(d)) /\ (Listed(d) => Listed(d)') /\ (Adding(d) <=> Adding(d)')
    BY <2>1 DEF Live, Listed, Adding
  <2> QED
    BY <1>0, <1>a, <2>1, <2>2, OnceKept
<1>2. CASE Moves
  <2>1. /\ config'.starts = config.starts /\ config'.pc # "batch"
        /\ config'.pc \notin {"check", "insert"} /\ config.pc \notin {"check", "insert"}
        /\ UNCHANGED <<pendingStop, streams, ctx, stops, inStop>>
    BY <1>2, MovesIs DEF Typed, SameWork
  <2>2. \A d : (Live(d)' <=> Live(d)) /\ (Listed(d) => Listed(d)') /\ (Adding(d) <=> Adding(d)')
    BY <2>1 DEF Live, Listed, Adding
  <2> QED
    BY <1>0, <1>a, <2>1, <2>2, OnceKept
<1>3. CASE UpdateStreamRuntime
  <2>1. /\ config.pc = "apply" /\ config'.pc = "apply" /\ config'.starts = config.starts
        /\ UNCHANGED <<pendingStop, streams, ctx, stops, inStop>>
    BY <1>3, UpdateStreamRuntimeIs DEF Typed
  <2>2. \A d : (Live(d)' <=> Live(d)) /\ (Listed(d) => Listed(d)') /\ (Adding(d) <=> Adding(d)')
    BY <2>1 DEF Live, Listed, Adding
  <2> QED
    BY <1>0, <1>a, <2>1, <2>2, OnceKept
<1>4. CASE CheckBuilt
  <2>0. config.pc = "check" /\ ctx # <<>> /\ stops["config"] = <<>> /\ ~inStop["config"]
    BY <1>4 DEF Typed, Control, CheckBuilt, Threads
  <2>1. /\ SameWork /\ Len(ctx) \in DOMAIN ctx
        /\ \/ config'.pc = "apply" /\ Range(stops'["config"]) = {Len(ctx)} /\ ctx[Len(ctx)].stop_flag
           \/ config'.pc = "insert" /\ stops' = stops
        /\ UNCHANGED <<pendingStop, streams, ctx, inStop>>
    BY <1>4, <2>0, CheckBuiltIs DEF Typed
  <2>2. Range(stops["config"]) = {}
    BY <2>0, EmptySeq, Zenon
  <2>3. \A d \in DOMAIN ctx :
            /\ Live(d)' <=> Live(d)
            /\ Listed(d) => Listed(d)'
            /\ Adding(d)' => Adding(d)
            /\ Live(d) => /\ Adding(d) => Adding(d)'
                          /\ d \in Range(stops["config"]) <=> d \in Range(stops'["config"])
    BY <2>0, <2>1, <2>2 DEF Live, Listed, Adding
  <2>4. /\ config'.starts = config.starts /\ config'.pc # "batch"
        /\ Range(stops'["config"]) \subseteq DOMAIN ctx
    BY <2>1, <2>2 DEF SameWork
  <2> QED
    BY <1>0, <1>a, <2>0, <2>1, <2>3, <2>4, OnceKept
<1>5. CASE Stop
  BY <1>5 DEF Stop
<1>6. CASE UNCHANGED vars
  BY <1>6 DEF vars, Once, AskedFlagged, LiveKept, LiveStops, StartsOnce, Live, Listed, Adding, NoDup
<1>7. CASE CompareStreams
  <2>1. CASE TransportsKept
    BY <1>0, <1>7, <2>1, OnceCompare DEF TransportsKept
  <2> QED
    BY <1>6, <2>1
<1>8. /\ ~StopStream("main") /\ ~SwapStreams /\ ~SwapPendingStops /\ ~JoinThreads /\ ~FinishStop
      /\ ~Stopped
  BY <1>0, Running
<1> QED
  BY <1>0, <1>1, <1>2, <1>3, <1>4, <1>5, <1>6, <1>7, <1>8, OnceAsync, OnceStop, OnceTakeBatch,
     OnceBuild, OnceInsert, Zenon
     DEF Next, ConfigThread, MainThread, AsyncStop, Moves

(* Of the contexts of a stream at most one has not been asked to stop, whatever
   configurations come and whatever publishers fail, as long as no configuration changes
   the transport of a listed stream: the second entry that applyConfigBatch gives such a
   stream in the list of streams to start is the only way to two contexts that both mean
   to go on.  A context whose stop has been asked for is not counted: its puller may run
   on beside its successor until stopStream joins it. *)
THEOREM PulledOnceUnlessMoved == Spec /\ [][TransportsKept]_vars => []OnePullPerStream
<1>1. Init => Once
  BY OnceInit
<1>2. Typed /\ Once /\ [Next]_vars /\ [TransportsKept]_vars => Once'
  BY OnceStep
<1>3. ASSUME Typed, Once PROVE OnePullPerStream
  <2> SUFFICES ASSUME ~stopFlag, NEW c \in DOMAIN ctx, NEW d \in DOMAIN ctx,
                      ctx[c].sid = ctx[d].sid, Live(c), Live(d)
               PROVE  c = d
    BY DEF OnePullPerStream, Live
  <2>1. /\ Listed(c) \/ Adding(c) \/ c \in Range(stops["config"])
        /\ Listed(d) \/ Adding(d) \/ d \in Range(stops["config"])
    BY <1>3 DEF Once, LiveKept
  <2>2. \A e \in DOMAIN ctx : Adding(e) => e = Len(ctx) /\ ~Listed(e) /\ ctx[e].sid \notin DOMAIN streams
    BY <1>3 DEF Once, StartsOnce, Adding, Listed
  <2>3. config.pc \in {"check", "insert"} => Range(stops["config"]) = {}
    <3>1. config.pc \in {"check", "insert"} => stops["config"] = <<>>
      BY <1>3 DEF Typed, Control
    <3> QED
      BY <3>1, EmptySeq, Zenon
  <2>4. Listed(c) /\ Listed(d) => c = d
    BY DEF Listed
  <2>5. Adding(c) \/ Adding(d) => c = d
    BY <2>1, <2>2, <2>3 DEF Adding, Listed
  <2>6. /\ c \in Range(stops["config"]) => ctx[c].sid \notin DOMAIN streams
        /\ d \in Range(stops["config"]) => ctx[d].sid \notin DOMAIN streams
        /\ c \in Range(stops["config"]) /\ d \in Range(stops["config"]) => c = d
    BY <1>3 DEF Once, LiveStops
  <2> QED
    BY <2>1, <2>4, <2>5, <2>6 DEF Listed
<1> QED
  BY <1>1, <1>2, <1>3, TypedAlways, PTL DEF Spec
=============================================================================
