---------------------------- MODULE Cohort_proofs ----------------------------
(***************************************************************************)
(* Theorems about cohorts, for every set of providers, deadline, window,   *)
(* cap, queue and number of observations: that admission is exact, and     *)
(* what it leaves behind: the types, the two rings of the rolling window,  *)
(* and the counts.                                                         *)
(*                                                                         *)
(* Admission: which providers a verdict says matched follows from the      *)
(* stamps of what was heard of the base, and not from the order in which   *)
(* the queue gave it.  A pending base keeps of a provider the arrival it   *)
(* recorded first.  That this is the earliest rests on the order of a      *)
(* provider's stamps for the base (Ordered), and that the base opened with the earliest *)
(* stamp of all on Opened.  While a sealed base is finalized, each content *)
(* it owes is either to be finalized yet or has its verdict (Sealing).     *)
(*                                                                         *)
(* The rings are insertions and filterings of sequences, and a section of  *)
(* its own says what those do to what is in them (InsertsAt, KeptThins).   *)
(* WInv then backs every entry of a ring by its own verdict among those of *)
(* the window, and every verdict by a tombstone no older than it, so that  *)
(* what was judged is not judged again while it counts (Tombstones);       *)
(* a cap that evicts an entry or a tombstone declares the loss that ends   *)
(* the promise.  With one source nothing waits between two handlers, which *)
(* is what the whole window of such a process rests on (AtOnce).           *)
(*                                                                         *)
(* The counts are sums over sets (Totals).  Of a provider each observation *)
(* is in one place at any time, in the middle of a handler too (Balanced), *)
(* and a handler only moves it.                                            *)
(***************************************************************************)
EXTENDS Cohort, Totals, SequenceTheorems

Stamped == [prov : Providers, claim : Claims, at : Nat]

Shape ==
    /\ config \in Configs
    /\ clock \in Nat
    /\ stamped \in [Providers -> Seq(Stamped)]
    /\ queue \in Seq(Stamped)
    /\ loop = "record" => obs \in Stamped

\* An observation of p whose stamp is in order with those of b: one of b, or, of a provider
\* that stamps what it has just decoded, any.
Follows(o, p, b) == o.prov = p /\ (Lag = 0 \/ (o.claim # Anomaly /\ o.claim[1] = b))

\* u was stamped after o, if it is queued after it.
Succeeds(u, o) == Follows(u, o.prov, o.claim[1]) /\ (Lag = 0 \/ o.claim # Anomaly)

\* What p has still to come of b was stamped at t or later.
After(p, b, t) ==
    /\ t <= clock
    /\ stamped[p] # <<>> /\ Follows(Head(stamped[p]), p, b) => t <= Head(stamped[p]).at
    /\ \A i \in DOMAIN queue : Follows(queue[i], p, b) => t <= queue[i].at

\* The stamps of a provider for a base are in order, from the queue to its task's hand; and so
\* are all its stamps, when they do not lag.
Ordered ==
    /\ \A p \in Providers : stamped[p] # <<>> =>
        Head(stamped[p]).prov = p /\ Head(stamped[p]).at <= clock
    /\ \A i \in DOMAIN queue :
        /\ queue[i].at <= clock
        /\ stamped[queue[i].prov] # <<>> /\ Succeeds(Head(stamped[queue[i].prov]), queue[i])
            => queue[i].at <= Head(stamped[queue[i].prov]).at
        /\ \A j \in DOMAIN queue : i < j /\ Succeeds(queue[j], queue[i]) => queue[i].at <= queue[j].at
    /\ loop = "record" => After(obs.prov, obs.claim[1], obs.at)

\* What was heard of a pending base came before everything its provider has to come of it.
HeardBefore ==
    \A b \in DOMAIN pending : \A h \in pending[b].heard :
        /\ h.prov \in Providers /\ After(h.prov, b, h.at)
        /\ loop = "record" /\ h.prov = obs.prov /\ Claimed = b => h.at <= obs.at

Least(t, heard) == (\E h \in heard : h.at = t) /\ \A h \in heard : h.at \in Nat /\ t <= h.at

\* An arrival is of something heard and kept, and none of its provider was earlier.
Faithful(p) ==
    /\ p = [first |-> p.first, cands |-> p.cands, heard |-> p.heard]
    /\ \A c \in DOMAIN p.cands :
        /\ p.cands[c] = [first |-> p.cands[c].first, arr |-> p.cands[c].arr]
        /\ \A q \in DOMAIN p.cands[c].arr :
            \E h \in p.heard : /\ h.kept /\ h.content = c /\ h.prov = q
                               /\ h.at = p.cands[c].arr[q]
    /\ \A h \in p.heard : h.kept =>
        /\ h.content \in DOMAIN p.cands
        /\ h.prov \in DOMAIN p.cands[h.content].arr
        /\ p.cands[h.content].arr[h.prov] <= h.at

Bodies == \A b \in DOMAIN pending :
    Faithful(pending[b]) /\ Least(pending[b].first, pending[b].heard)

\* The providers heard in time with content c, of a base opened at t.
InTime(heard, t, c) ==
    {h.prov : h \in {g \in heard : g.kept /\ g.content = c /\ g.at - t < Timeout}}

Owed(heard, t, c) ==
    IF AnyArrival THEN InTime(heard, t, c) # {} ELSE Reference \in InTime(heard, t, c)

HasVerdict(base, heard, c) == \E w \in verdicts : w.key = <<base, c>> /\ w.heard = heard

\* The base being finalized: each content it owes has its verdict or is still to have it.
Sealing ==
    /\ final # {} =>
        /\ loop \in {"record", "admitted", "tick"}
        /\ Least(sealing.first, sealing.heard)
        /\ \A c \in Contents : Owed(sealing.heard, sealing.first, c) =>
            (\E f \in final : f.content = c) \/ HasVerdict(sealing.base, sealing.heard, c)
    /\ \A f \in final : DOMAIN f.arr = InTime(sealing.heard, sealing.first, f.content)
    /\ loop = "admitted" /\ final # {} => Claimed \notin DOMAIN pending

\* A verdict is exact, and so are the others of its base or they are still to come.
ExactVerdict(v) ==
    /\ Least(v.first, v.heard)
    /\ v.matched = InTime(v.heard, v.first, v.key[2])
    /\ \A c \in Contents : Owed(v.heard, v.first, c) =>
        \/ HasVerdict(v.key[1], v.heard, c)
        \/ /\ sealing.base = v.key[1] /\ sealing.heard = v.heard
           /\ \E f \in final : f.content = c

Verdicts == \A v \in verdicts : ExactVerdict(v)

ExpiredPending == loop = "tick" => expired \subseteq DOMAIN pending

AInv == Shape /\ Ordered /\ HeardBefore /\ Bodies /\ Sealing /\ Verdicts /\ ExpiredPending
-----------------------------------------------------------------------------
(* The operators. *)

\* The least stamp is the minimum of the stamps.
LEMMA LeastIsMin ==
    ASSUME NEW t, NEW heard, Least(t, heard)
    PROVE  Min({h.at : h \in heard}) = t
<1> DEFINE S == {h.at : h \in heard}
<1>1. t \in S /\ (\A x \in S : t <= x) /\ t \in Nat /\ \A x \in S : x \in Nat
    BY DEF Least
<1>2. \A m \in S : (\A x \in S : m <= x) => m = t
    BY <1>1
<1> HIDE DEF S
<1>3. Min(S) = t
    BY <1>1, <1>2 DEF Min
<1>4. QED
    BY <1>3 DEF S

\* What an invariant base counts as timely is what was heard in time.
LEMMA TimelyIsInTime ==
    ASSUME NEW p, NEW c \in DOMAIN p.cands, Faithful(p), Least(p.first, p.heard),
           Timeout \in Nat
    PROVE  Timely(p, c) = InTime(p.heard, p.first, c)
<1>0. p.first \in Nat
    BY DEF Least
<1>1. ASSUME NEW q \in Timely(p, c)
      PROVE  q \in InTime(p.heard, p.first, c)
    BY <1>1 DEF Timely, InTime, Faithful
<1>2. ASSUME NEW q \in InTime(p.heard, p.first, c)
      PROVE  q \in Timely(p, c)
    <2>1. PICK h \in p.heard : h.kept /\ h.content = c /\ h.at - p.first < Timeout /\ h.prov = q
        BY <1>2 DEF InTime
    <2>2. /\ q \in DOMAIN p.cands[c].arr /\ p.cands[c].arr[q] <= h.at
          /\ h.at \in Nat
        BY <2>1 DEF Faithful, Least
    <2>3. p.cands[c].arr[q] \in Nat
        BY <2>2 DEF Faithful, Least
    <2>4. QED
        BY <1>0, <2>1, <2>2, <2>3 DEF Timely
<1>3. QED
    BY <1>1, <1>2

\* Nothing was heard in time of a content that is no candidate.
LEMMA NoCandidateNotOwed ==
    ASSUME NEW p, NEW c, c \notin DOMAIN p.cands, Faithful(p)
    PROVE  InTime(p.heard, p.first, c) = {}
BY DEF InTime, Faithful

\* A base with another opening and one more thing heard, and a base with other candidates.
LEMMA BodyUpdates ==
    ASSUME NEW p, p = [first |-> p.first, cands |-> p.cands, heard |-> p.heard], NEW x, NEW y
    PROVE  /\ [p EXCEPT !.first = x, !.heard = @ \cup {y}]
                = [first |-> x, cands |-> p.cands, heard |-> p.heard \cup {y}]
           /\ [p EXCEPT !.cands = x] = [first |-> p.first, cands |-> x, heard |-> p.heard]
<1> DEFINE q == [p EXCEPT !.first = x, !.heard = @ \cup {y}]
           r == [p EXCEPT !.cands = x]
<1>1. p \in [first : {p.first}, cands : {p.cands}, heard : {p.heard}]
    OBVIOUS
<1>2. /\ q \in [first : {x}, cands : {p.cands}, heard : {p.heard \cup {y}}]
      /\ r \in [first : {p.first}, cands : {x}, heard : {p.heard}]
    BY <1>1
<1> HIDE DEF q, r
<1>3. q = [first |-> x, cands |-> p.cands, heard |-> p.heard \cup {y}]
    BY <1>2
<1>4. r = [first |-> p.first, cands |-> x, heard |-> p.heard]
    BY <1>2
<1>5. QED
    BY <1>3, <1>4 DEF q, r
-----------------------------------------------------------------------------
(* Steps of the receipt queue. *)

\* The parameters of a behaviour are fixed, and within their assumptions.
LEMMA Parameters ==
    ASSUME config \in Configs
    PROVE  Timeout \in Nat \ {0} /\ Reference \in Providers /\ AnyArrival \in BOOLEAN
BY ConfigsAssumption DEF Timeout, Reference, Providers, AnyArrival

\* They do not change.
LEMMA ParametersStay ==
    ASSUME config' = config
    PROVE  /\ Providers' = Providers /\ Stamped' = Stamped /\ Contents' = Contents
           /\ AnyArrival' = AnyArrival /\ Reference' = Reference /\ Timeout' = Timeout
           /\ Lag' = Lag
BY DEF Providers, Stamped, Claims, Bases, Contents, AnyArrival, Reference, Timeout, Lag

\* What waits in the queue and in the hands of the tasks was stamped.
LEMMA Waiting ==
    ASSUME Shape
    PROVE  /\ \A i \in DOMAIN queue : /\ queue[i] \in Stamped /\ i \in Nat
                                     /\ queue[i].prov \in Providers /\ queue[i].at \in Nat
           /\ \A p \in Providers : stamped[p] # <<>> =>
                /\ Head(stamped[p]) \in Stamped
                /\ Head(stamped[p]).prov \in Providers /\ Head(stamped[p]).at \in Nat
<1>1. \A i \in DOMAIN queue : queue[i] \in Stamped /\ i \in Nat
    BY ElementOfSeq DEF Shape
<1>2. \A p \in Providers : stamped[p] # <<>> => Head(stamped[p]) \in Stamped
    <2>1. SUFFICES ASSUME NEW p \in Providers, stamped[p] # <<>> PROVE Head(stamped[p]) \in Stamped
        OBVIOUS
    <2>2. stamped[p] \in Seq(Stamped)
        BY DEF Shape
    <2>3. QED
        BY <2>1, <2>2, HeadTailProperties
<1>3. \A o \in Stamped : o.prov \in Providers /\ o.at \in Nat
    BY DEF Stamped
<1>4. QED
    BY <1>1, <1>2, <1>3

\* What is to come only moves forward: what was heard stays before it.
LEMMA ReceiptKeeps ==
    ASSUME AInv, Shape', Ordered', HeardBefore', loop' = loop, obs' = obs,
           UNCHANGED <<config, expired, sealing, final, pending, verdicts>>
    PROVE  AInv'
<1>0. /\ Providers' = Providers /\ Contents' = Contents /\ AnyArrival' = AnyArrival
      /\ Reference' = Reference /\ Timeout' = Timeout
    BY ParametersStay
<1>2. Bodies' /\ ExpiredPending'
    BY DEF AInv, Bodies, Faithful, Least, ExpiredPending
<1>3. \A heard, t, c : InTime(heard, t, c)' = InTime(heard, t, c) /\ (Owed(heard, t, c)' <=> Owed(heard, t, c))
    BY <1>0 DEF InTime, Owed
<1>4. Sealing'
    BY <1>0 DEF AInv, Sealing, Least, Owed, InTime, HasVerdict, Claimed
<1>5. Verdicts'
    <2>1. SUFFICES ASSUME NEW v \in verdicts PROVE ExactVerdict(v)'
        BY DEF Verdicts
    <2>2. ExactVerdict(v)
        BY DEF AInv, Verdicts
    <2>3. \A b, heard, c : HasVerdict(b, heard, c)' <=> HasVerdict(b, heard, c)
        BY DEF HasVerdict
    <2>4. QED
        BY <1>0, <1>3, <2>2, <2>3 DEF ExactVerdict, Least
<1>6. QED
    BY <1>2, <1>4, <1>5 DEF AInv

\* Where what is to come only moves forward, what was heard stays before it.
LEMMA HeardStays ==
    ASSUME AInv, \A b : \A p \in Providers, t \in Nat : After(p, b, t) => After(p, b, t)',
           UNCHANGED <<config, pending>>, loop' = "record" => loop = "record" /\ obs' = obs
    PROVE  HeardBefore'
BY ParametersStay DEF AInv, HeardBefore, Bodies, Least, Claimed

\* A provider stamps an observation, now or with the time its last part came.
LEMMA StampKeeps ==
    ASSUME AInv, NEW p \in Providers, Stamp(p)
    PROVE  AInv'
<1>1. PICK claim \in Claims, at \in Since(clock, Lag) .. clock :
        /\ claim = Anomaly \/ InOrder(p, claim[1], at)
        /\ stamped' = [stamped EXCEPT ![p] = <<[prov |-> p, claim |-> claim, at |-> at]>>]
    BY DEF Stamp
<1>2. /\ loop = "idle" /\ stamped[p] = <<>>
      /\ UNCHANGED <<config, clock, queue, loop, obs, expired, sealing, final, pending, verdicts>>
    BY DEF Stamp, handlerVars, mapVars, historyVars
<1>3. /\ at \in Nat /\ at <= clock /\ clock \in Nat
      /\ Lag = 0 => at = clock
    <2>1. clock \in Nat /\ Lag \in Nat
        BY ConfigsAssumption DEF AInv, Shape, Lag
    <2>2. QED
        BY <2>1 DEF Since
<1> PICK o : o = [prov |-> p, claim |-> claim, at |-> at]
    OBVIOUS
<1>4. o \in Stamped /\ o.prov = p /\ o.claim = claim /\ o.at = at
    BY <1>3 DEF Stamped
<1>5. /\ stamped' \in [Providers -> Seq(Stamped)]
      /\ stamped'[p] = <<o>> /\ Head(stamped'[p]) = o
      /\ \A q \in Providers : q # p => stamped'[q] = stamped[q]
    BY <1>1, <1>4 DEF AInv, Shape
<1>6. Shape'
    BY <1>2, <1>5, ParametersStay DEF AInv, Shape
<1>7. \A i \in DOMAIN queue : queue[i].prov \in Providers /\ queue[i].at \in Nat /\ i \in Nat
    BY Waiting DEF AInv
<1>8. \A u, q, b : Follows(u, q, b)' <=> Follows(u, q, b)
    BY <1>2, ParametersStay DEF Follows
<1>9. HeardBefore'
    <2>1. SUFFICES ASSUME NEW b \in DOMAIN pending, NEW h \in pending[b].heard
                   PROVE  h.prov \in Providers /\ After(h.prov, b, h.at)'
        BY <1>2, ParametersStay DEF HeardBefore
    <2>2. h.prov \in Providers /\ After(h.prov, b, h.at)
        BY DEF AInv, HeardBefore
    <2>3. h.prov = p /\ Follows(o, p, b) => h.at <= at
        BY <1>1, <1>3, <1>4, <2>2 DEF Follows, InOrder, After
    <2>4. QED
        BY <1>2, <1>4, <1>5, <1>8, <2>2, <2>3 DEF After
<1>10. Ordered'
    <2>1. \A q \in Providers : stamped'[q] # <<>> =>
            Head(stamped'[q]).prov = q /\ Head(stamped'[q]).at <= clock'
        BY <1>2, <1>3, <1>4, <1>5 DEF AInv, Ordered, Shape
    <2>2. \A i \in DOMAIN queue : queue[i].prov = p /\ Succeeds(o, queue[i]) => queue[i].at <= at
        BY <1>1, <1>3, <1>4, <1>7 DEF AInv, Ordered, Succeeds, Follows, InOrder
    <2>3. \A i \in DOMAIN queue :
            stamped'[queue[i].prov] # <<>> /\ Succeeds(Head(stamped'[queue[i].prov]), queue[i])
            => queue[i].at <= Head(stamped'[queue[i].prov]).at
        BY <1>4, <1>5, <1>7, <2>2 DEF AInv, Ordered
    <2>4. QED
        BY <1>2, <1>8, <2>1, <2>3, ParametersStay DEF AInv, Ordered, Succeeds
<1>11. QED
    BY <1>2, <1>6, <1>9, <1>10, ReceiptKeeps

\* A task sends what it stamped: to the end of the queue, or nowhere.
LEMMA SendKeeps ==
    ASSUME AInv, NEW p \in Providers, Send(p)
    PROVE  AInv'
<1> DEFINE o == Head(stamped[p])
<1>1. /\ loop = "idle" /\ stamped[p] # <<>>
      /\ stamped' = [stamped EXCEPT ![p] = <<>>]
      /\ queue' = Append(queue, o) \/ queue' = queue
      /\ UNCHANGED <<config, clock, loop, obs, expired, sealing, final, pending, verdicts>>
    BY DEF Send, handlerVars, mapVars, historyVars
<1>2. o \in Stamped /\ o.prov = p /\ o.at <= clock /\ o.at \in Nat
    BY <1>1, Waiting DEF AInv, Ordered
<1>3. /\ stamped' \in [Providers -> Seq(Stamped)] /\ stamped'[p] = <<>>
      /\ \A q \in Providers : q # p => stamped'[q] = stamped[q]
    BY <1>1 DEF AInv, Shape
<1>4. /\ queue' \in Seq(Stamped)
      /\ \A i \in DOMAIN queue' : \/ i \in DOMAIN queue /\ queue'[i] = queue[i]
                                  \/ queue'[i] = o /\ \A j \in DOMAIN queue' : j <= i
    <2>0. queue \in Seq(Stamped) /\ DOMAIN queue = 1 .. Len(queue) /\ Len(queue) \in Nat
        BY LenProperties DEF AInv, Shape
    <2>1. CASE queue' = queue
        BY <2>0, <2>1
    <2>2. CASE queue' = Append(queue, o)
        <3>1. /\ queue' \in Seq(Stamped) /\ DOMAIN queue' = 1 .. Len(queue) + 1
              /\ \A i \in 1 .. Len(queue) : queue'[i] = queue[i]
              /\ queue'[Len(queue) + 1] = o
            BY <1>2, <2>0, <2>2, AppendProperties
        <3>2. QED
            BY <2>0, <3>1
    <2>3. QED
        BY <1>1, <2>1, <2>2
<1>5. Shape'
    BY <1>1, <1>3, <1>4, ParametersStay DEF AInv, Shape
<1>6. \A u, q, b : Follows(u, q, b)' <=> Follows(u, q, b)
    BY <1>1, ParametersStay DEF Follows
<1> HIDE DEF o
<1>7. HeardBefore'
    <2>1. \A b : \A q \in Providers, t \in Nat : After(q, b, t) => After(q, b, t)'
        <3>1. SUFFICES ASSUME NEW b, NEW q \in Providers, NEW t \in Nat, After(q, b, t)
                       PROVE  After(q, b, t)'
            OBVIOUS
        <3>2. q = p /\ Follows(o, p, b) => t <= o.at
            BY <1>1, <3>1 DEF After, o
        <3>3. \A i \in DOMAIN queue' : Follows(queue'[i], q, b) => t <= queue'[i].at
            <4>1. SUFFICES ASSUME NEW i \in DOMAIN queue', Follows(queue'[i], q, b)
                           PROVE  t <= queue'[i].at
                OBVIOUS
            <4>2. CASE i \in DOMAIN queue /\ queue'[i] = queue[i]
                BY <3>1, <4>1, <4>2 DEF After
            <4>3. CASE queue'[i] = o
                BY <1>2, <3>2, <4>1, <4>3 DEF Follows
            <4>4. QED
                BY <1>4, <4>2, <4>3
        <3>4. stamped'[q] # <<>> => stamped'[q] = stamped[q]
            BY <1>3
        <3>5. QED
            BY <1>1, <1>6, <3>1, <3>3, <3>4 DEF After
    <2>2. QED
        BY <1>1, <2>1, HeardStays
<1>8. Ordered'
    <2>1. \A i \in DOMAIN queue : queue[i].prov \in Providers /\ queue[i].at \in Nat /\ i \in Nat
        BY Waiting DEF AInv
    <2>2. \A q \in Providers : stamped'[q] # <<>> => q # p
        BY <1>3
    <2>3. \A q \in Providers : stamped'[q] # <<>> =>
            Head(stamped'[q]).prov = q /\ Head(stamped'[q]).at <= clock'
        BY <1>1, <1>3, <2>2 DEF AInv, Ordered
    <2>4. \A i \in DOMAIN queue : Succeeds(o, queue[i]) => queue[i].at <= o.at
        BY <1>1, <1>2 DEF AInv, Ordered, Succeeds, Follows, o
    <2>5. \A i \in DOMAIN queue :
            /\ queue[i].at <= clock
            /\ stamped[queue[i].prov] # <<>> /\ Succeeds(Head(stamped[queue[i].prov]), queue[i])
                => queue[i].at <= Head(stamped[queue[i].prov]).at
            /\ \A j \in DOMAIN queue : i < j /\ Succeeds(queue[j], queue[i]) => queue[i].at <= queue[j].at
        BY DEF AInv, Ordered
    <2>6. ASSUME NEW i \in DOMAIN queue'
          PROVE  /\ queue'[i].at <= clock
                 /\ stamped'[queue'[i].prov] # <<>> /\ Succeeds(Head(stamped'[queue'[i].prov]), queue'[i])
                        => queue'[i].at <= Head(stamped'[queue'[i].prov]).at
                 /\ \A j \in DOMAIN queue' :
                        i < j /\ Succeeds(queue'[j], queue'[i]) => queue'[i].at <= queue'[j].at
        <3>1. CASE i \in DOMAIN queue /\ queue'[i] = queue[i]
            <4>1. /\ queue'[i].at <= clock
                  /\ stamped'[queue'[i].prov] # <<>> /\ Succeeds(Head(stamped'[queue'[i].prov]), queue'[i])
                        => queue'[i].at <= Head(stamped'[queue'[i].prov]).at
                BY <1>3, <2>1, <2>2, <2>5, <3>1
            <4>2. ASSUME NEW j \in DOMAIN queue', i < j, Succeeds(queue'[j], queue'[i])
                  PROVE  queue'[i].at <= queue'[j].at
                BY <1>4, <2>4, <2>5, <3>1, <4>2
            <4>3. QED
                BY <4>1, <4>2
        <3>2. CASE queue'[i] = o /\ \A j \in DOMAIN queue' : j <= i
            <4>1. DOMAIN queue' \subseteq Nat
                BY <1>4, LenProperties
            <4>2. QED
                BY <1>2, <1>3, <3>2, <4>1
        <3>3. QED
            BY <1>4, <3>1, <3>2
    <2>7. QED
        BY <1>1, <1>6, <2>3, <2>6, ParametersStay DEF Ordered, Succeeds
<1>9. QED
    BY <1>1, <1>5, <1>7, <1>8, ReceiptKeeps

\* Time passes.
LEMMA AdvanceKeeps ==
    ASSUME AInv, Advance
    PROVE  AInv'
<1>1. /\ loop = "idle" /\ clock' = clock + 1 /\ clock \in Nat
      /\ UNCHANGED <<config, stamped, queue, loop, obs, expired, sealing, final, pending, verdicts>>
    BY DEF Advance, handlerVars, mapVars, historyVars, AInv, Shape
<1>2. Shape'
    BY <1>1, ParametersStay DEF AInv, Shape
<1>3. HeardBefore'
    <2>1. \A b : \A q \in Providers, t \in Nat : After(q, b, t) => After(q, b, t)'
        BY <1>1, ParametersStay DEF After, Follows
    <2>2. QED
        BY <1>1, <2>1, HeardStays
<1>4. Ordered'
    <2>1. \A i \in DOMAIN queue : queue[i].at \in Nat
        BY Waiting DEF AInv
    <2>2. \A q \in Providers : stamped[q] # <<>> => Head(stamped[q]).at \in Nat
        BY Waiting DEF AInv
    <2>3. QED
        BY <1>1, <2>1, <2>2, ParametersStay DEF AInv, Ordered, Succeeds, Follows
<1>5. QED
    BY <1>1, <1>2, <1>3, <1>4, ReceiptKeeps
-----------------------------------------------------------------------------
(* Steps of the loop. *)

\* Between two bases nothing waits for a verdict, and all that have one keep it.
LEMMA SettledStay ==
    ASSUME AInv, final = {}, UNCHANGED <<config, final, verdicts>>
    PROVE  Sealing' /\ Verdicts'
<1>1. Sealing'
    BY DEF Sealing
<1>2. Verdicts'
    <2>1. SUFFICES ASSUME NEW v \in verdicts PROVE ExactVerdict(v)'
        BY DEF Verdicts
    <2>2. ExactVerdict(v)
        BY DEF AInv, Verdicts
    <2>3. \A heard, t, c : InTime(heard, t, c)' = InTime(heard, t, c) /\ (Owed(heard, t, c)' <=> Owed(heard, t, c))
        BY ParametersStay DEF InTime, Owed
    <2>4. \A b, heard, c : HasVerdict(b, heard, c)' <=> HasVerdict(b, heard, c)
        BY DEF HasVerdict
    <2>5. QED
        BY <2>2, <2>3, <2>4, ParametersStay DEF ExactVerdict, Least
<1>3. QED
    BY <1>1, <1>2

\* The head of the queue is taken: what stays was behind it.
LEMMA HeadTaken ==
    ASSUME AInv, NEW o, queue # <<>>, o = Head(queue), queue' = Tail(queue), UNCHANGED <<config, clock, stamped>>
    PROVE  /\ o \in Stamped /\ queue' \in Seq(Stamped)
           /\ \A b : \A p \in Providers, t \in Nat : After(p, b, t) =>
                After(p, b, t)' /\ (Follows(o, p, b) => t <= o.at)
           /\ Lag = 0 \/ o.claim # Anomaly => After(o.prov, o.claim[1], o.at)'
           /\ o.prov \in Providers /\ o.at \in Nat
           /\ \A i \in DOMAIN queue' : i + 1 \in DOMAIN queue /\ queue'[i] = queue[i + 1] /\ i \in Nat
<1>1. /\ queue \in Seq(Stamped) /\ DOMAIN queue = 1 .. Len(queue) /\ Len(queue) \in Nat \ {0}
      /\ o = queue[1] /\ o \in Stamped
    BY HeadTailProperties, LenProperties, EmptySeq DEF AInv, Shape
<1>2. /\ queue' \in Seq(Stamped) /\ DOMAIN queue' = 1 .. Len(queue) - 1
      /\ \A i \in DOMAIN queue' : queue'[i] = queue[i + 1]
    BY <1>1, HeadTailProperties, LenProperties
<1>3. \A i \in DOMAIN queue' : i + 1 \in DOMAIN queue /\ queue'[i] = queue[i + 1] /\ i \in Nat
    BY <1>1, <1>2
<1>4. 1 \in DOMAIN queue /\ o.prov \in Providers /\ o.at \in Nat
    BY <1>1, Waiting DEF AInv
<1>5. \A u, q, b : Follows(u, q, b)' <=> Follows(u, q, b)
    BY ParametersStay DEF Follows
<1>6. ASSUME Lag = 0 \/ o.claim # Anomaly
      PROVE  After(o.prov, o.claim[1], o.at)'
    <2>1. /\ o.at <= clock
          /\ stamped[o.prov] # <<>> /\ Follows(Head(stamped[o.prov]), o.prov, o.claim[1])
                => o.at <= Head(stamped[o.prov]).at
          /\ \A j \in DOMAIN queue : 1 < j /\ Follows(queue[j], o.prov, o.claim[1])
                => o.at <= queue[j].at
        BY <1>1, <1>4, <1>6 DEF AInv, Ordered, Succeeds
    <2>2. ASSUME NEW i \in DOMAIN queue', Follows(queue'[i], o.prov, o.claim[1])
          PROVE  o.at <= queue'[i].at
        BY <1>2, <1>3, <2>1, <2>2
    <2>3. QED
        BY <1>5, <2>1, <2>2 DEF After
<1>7. ASSUME NEW p \in Providers, NEW b, NEW t \in Nat, After(p, b, t)
      PROVE  After(p, b, t)' /\ (Follows(o, p, b) => t <= o.at)
    BY <1>1, <1>3, <1>4, <1>5, <1>7 DEF After
<1>8. QED
    BY <1>1, <1>2, <1>3, <1>4, <1>6, <1>7

\* So the stamps of what stays are in order.
LEMMA TailOrdered ==
    ASSUME AInv, queue # <<>>, queue' = Tail(queue), UNCHANGED <<config, clock, stamped>>,
           loop' = "record" => After(obs.prov, obs.claim[1], obs.at)'
    PROVE  Ordered'
<1>1. \A i \in DOMAIN queue' : i + 1 \in DOMAIN queue /\ queue'[i] = queue[i + 1] /\ i \in Nat
    BY HeadTaken
<1>2. \A i, j \in DOMAIN queue' : i < j => i + 1 < j + 1
    BY <1>1
<1>3. QED
    BY <1>1, <1>2, ParametersStay DEF AInv, Ordered, Succeeds, Follows

\* An anomaly is taken out.
LEMMA AnomalyKeeps ==
    ASSUME AInv, RecordAnomaly
    PROVE  AInv'
<1>1. /\ loop = "idle" /\ queue # <<>> /\ queue' = Tail(queue)
      /\ UNCHANGED <<config, clock, stamped, loop, obs, expired, sealing, final, pending, verdicts>>
    BY DEF RecordAnomaly, handlerVars, mapVars, historyVars
<1>2. Shape'
    BY <1>1, HeadTaken, ParametersStay DEF AInv, Shape
<1>3. Ordered'
    BY <1>1, TailOrdered
<1>4. HeardBefore'
    <2>1. \A b : \A p \in Providers, t \in Nat : After(p, b, t) => After(p, b, t)'
        BY <1>1, HeadTaken
    <2>2. QED
        BY <1>1, <2>1, HeardStays
<1>5. QED
    BY <1>1, <1>2, <1>3, <1>4, ReceiptKeeps

\* An observation is taken in hand: it is no earlier than what was heard of its provider and base.
LEMMA BeginRecordKeeps ==
    ASSUME AInv, BeginRecord
    PROVE  AInv'
<1>1. /\ loop = "idle" /\ queue # <<>> /\ queue' = Tail(queue)
      /\ obs' = Head(queue) /\ loop' = "record"
      /\ UNCHANGED <<config, clock, stamped, expired, sealing, final, pending, verdicts>>
    BY DEF BeginRecord, mapVars, historyVars
<1>2. final = {}
    BY <1>1 DEF AInv, Sealing
<1> PICK o : o = Head(queue)
    OBVIOUS
<1>3. Shape'
    <2>1. obs' \in Stamped' /\ queue' \in Seq(Stamped')
        BY <1>1, HeadTaken, ParametersStay
    <2>2. QED
        BY <1>1, <2>1, ParametersStay DEF AInv, Shape
<1>4. Ordered'
    <2>1. o.claim # Anomaly
        BY DEF BeginRecord
    <2>2. After(o.prov, o.claim[1], o.at)'
        BY <1>1, <2>1, HeadTaken
    <2>3. QED
        BY <1>1, <2>2, TailOrdered
<1>5. HeardBefore'
    <2>1. SUFFICES ASSUME NEW b \in DOMAIN pending, NEW h \in pending[b].heard
                   PROVE  /\ h.prov \in Providers /\ After(h.prov, b, h.at)'
                          /\ h.prov = obs'.prov /\ obs'.claim[1] = b => h.at <= obs'.at
        BY <1>1, ParametersStay DEF HeardBefore, Claimed
    <2>2. h.prov \in Providers /\ After(h.prov, b, h.at) /\ h.at \in Nat
        BY DEF AInv, HeardBefore, Bodies, Least
    <2>3. After(h.prov, b, h.at)' /\ (Follows(o, h.prov, b) => h.at <= o.at)
        BY <1>1, <2>2, HeadTaken
    <2>4. o.claim # Anomaly
        BY DEF BeginRecord
    <2>5. QED
        BY <1>1, <2>2, <2>3, <2>4 DEF Follows
<1>6. Bodies' /\ ExpiredPending'
    BY <1>1 DEF AInv, Bodies, Faithful, Least, ExpiredPending
<1>7. Sealing' /\ Verdicts'
    BY <1>1, <1>2, SettledStay DEF AInv
<1>8. QED
    BY <1>3, <1>4, <1>5, <1>6, <1>7 DEF AInv

\* Steps of the loop that leave the bases alone and wait for no verdict.
LEMMA LoopKeeps ==
    ASSUME AInv, final = {}, loop' # "record", loop' = "tick" => expired' \subseteq DOMAIN pending,
           UNCHANGED <<config, clock, stamped, queue, final, pending, verdicts>>
    PROVE  AInv'
<1>1. Shape'
    BY ParametersStay DEF AInv, Shape
<1>2. Ordered'
    BY ParametersStay DEF AInv, Ordered, Succeeds, Follows
<1>3. HeardBefore'
    BY ParametersStay DEF AInv, HeardBefore, After, Follows
<1>4. Bodies' /\ ExpiredPending'
    BY DEF AInv, Bodies, Faithful, Least, ExpiredPending
<1>5. Sealing' /\ Verdicts'
    BY SettledStay
<1>6. QED
    BY <1>1, <1>2, <1>3, <1>4, <1>5 DEF AInv

\* A base is sealed: of what it owes, all is to be finalized.
LEMMA SettleKeeps ==
    ASSUME AInv, final = {}, NEW base \in DOMAIN pending, NEW evicted, Settle(base, evicted),
           loop \in {"record", "admitted", "tick"}, loop = "admitted" => base = Claimed,
           loop = "tick" => expired' = expired \ {base},
           UNCHANGED <<config, clock, stamped, queue, loop, obs, verdicts>>
    PROVE  AInv'
<1> DEFINE p == pending[base]
<1>1. /\ DOMAIN pending' = DOMAIN pending \ {base}
      /\ \A b \in DOMAIN pending' : pending'[b] = pending[b]
    BY DEF Settle, Without, Restrict
<1>2. Faithful(p) /\ Least(p.first, p.heard) /\ p.first \in Nat
    BY DEF AInv, Bodies, Least
<1>3. Timeout \in Nat
    BY Parameters DEF AInv, Shape
<1>4. sealing'.base = base /\ sealing'.first = p.first /\ sealing'.heard = p.heard
    BY DEF Settle
<1>5. /\ \A f \in final' : f.content \in Canonical(p) /\ DOMAIN f.arr = Timely(p, f.content)
      /\ \A c \in Canonical(p) : \E f \in final' : f.content = c
    <2>1. final' = {[content |-> c, first |-> p.cands[c].first,
                     arr |-> Restrict(p.cands[c].arr, Timely(p, c))] : c \in Canonical(p)}
        BY DEF Settle
    <2>2. \A c \in Canonical(p) : DOMAIN Restrict(p.cands[c].arr, Timely(p, c)) = Timely(p, c)
        BY DEF Restrict
    <2>3. ASSUME NEW f \in final'
          PROVE  f.content \in Canonical(p) /\ DOMAIN f.arr = Timely(p, f.content)
        <3>1. PICK c \in Canonical(p) : f = [content |-> c, first |-> p.cands[c].first,
                                           arr |-> Restrict(p.cands[c].arr, Timely(p, c))]
            BY <2>1
        <3>2. f.content = c /\ f.arr = Restrict(p.cands[c].arr, Timely(p, c))
            BY <3>1
        <3>3. QED
            BY <2>2, <3>2
    <2>4. ASSUME NEW c \in Canonical(p)
          PROVE  \E f \in final' : f.content = c
        <3> DEFINE f == [content |-> c, first |-> p.cands[c].first,
                         arr |-> Restrict(p.cands[c].arr, Timely(p, c))]
        <3>1. f \in final' /\ f.content = c
            BY <2>1
        <3>2. QED
            BY <3>1
    <2>5. QED
        BY <2>3, <2>4
<1>6. \A c \in DOMAIN p.cands : Timely(p, c) = InTime(p.heard, p.first, c)
    BY <1>2, <1>3, TimelyIsInTime
<1>7. \A c : Owed(p.heard, p.first, c) => c \in Canonical(p)
    BY <1>2, <1>6, NoCandidateNotOwed DEF Owed, Canonical
<1> HIDE DEF p
<1>8. \A heard, t, c : InTime(heard, t, c)' = InTime(heard, t, c) /\ (Owed(heard, t, c)' <=> Owed(heard, t, c))
    BY ParametersStay DEF InTime, Owed
<1>9. Shape' /\ Ordered'
    BY ParametersStay DEF AInv, Shape, Ordered, After, Succeeds, Follows
<1>10. HeardBefore'
    BY <1>1, ParametersStay DEF AInv, HeardBefore, After, Follows, Claimed
<1>11. Bodies' /\ ExpiredPending'
    BY <1>1 DEF AInv, Bodies, Faithful, Least, ExpiredPending
<1>12. Sealing'
    <2> PICK heard, first : heard = p.heard /\ first = p.first
        OBVIOUS
    <2>1. sealing'.heard = heard /\ sealing'.first = first
        BY <1>4
    <2>2. \A f \in final' : DOMAIN f.arr = InTime(heard, first, f.content)'
        BY <1>5, <1>6, <1>8 DEF Canonical
    <2>3. Least(first, heard)
        BY <1>2
    <2>4. \A c : Owed(heard, first, c)' => \E f \in final' : f.content = c
        BY <1>5, <1>7, <1>8
    <2>5. loop' = "admitted" => Claimed' \notin DOMAIN pending'
        BY <1>1 DEF Claimed
    <2>6. loop' \in {"record", "admitted", "tick"}
        OBVIOUS
    <2>7. QED
        BY <2>1, <2>2, <2>3, <2>4, <2>5, <2>6 DEF Sealing, Least
<1>13. Verdicts'
    <2>1. SUFFICES ASSUME NEW v \in verdicts PROVE ExactVerdict(v)'
        BY DEF Verdicts
    <2>2. ExactVerdict(v)
        BY DEF AInv, Verdicts
    <2>3. \A b, heard, c : HasVerdict(b, heard, c)' <=> HasVerdict(b, heard, c)
        BY DEF HasVerdict
    <2>4. QED
        BY <1>8, <2>2, <2>3, ParametersStay DEF ExactVerdict, Least
<1>14. QED
    BY <1>9, <1>10, <1>11, <1>12, <1>13 DEF AInv

\* A verdict is exact by what was sealed.
LEMMA FinalizeKeeps ==
    ASSUME AInv, Finalize
    PROVE  AInv'
<1>1. PICK f \in final :
        /\ final' = final \ {f}
        /\ \E t : verdicts' = verdicts \cup
                    {[key |-> <<sealing.base, f.content>>, at |-> t, matched |-> DOMAIN f.arr,
                      first |-> sealing.first, heard |-> sealing.heard]}
    BY DEF Finalize
<1>2. /\ loop \in {"record", "admitted", "tick"}
      /\ UNCHANGED <<config, clock, stamped, queue, loop, obs, expired, sealing, pending>>
    BY DEF Finalize, receiptVars
<1>3. PICK t : verdicts' = verdicts \cup
                    {[key |-> <<sealing.base, f.content>>, at |-> t, matched |-> DOMAIN f.arr,
                      first |-> sealing.first, heard |-> sealing.heard]}
    BY <1>1
<1> DEFINE v == [key |-> <<sealing.base, f.content>>, at |-> t, matched |-> DOMAIN f.arr,
                 first |-> sealing.first, heard |-> sealing.heard]
<1>4. /\ v.key = <<sealing.base, f.content>> /\ v.key[1] = sealing.base /\ v.key[2] = f.content
      /\ v.matched = DOMAIN f.arr /\ v.first = sealing.first /\ v.heard = sealing.heard
      /\ verdicts' = verdicts \cup {v}
    BY <1>3
<1> HIDE DEF v
<1>5. \A heard, s, c : InTime(heard, s, c)' = InTime(heard, s, c) /\ (Owed(heard, s, c)' <=> Owed(heard, s, c))
    BY <1>2, ParametersStay DEF InTime, Owed
<1>6. /\ \A b, heard, c : HasVerdict(b, heard, c) => HasVerdict(b, heard, c)'
      /\ HasVerdict(sealing.base, sealing.heard, f.content)'
    BY <1>2, <1>4 DEF HasVerdict
<1>7. \A c : (\E g \in final : g.content = c) =>
             (\E g \in final' : g.content = c) \/ HasVerdict(sealing.base, sealing.heard, c)'
    BY <1>1, <1>6
<1>8. /\ Least(sealing.first, sealing.heard)
      /\ DOMAIN f.arr = InTime(sealing.heard, sealing.first, f.content)
      /\ \A c \in Contents : Owed(sealing.heard, sealing.first, c) =>
            (\E g \in final : g.content = c) \/ HasVerdict(sealing.base, sealing.heard, c)
    BY DEF AInv, Sealing
<1>9. Shape' /\ Ordered'
    BY <1>2, ParametersStay DEF AInv, Shape, Ordered, After, Succeeds, Follows
<1>10. HeardBefore'
    BY <1>2, ParametersStay DEF AInv, HeardBefore, After, Follows, Claimed
<1>11. Bodies' /\ ExpiredPending'
    BY <1>2 DEF AInv, Bodies, Faithful, Least, ExpiredPending
<1>12. Sealing'
    <2>1. \A g \in final' : DOMAIN g.arr = InTime(sealing.heard, sealing.first, g.content)'
        BY <1>1, <1>2, <1>5 DEF AInv, Sealing
    <2>2. \A c \in Contents : Owed(sealing.heard, sealing.first, c)' =>
            (\E g \in final' : g.content = c) \/ HasVerdict(sealing.base, sealing.heard, c)'
        BY <1>2, <1>5, <1>6, <1>7, <1>8
    <2>3. loop = "admitted" => Claimed \notin DOMAIN pending
        BY <1>1 DEF AInv, Sealing
    <2>4. QED
        BY <1>2, <1>8, <2>1, <2>2, <2>3, ParametersStay DEF Sealing, Least, Claimed
<1>13. Verdicts'
    <2>1. SUFFICES ASSUME NEW w \in verdicts' PROVE ExactVerdict(w)'
        BY DEF Verdicts
    <2>2. CASE w \in verdicts
        <3>1. ExactVerdict(w)
            BY <2>2 DEF AInv, Verdicts
        <3>2. QED
            BY <1>2, <1>5, <1>6, <1>7, <3>1, ParametersStay DEF ExactVerdict, Least
    <2>3. CASE w = v
        BY <1>2, <1>4, <1>5, <1>6, <1>7, <1>8, <2>3, ParametersStay DEF ExactVerdict, Least
    <2>4. QED
        BY <1>4, <2>1, <2>2, <2>3
<1>14. QED
    BY <1>9, <1>10, <1>11, <1>12, <1>13 DEF AInv

\* An observation joins its base.  The base opens at its earliest stamp, and of a provider's
\* arrivals with one content, which are in order, the first is kept.
LEMMA AdmittedKeeps ==
    ASSUME AInv, RecordAdmitted
    PROVE  AInv'
<1> DEFINE base  == IF IsPending THEN pending[Claimed]
                    ELSE [first |-> obs.at, cands |-> <<>>, heard |-> {}]
           known == Content \in DOMAIN base.cands
           room  == known \/ Cardinality(DOMAIN base.cands) < MaxSignatures
           h     == [prov |-> obs.prov, content |-> Content, at |-> obs.at, kept |-> room]
           p     == [base EXCEPT !.first = Opened(base), !.heard = @ \cup {h}]
           cand  == IF known THEN [p.cands[Content] EXCEPT !.first = Earlier(@, obs.at)]
                    ELSE [first |-> obs.at, arr |-> <<>>]
           with(c) == Put(pending, Claimed, [p EXCEPT !.cands = Put(@, Content, c)])
<1>1. /\ loop = "record" /\ final = {}
      /\ UNCHANGED <<config, clock, stamped, queue, expired, final, verdicts>>
      /\ loop' \in {"idle", "admitted"}
    BY DEF RecordAdmitted, receiptVars, historyVars, Return
<1>2. \/ ~room /\ pending' = Put(pending, Claimed, p)
      \/ room /\ obs.prov \in DOMAIN cand.arr /\ pending' = with(cand)
      \/ room /\ obs.prov \notin DOMAIN cand.arr
              /\ pending' = with([cand EXCEPT !.arr = Put(@, obs.prov, obs.at)])
    BY DEF RecordAdmitted
<1>3. obs.prov \in Providers /\ obs.at \in Nat /\ After(obs.prov, Claimed, obs.at)
    BY <1>1 DEF AInv, Shape, Stamped, Ordered, Claimed
<1>4. /\ Faithful(base) /\ base.first \in Nat
      /\ \A g \in base.heard : /\ g.at \in Nat /\ base.first <= g.at
                               /\ g.prov \in Providers /\ After(g.prov, Claimed, g.at)
                               /\ g.prov = obs.prov => g.at <= obs.at
      /\ base.first = obs.at \/ \E g \in base.heard : g.at = base.first
    <2>1. CASE IsPending
        BY <1>1, <2>1 DEF IsPending, AInv, Bodies, Least, HeardBefore
    <2>2. CASE ~IsPending
        BY <1>3, <2>2 DEF Faithful
    <2>3. QED
        BY <2>1, <2>2
<1>5. /\ p = [first |-> p.first, cands |-> p.cands, heard |-> p.heard]
      /\ p.first = Earlier(base.first, obs.at) /\ p.cands = base.cands
      /\ p.heard = base.heard \cup {h}
    <2>1. base = [first |-> base.first, cands |-> base.cands, heard |-> base.heard]
        BY <1>4 DEF Faithful
    <2> HIDE DEF base, h
    <2>2. p = [first |-> Opened(base), cands |-> base.cands, heard |-> base.heard \cup {h}]
        BY <2>1, BodyUpdates
    <2>3. QED
        BY <2>2 DEF Opened
<1>6. h.prov = obs.prov /\ h.content = Content /\ h.at = obs.at /\ h.kept = room
    OBVIOUS
<1> HIDE DEF base, h, p
<1>7. Least(p.first, p.heard)
    BY <1>3, <1>4, <1>5, <1>6 DEF Least, Earlier
<1>8. \A g \in p.heard : g.prov \in Providers /\ After(g.prov, Claimed, g.at)
    BY <1>3, <1>4, <1>5, <1>6
<1>9. PICK b : /\ pending' = Put(pending, Claimed, b)
               /\ b.first = p.first /\ b.heard = p.heard /\ Faithful(b)
    <2>1. CASE ~room /\ pending' = Put(pending, Claimed, p)
        <3>1. /\ \A g \in p.heard : g.kept => g \in base.heard
              /\ \A g \in base.heard : g \in p.heard
            BY <1>5, <1>6, <2>1
        <3>2. Faithful(p)
            BY <1>4, <1>5, <3>1 DEF Faithful
        <3>3. QED
            BY <2>1, <3>2
    <2>2. CASE room /\ obs.prov \in DOMAIN cand.arr /\ pending' = with(cand)
        <3> DEFINE b == [p EXCEPT !.cands = Put(@, Content, cand)]
        <3>1. /\ b = [first |-> p.first, cands |-> Put(p.cands, Content, cand), heard |-> p.heard]
              /\ b.first = p.first /\ b.cands = Put(p.cands, Content, cand) /\ b.heard = p.heard
            BY <1>5, BodyUpdates
        <3>2. known
            BY <2>2
        <3>3. /\ cand = [first |-> cand.first, arr |-> cand.arr]
              /\ cand.arr = base.cands[Content].arr
            BY <1>4, <1>5, <3>2 DEF Faithful
        <3>4. base.cands[Content].arr[obs.prov] <= obs.at
            BY <1>4, <2>2, <3>2, <3>3 DEF Faithful
        <3> HIDE DEF cand, b
        <3>5. /\ DOMAIN b.cands = DOMAIN base.cands
              /\ \A c \in DOMAIN b.cands : /\ b.cands[c] = [first |-> b.cands[c].first, arr |-> b.cands[c].arr]
                                          /\ b.cands[c].arr = base.cands[c].arr
            BY <1>4, <1>5, <3>1, <3>2, <3>3 DEF Faithful, Put
        <3>6. Faithful(b)
            BY <1>4, <1>5, <1>6, <2>2, <3>1, <3>2, <3>3, <3>4, <3>5 DEF Faithful
        <3>7. QED
            BY <2>2, <3>1, <3>6 DEF b
    <2>3. CASE /\ room /\ obs.prov \notin DOMAIN cand.arr
               /\ pending' = with([cand EXCEPT !.arr = Put(@, obs.prov, obs.at)])
        <3> DEFINE d == [cand EXCEPT !.arr = Put(@, obs.prov, obs.at)]
                   b == [p EXCEPT !.cands = Put(@, Content, d)]
        <3>1. /\ b = [first |-> p.first, cands |-> Put(p.cands, Content, d), heard |-> p.heard]
              /\ b.first = p.first /\ b.cands = Put(p.cands, Content, d) /\ b.heard = p.heard
            BY <1>5, BodyUpdates
        <3>2. /\ cand = [first |-> cand.first, arr |-> cand.arr]
              /\ known => cand.arr = base.cands[Content].arr
              /\ ~known => DOMAIN cand.arr = {}
            BY <1>4, <1>5 DEF Faithful
        <3> HIDE DEF cand
        <3>3. /\ d = [first |-> cand.first, arr |-> d.arr]
              /\ d.first = cand.first /\ d.arr = Put(cand.arr, obs.prov, obs.at)
            BY <3>2
        <3> HIDE DEF b, d
        <3>4. /\ DOMAIN b.cands = DOMAIN base.cands \cup {Content}
              /\ b.cands[Content] = d
              /\ \A c \in DOMAIN base.cands : c # Content => b.cands[c] = base.cands[c]
            BY <1>5, <3>1 DEF Put
        <3>5. /\ DOMAIN d.arr = DOMAIN cand.arr \cup {obs.prov} /\ d.arr[obs.prov] = obs.at
              /\ \A q \in DOMAIN cand.arr : d.arr[q] = cand.arr[q]
            BY <2>3, <3>3 DEF Put
        <3>6. h \in b.heard /\ h.kept /\ b.heard = base.heard \cup {h}
            BY <1>5, <1>6, <2>3, <3>1
        <3>7. ASSUME NEW c \in DOMAIN b.cands
              PROVE  /\ b.cands[c] = [first |-> b.cands[c].first, arr |-> b.cands[c].arr]
                     /\ \A q \in DOMAIN b.cands[c].arr :
                            \E g \in b.heard : /\ g.kept /\ g.content = c /\ g.prov = q
                                               /\ g.at = b.cands[c].arr[q]
            BY <1>4, <1>6, <3>2, <3>3, <3>4, <3>5, <3>6 DEF Faithful
        <3>8. ASSUME NEW g \in b.heard, g.kept
              PROVE  /\ g.content \in DOMAIN b.cands
                     /\ g.prov \in DOMAIN b.cands[g.content].arr
                     /\ b.cands[g.content].arr[g.prov] <= g.at
            <4>1. CASE g = h
                BY <1>3, <1>6, <3>4, <3>5, <4>1
            <4>2. CASE g \in base.heard
                BY <1>4, <2>3, <3>2, <3>4, <3>5, <3>8, <4>2 DEF Faithful
            <4>3. QED
                BY <3>6, <4>1, <4>2
        <3>9. Faithful(b)
            BY <3>1, <3>7, <3>8 DEF Faithful
        <3>10. QED
            BY <2>3, <3>1, <3>9 DEF b, d
    <2>4. QED
        BY <1>2, <2>1, <2>2, <2>3
<1>10. /\ DOMAIN pending' = DOMAIN pending \cup {Claimed} /\ pending'[Claimed] = b
       /\ \A x \in DOMAIN pending : x # Claimed => pending'[x] = pending[x]
    BY <1>9 DEF Put
<1>11. Shape' /\ Ordered'
    BY <1>1, ParametersStay DEF AInv, Shape, Ordered, Succeeds, Follows
<1>12. HeardBefore'
    <2>1. \A q, x, t : After(q, x, t)' <=> After(q, x, t)
        BY <1>1, ParametersStay DEF After, Follows
    <2>2. \A x \in DOMAIN pending' : \A g \in pending'[x].heard :
            g.prov \in Providers /\ After(g.prov, x, g.at)
        BY <1>8, <1>9, <1>10 DEF AInv, HeardBefore
    <2>3. QED
        BY <1>1, <2>1, <2>2, ParametersStay DEF HeardBefore
<1>13. Bodies'
    BY <1>7, <1>9, <1>10 DEF AInv, Bodies, Faithful, Least
<1>14. ExpiredPending'
    BY <1>1 DEF ExpiredPending
<1>15. Sealing' /\ Verdicts'
    BY <1>1, SettledStay
<1>16. QED
    BY <1>11, <1>12, <1>13, <1>14, <1>15 DEF AInv
-----------------------------------------------------------------------------
(* The theorems. *)

\* The invariant of admission: the stamps of a provider for a base stay in order, and all the
\* stamps of a provider when they do not lag; a pending base is what
\* was heard of it, and a verdict is what was sealed (src/benchmark.rs, record_market, settle
\* and finalize_candidate; src/model.rs, ProbeSender::send).
THEOREM AdmissionInvariant == Spec => []AInv
<1>1. Init => AInv
    <2>1. ASSUME Init
          PROVE  /\ Shape /\ \A p \in Providers : stamped[p] = <<>>
                 /\ queue = <<>> /\ loop = "idle" /\ DOMAIN pending = {} /\ final = {} /\ verdicts = {}
        BY <2>1 DEF Init, Shape
    <2>2. QED
        BY <2>1, EmptySeq DEF AInv, Ordered, HeardBefore, Bodies, Sealing, Verdicts, ExpiredPending
<1>2. AInv /\ [Next]_vars => AInv'
    <2> SUFFICES ASSUME AInv, [Next]_vars PROVE AInv'
        OBVIOUS
    <2>1. CASE Receipt
        BY <2>1, StampKeeps, SendKeeps, AdvanceKeeps DEF Receipt
    <2>2. CASE RecordAnomaly \/ BeginRecord
        BY <2>2, AnomalyKeeps, BeginRecordKeeps
    <2>3. CASE RecordExpired
        BY <2>3, SettleKeeps DEF RecordExpired, IsExpired, IsPending, receiptVars
    <2>4. CASE RecordSealed \/ EndRecord \/ EndTick
        <3>1. final = {}
            BY <2>4 DEF RecordSealed, EndRecord, EndTick, AInv, Sealing
        <3>2. /\ loop' = "idle"
              /\ UNCHANGED <<config, clock, stamped, queue, final, pending, verdicts>>
            BY <2>4 DEF RecordSealed, EndRecord, EndTick, Return, receiptVars, mapVars, historyVars
        <3>3. QED
            BY <3>1, <3>2, LoopKeeps
    <2>5. CASE RecordMakesRoom
        <3>1. PICK b \in Oldest([x \in DOMAIN pending |-> pending[x].first]) : Settle(b, TRUE)
            BY <2>5 DEF RecordMakesRoom
        <3>2. b \in DOMAIN pending
            BY <3>1 DEF Oldest
        <3>3. QED
            BY <2>5, <3>1, <3>2, SettleKeeps DEF RecordMakesRoom, receiptVars
    <2>6. CASE RecordAdmitted
        BY <2>6, AdmittedKeeps
    <2>7. CASE SettleImmediately
        <3>1. final = {}
            BY <2>7 DEF SettleImmediately, IsPending, AInv, Sealing
        <3>2. QED
            BY <2>7, <3>1, SettleKeeps DEF SettleImmediately, IsPending, receiptVars
    <2>8. CASE BeginTick
        <3>1. final = {}
            BY <2>8 DEF BeginTick, AInv, Sealing
        <3>2. /\ loop' = "tick" /\ expired' \subseteq DOMAIN pending
              /\ UNCHANGED <<config, clock, stamped, queue, final, pending, verdicts>>
            BY <2>8 DEF BeginTick, receiptVars, mapVars, historyVars
        <3>3. QED
            BY <3>1, <3>2, LoopKeeps
    <2>9. CASE SettleExpired
        <3>1. PICK b \in expired : Settle(b, FALSE) /\ expired' = expired \ {b}
            BY <2>9 DEF SettleExpired
        <3>2. b \in DOMAIN pending
            BY <2>9, <3>1 DEF SettleExpired, AInv, ExpiredPending
        <3>3. QED
            BY <2>9, <3>1, <3>2, SettleKeeps DEF SettleExpired, receiptVars
    <2>10. CASE Prune
        <3>1. /\ final = {} /\ loop' = "view"
              /\ UNCHANGED <<config, clock, stamped, queue, final, pending, verdicts>>
            BY <2>10 DEF Prune, receiptVars, historyVars
        <3>2. QED
            BY <3>1, LoopKeeps
    <2>11. CASE Finalize
        BY <2>11, FinalizeKeeps
    <2>12. CASE UNCHANGED vars
        <3>1. UNCHANGED <<config, clock, stamped, queue, loop, obs, expired, sealing, final, pending, verdicts>>
            BY <2>12 DEF vars, receiptVars, handlerVars, mapVars, historyVars
        <3>2. Shape' /\ Ordered'
            BY <3>1, ParametersStay DEF AInv, Shape, Ordered, After, Succeeds, Follows
        <3>3. HeardBefore'
            BY <3>1, ParametersStay DEF AInv, HeardBefore, After, Follows, Claimed
        <3>4. QED
            BY <3>1, <3>2, <3>3, ReceiptKeeps
    <2>13. QED
        BY <2>1, <2>2, <2>3, <2>4, <2>5, <2>6, <2>7, <2>8, <2>9, <2>10, <2>11, <2>12
           DEF Next, Record, Tick
<1>3. QED
    BY <1>1, <1>2, PTL DEF Spec

\* Which providers matched follows from the stamps of what was heard of the base, and every
\* content its reference delivered in time has a verdict, in whatever order and however late the
\* queue gave them (src/benchmark.rs, record_market and settle).
THEOREM AdmissionIsExact == Spec => []AdmissionExact
<1>1. AInv => AdmissionExact
    <2> SUFFICES ASSUME AInv, NEW v \in verdicts
                 PROVE  LET opening == Min({h.at : h \in v.heard})
                            inTime(c) == {h.prov : h \in {g \in v.heard :
                                            g.kept /\ g.content = c /\ g.at - opening < Timeout}}
                        IN
                        /\ v.matched = inTime(v.key[2])
                        /\ final = {} => \A c \in Contents :
                            (IF AnyArrival THEN inTime(c) # {} ELSE Reference \in inTime(c)) =>
                                \E w \in verdicts : w.key = <<v.key[1], c>> /\ w.heard = v.heard
        BY DEF AdmissionExact
    <2>1. ExactVerdict(v)
        BY DEF AInv, Verdicts
    <2>2. Min({h.at : h \in v.heard}) = v.first
        BY <2>1, LeastIsMin DEF ExactVerdict
    <2>3. QED
        BY <2>1, <2>2 DEF ExactVerdict, InTime, Owed, HasVerdict
<1>2. QED
    BY <1>1, AdmissionInvariant, PTL
-----------------------------------------------------------------------------
(* Sequences: the ring's insertion, and what retain keeps. *)

\* g takes in the entries of s at the positions K, one position after the other, up to n.
IsKeeping(s, K, n, g) ==
    g = [k \in 0 .. n |-> IF k = 0 THEN <<>>
                          ELSE IF k \in K THEN Append(g[k - 1], s[k]) ELSE g[k - 1]]

\* There is such a g for every length.
LEMMA KeepingExists ==
    ASSUME NEW s, NEW K, NEW n \in Nat
    PROVE  \E g : IsKeeping(s, K, n, g)
<1> DEFINE Bad == {k \in Nat : ~\E g : IsKeeping(s, K, k, g)}
<1> SUFFICES ASSUME Bad # {} PROVE FALSE OBVIOUS
<1>1. PICK k \in Bad : \A j \in Bad : k <= j
    <2> HIDE DEF Bad
    <2>1. Bad \subseteq Nat
        BY DEF Bad
    <2>2. QED
        BY <2>1, LeastNumber
<1>2. CASE k = 0
    <2> DEFINE g == [j \in 0 .. 0 |-> <<>>]
    <2>1. \A j \in 0 .. 0 : g[j] = IF j = 0 THEN <<>>
                                   ELSE IF j \in K THEN Append(g[j - 1], s[j]) ELSE g[j - 1]
        OBVIOUS
    <2>2. g = [j \in 0 .. 0 |-> g[j]]
        OBVIOUS
    <2> HIDE DEF g
    <2>3. g = [j \in 0 .. 0 |-> IF j = 0 THEN <<>>
                                ELSE IF j \in K THEN Append(g[j - 1], s[j]) ELSE g[j - 1]]
        BY <2>1, <2>2
    <2>4. IsKeeping(s, K, 0, g)
        BY <2>3 DEF IsKeeping
    <2>5. QED
        BY <1>2, <2>4
<1>3. CASE k # 0
    <2>1. k - 1 \in Nat /\ k - 1 \notin Bad /\ k \in Nat
        BY <1>1, <1>3
    <2>2. PICK g : IsKeeping(s, K, k - 1, g)
        BY <2>1
    <2>3. \A j \in 0 .. k - 1 : g[j] = IF j = 0 THEN <<>>
                                       ELSE IF j \in K THEN Append(g[j - 1], s[j]) ELSE g[j - 1]
        BY <2>2 DEF IsKeeping
    <2> DEFINE h == [j \in 0 .. k |->
                       IF j < k THEN g[j]
                       ELSE IF k \in K THEN Append(g[k - 1], s[k]) ELSE g[k - 1]]
    <2>4. ASSUME NEW j \in 0 .. k
          PROVE  h[j] = IF j = 0 THEN <<>>
                        ELSE IF j \in K THEN Append(h[j - 1], s[j]) ELSE h[j - 1]
        <3>1. j # 0 => j - 1 \in 0 .. k /\ j - 1 < k
            BY <2>1
        <3>2. j # 0 => h[j - 1] = g[j - 1]
            BY <3>1
        <3>3. CASE j < k
            <4>1. j \in 0 .. k - 1 /\ h[j] = g[j]
                BY <2>1, <3>3
            <4>2. QED
                BY <2>3, <3>2, <4>1
        <3>4. CASE j = k
            BY <1>3, <3>2, <3>4
        <3>5. QED
            BY <2>1, <3>3, <3>4
    <2>5. h = [j \in 0 .. k |-> h[j]]
        OBVIOUS
    <2> HIDE DEF h
    <2>6. h = [j \in 0 .. k |-> IF j = 0 THEN <<>>
                                ELSE IF j \in K THEN Append(h[j - 1], s[j]) ELSE h[j - 1]]
        BY <2>4, <2>5
    <2>7. IsKeeping(s, K, k, h)
        BY <2>6 DEF IsKeeping
    <2>8. QED
        BY <2>7
<1>4. QED
    BY <1>2, <1>3

\* r is s at the positions K up to n, in their order; m says which entry is from where.
IsThinned(r, m, s, K, n) ==
    /\ DOMAIN m = DOMAIN r
    /\ \A i \in DOMAIN r : m[i] \in K /\ m[i] \in 1 .. n /\ r[i] = s[m[i]]
    /\ \A i, j \in DOMAIN r : i < j => m[i] < m[j]
    /\ \A k \in K : k \in 1 .. n => \E i \in DOMAIN r : m[i] = k

\* What is kept of a sequence is its entries at the positions kept, in their order.
LEMMA KeptThins ==
    ASSUME NEW V, NEW s \in Seq(V), NEW K, K \subseteq DOMAIN s
    PROVE  Kept(s, K) \in Seq(V) /\ \E m : IsThinned(Kept(s, K), m, s, K, Len(s))
<1>1. Len(s) \in Nat /\ DOMAIN s = 1 .. Len(s)
    BY LenProperties
<1>2. PICK g : g = (CHOOSE h : IsKeeping(s, K, Len(s), h))
    OBVIOUS
<1>3. Kept(s, K) = g[Len(s)]
    BY <1>2, Zenon DEF Kept, IsKeeping
<1>4. IsKeeping(s, K, Len(s), g)
    BY <1>1, <1>2, KeepingExists
<1>5. \A k \in 0 .. Len(s) : g[k] = IF k = 0 THEN <<>>
                                    ELSE IF k \in K THEN Append(g[k - 1], s[k]) ELSE g[k - 1]
    BY <1>4 DEF IsKeeping
<1> DEFINE Bad == {k \in 0 .. Len(s) : ~(g[k] \in Seq(V) /\ \E m : IsThinned(g[k], m, s, K, k))}
<1>6. ASSUME Bad # {}
      PROVE  FALSE
    <2>1. PICK k \in Bad : \A j \in Bad : k <= j
        <3> HIDE DEF Bad
        <3>1. Bad \subseteq Nat
            BY <1>1 DEF Bad
        <3>2. QED
            BY <1>6, <3>1, LeastNumber
    <2>2. CASE k = 0
        <3>0. g[0] = <<>>
            BY <1>1, <1>5
        <3>1. g[k] = <<>> /\ g[k] \in Seq(V)
            BY <2>2, <3>0, EmptySeq
        <3>2. DOMAIN g[k] = {}
            BY <3>1
        <3> DEFINE m == [i \in {} |-> 0]
        <3>3. IsThinned(g[k], m, s, K, k)
            BY <2>2, <3>2 DEF IsThinned
        <3>4. QED
            BY <3>1, <3>3
    <2>3. CASE k # 0
        <3>1. k - 1 \in 0 .. Len(s) /\ k \in 1 .. Len(s) /\ k - 1 \notin Bad /\ k \in Nat
            BY <1>1, <2>1, <2>3
        <3>2. g[k - 1] \in Seq(V)
            BY <3>1
        <3>3. PICK m : IsThinned(g[k - 1], m, s, K, k - 1)
            BY <3>1
        <3>4. g[k] = IF k \in K THEN Append(g[k - 1], s[k]) ELSE g[k - 1]
            BY <1>5, <2>3, <3>1
        <3> PICK r, q : r = g[k - 1] /\ q = g[k]
            OBVIOUS
        <3> HIDE DEF Bad
        <3>5. CASE k \notin K
            <4>1. q = r /\ q \in Seq(V)
                BY <3>2, <3>4, <3>5
            <4>2. IsThinned(q, m, s, K, k)
                BY <3>1, <3>3, <3>5, <4>1 DEF IsThinned
            <4>3. QED
                BY <4>1, <4>2 DEF Bad
        <3>6. CASE k \in K
            <4> DEFINE l == Len(r) + 1
                       mm == [i \in 1 .. l |-> IF i = l THEN k ELSE m[i]]
            <4>1. s[k] \in V
                BY <1>1, <3>1
            <4>2. /\ q = Append(r, s[k]) /\ r \in Seq(V) /\ Len(r) \in Nat
                  /\ DOMAIN r = 1 .. Len(r)
                BY <3>2, <3>4, <3>6, LenProperties
            <4>3. /\ q \in Seq(V) /\ DOMAIN q = 1 .. l /\ q[l] = s[k]
                  /\ \A i \in 1 .. Len(r) : q[i] = r[i]
                BY <4>1, <4>2, AppendProperties
            <4>4. /\ \A i \in DOMAIN r : m[i] \in K /\ m[i] \in 1 .. k - 1 /\ r[i] = s[m[i]]
                  /\ \A i, j \in DOMAIN r : i < j => m[i] < m[j]
                  /\ \A x \in K : x \in 1 .. k - 1 => \E i \in DOMAIN r : m[i] = x
                BY <3>3 DEF IsThinned
            <4>5. /\ DOMAIN mm = 1 .. l /\ mm[l] = k
                  /\ \A i \in 1 .. Len(r) : mm[i] = m[i]
                BY <4>2
            <4>6. \A i \in 1 .. l : i = l \/ i \in 1 .. Len(r)
                BY <4>2
            <4> HIDE DEF mm, l
            <4>7. \A i \in DOMAIN q : mm[i] \in K /\ mm[i] \in 1 .. k /\ q[i] = s[mm[i]]
                <5>1. SUFFICES ASSUME NEW i \in 1 .. l PROVE mm[i] \in K /\ mm[i] \in 1 .. k /\ q[i] = s[mm[i]]
                    BY <4>3
                <5>2. CASE i = l
                    BY <3>1, <3>6, <4>3, <4>5, <5>2
                <5>3. CASE i \in 1 .. Len(r)
                    <6>1. mm[i] = m[i] /\ q[i] = r[i] /\ i \in DOMAIN r
                        BY <4>2, <4>3, <4>5, <5>3
                    <6>2. m[i] \in K /\ m[i] \in 1 .. k - 1 /\ r[i] = s[m[i]]
                        BY <4>4, <6>1
                    <6>3. m[i] \in 1 .. k
                        BY <3>1, <6>2
                    <6>4. QED
                        BY <6>1, <6>2, <6>3
                <5>4. QED
                    BY <4>6, <5>2, <5>3
            <4>8. \A i, j \in DOMAIN q : i < j => mm[i] < mm[j]
                <5>1. SUFFICES ASSUME NEW i \in 1 .. l, NEW j \in 1 .. l, i < j PROVE mm[i] < mm[j]
                    BY <4>3
                <5>2. i \in 1 .. Len(r)
                    BY <4>2, <5>1 DEF l
                <5>3. mm[i] = m[i] /\ m[i] \in 1 .. k - 1
                    BY <4>2, <4>4, <4>5, <5>2
                <5>4. CASE j = l
                    BY <3>1, <4>5, <5>3, <5>4
                <5>5. CASE j # l
                    BY <4>2, <4>4, <4>5, <4>6, <5>1, <5>2, <5>5
                <5>6. QED
                    BY <5>4, <5>5
            <4>9. \A x \in K : x \in 1 .. k => \E i \in DOMAIN q : mm[i] = x
                <5>1. SUFFICES ASSUME NEW x \in K, x \in 1 .. k PROVE \E i \in DOMAIN q : mm[i] = x
                    OBVIOUS
                <5>2. CASE x = k
                    <6>1. l \in DOMAIN q
                        BY <4>2, <4>3 DEF l
                    <6>2. QED
                        BY <4>5, <5>2, <6>1
                <5>3. CASE x # k
                    <6>1. x \in 1 .. k - 1
                        BY <3>1, <5>1, <5>3
                    <6>2. PICK i \in DOMAIN r : m[i] = x
                        BY <4>4, <6>1
                    <6>3. i \in DOMAIN q /\ mm[i] = x
                        BY <4>2, <4>3, <4>5, <6>2 DEF l
                    <6>4. QED
                        BY <6>3
                <5>4. QED
                    BY <5>2, <5>3
            <4>10. IsThinned(q, mm, s, K, k)
                BY <4>3, <4>5, <4>7, <4>8, <4>9 DEF IsThinned
            <4>11. QED
                BY <4>3, <4>10 DEF Bad
        <3>7. QED
            BY <3>5, <3>6
    <2>4. QED
        BY <2>2, <2>3
<1>7. Len(s) \in 0 .. Len(s) /\ Len(s) \notin Bad
    BY <1>1, <1>6
<1>8. QED
    BY <1>3, <1>7

\* r is s with x taken in at position k.
IsInserted(r, k, s, x) ==
    \A i \in 1 .. Len(s) + 1 : r[i] = IF i < k THEN s[i] ELSE IF i = k THEN x ELSE s[i - 1]

\* The ring takes in an entry at one position, and keeps the order of the others.
LEMMA InsertsAt ==
    ASSUME NEW V, NEW s \in Seq(V), NEW x \in V, NEW r, r = InsertByTime(s, x)
    PROVE  /\ r \in Seq(V) /\ Len(r) = Len(s) + 1
           /\ \E k \in 1 .. Len(s) + 1 : IsInserted(r, k, s, x)
<1> DEFINE I     == {i \in 1 .. Len(s) : s[i].at > x.at}
           later == IF I # {} THEN Min(I) ELSE 0
           k     == IF later = 0 THEN Len(s) + 1 ELSE later
<1>1. Len(s) \in Nat /\ DOMAIN s = 1 .. Len(s) /\ \A i \in 1 .. Len(s) : s[i] \in V
    BY LenProperties
<1>2. I # {} => Min(I) \in I
    <2>1. I \subseteq Nat
        OBVIOUS
    <2> HIDE DEF I
    <2>2. I # {} => \E m \in I : \A u \in I : m <= u
        BY <2>1, LeastNumber
    <2>3. QED
        BY <2>2 DEF Min
<1>3. k \in 1 .. Len(s) + 1
    <2>1. I # {} => Min(I) \in 1 .. Len(s)
        BY <1>2
    <2> HIDE DEF I
    <2>2. QED
        BY <1>1, <2>1
<1>4. r = SubSeq(s, 1, k - 1) \o <<x>> \o SubSeq(s, k, Len(s))
    BY Zenon DEF InsertByTime, SelectInSeq, InsertAt
<1> HIDE DEF k
<1> DEFINE a == SubSeq(s, 1, k - 1)
           b == SubSeq(s, k, Len(s))
<1>5. /\ a \in Seq(V) /\ Len(a) = k - 1 /\ \A i \in 1 .. k - 1 : a[i] = s[i]
    <2>1. k - 1 \in Int /\ \A i \in 1 .. k - 1 : s[i] \in V
        BY <1>1, <1>3
    <2>2. /\ a \in Seq(V) /\ Len(a) = IF 1 <= k - 1 THEN k - 1 - 1 + 1 ELSE 0
          /\ \A i \in 1 .. k - 1 - 1 + 1 : a[i] = s[1 + i - 1]
        BY <2>1, SubSeqProperties
    <2> HIDE DEF a
    <2>3. QED
        BY <1>3, <2>2
<1>6. /\ b \in Seq(V) /\ Len(b) = Len(s) - k + 1
      /\ \A i \in 1 .. Len(s) - k + 1 : b[i] = s[k + i - 1]
    <2>1. k \in Int /\ Len(s) \in Int /\ \A i \in k .. Len(s) : s[i] \in V
        BY <1>1, <1>3
    <2>2. /\ b \in Seq(V) /\ Len(b) = IF k <= Len(s) THEN Len(s) - k + 1 ELSE 0
          /\ \A i \in 1 .. Len(s) - k + 1 : b[i] = s[k + i - 1]
        BY <2>1, SubSeqProperties
    <2> HIDE DEF b
    <2>3. QED
        BY <1>1, <1>3, <2>2
<1> HIDE DEF a, b
<1> DEFINE c == a \o <<x>>
<1>7. /\ c \in Seq(V) /\ Len(c) = k
      /\ \A i \in 1 .. k : c[i] = IF i < k THEN s[i] ELSE x
    <2>1. <<x>> \in Seq(V) /\ Len(<<x>>) = 1 /\ <<x>>[1] = x
        OBVIOUS
    <2>2. /\ c \in Seq(V) /\ Len(c) = Len(a) + Len(<<x>>)
          /\ \A i \in 1 .. Len(a) + Len(<<x>>) :
                c[i] = IF i <= Len(a) THEN a[i] ELSE <<x>>[i - Len(a)]
        BY <1>5, <2>1, ConcatProperties
    <2>3. ASSUME NEW i \in 1 .. k
          PROVE  c[i] = IF i < k THEN s[i] ELSE x
        <3>1. CASE i < k
            BY <1>1, <1>3, <1>5, <2>1, <2>2, <3>1
        <3>2. CASE i = k
            <4>1. i - Len(a) = 1 /\ ~(i <= Len(a)) /\ i \in 1 .. Len(a) + Len(<<x>>)
                BY <1>1, <1>3, <1>5, <2>1, <3>2
            <4>2. c[i] = <<x>>[i - Len(a)]
                BY <2>2, <4>1
            <4>3. QED
                BY <2>1, <3>2, <4>1, <4>2
        <3>3. i < k \/ i = k
            BY <1>1, <1>3
        <3>4. QED
            BY <3>1, <3>2, <3>3
    <2> HIDE DEF c
    <2>4. QED
        BY <1>3, <1>5, <2>1, <2>2, <2>3
<1> HIDE DEF c
<1>8. /\ c \o b \in Seq(V) /\ Len(c \o b) = Len(s) + 1
      /\ \A i \in 1 .. Len(s) + 1 : (c \o b)[i] = IF i <= k THEN c[i] ELSE b[i - k]
    <2>1. /\ c \o b \in Seq(V) /\ Len(c \o b) = Len(c) + Len(b)
          /\ \A i \in 1 .. Len(c) + Len(b) :
                (c \o b)[i] = IF i <= Len(c) THEN c[i] ELSE b[i - Len(c)]
        BY <1>6, <1>7, ConcatProperties
    <2>2. Len(c) + Len(b) = Len(s) + 1
        BY <1>1, <1>3, <1>6, <1>7
    <2>3. QED
        BY <1>7, <2>1, <2>2
<1>9. r = c \o b
    BY <1>4 DEF c, a, b
<1>10. ASSUME NEW i \in 1 .. Len(s) + 1
       PROVE  r[i] = IF i < k THEN s[i] ELSE IF i = k THEN x ELSE s[i - 1]
    <2>1. r[i] = IF i <= k THEN c[i] ELSE b[i - k]
        BY <1>8, <1>9
    <2>2. i > k => i - k \in 1 .. Len(s) - k + 1 /\ k + (i - k) - 1 = i - 1
        BY <1>1, <1>3
    <2>3. i > k => b[i - k] = s[i - 1]
        BY <1>6, <2>2
    <2>4. i <= k => i \in 1 .. k
        BY <1>3
    <2>5. QED
        BY <1>3, <1>7, <2>1, <2>3, <2>4
<1>11. IsInserted(r, k, s, x)
    BY <1>10 DEF IsInserted
<1>12. QED
    BY <1>3, <1>8, <1>9, <1>11

\* What the ring holds after taking in x: entries of s, and x at the positions m calls 0.
IsPushed(r, m, s, x) ==
    /\ DOMAIN m = DOMAIN r
    /\ \A i \in DOMAIN r : m[i] \in 0 .. Len(s) /\ r[i] = IF m[i] = 0 THEN x ELSE s[m[i]]
    /\ \A i, j \in DOMAIN r : m[i] = m[j] => i = j
    /\ ~Overflows(s) => \A j \in 0 .. Len(s) : \E i \in DOMAIN r : m[i] = j

\* A push loses nothing unless the ring overflows, and adds the entry once.
LEMMA PushedHolds ==
    ASSUME NEW V, NEW s \in Seq(V), NEW x \in V, MaxRolling \in Nat \ {0}
    PROVE  Pushed(s, x) \in Seq(V) /\ \E m : IsPushed(Pushed(s, x), m, s, x)
<1> PICK l : l = InsertByTime(s, x)
    OBVIOUS
<1>0. l \in Seq(V) /\ Len(l) = Len(s) + 1 /\ \E k \in 1 .. Len(s) + 1 : IsInserted(l, k, s, x)
    BY InsertsAt
<1>1. PICK k \in 1 .. Len(s) + 1 : IsInserted(l, k, s, x)
    BY <1>0
<1>2. Len(s) \in Nat /\ DOMAIN l = 1 .. Len(s) + 1
    BY <1>0, LenProperties
<1> DEFINE from(i) == IF i < k THEN i ELSE IF i = k THEN 0 ELSE i - 1
<1>3. \A i \in 1 .. Len(s) + 1 : /\ from(i) \in 0 .. Len(s)
                                 /\ l[i] = IF from(i) = 0 THEN x ELSE s[from(i)]
    BY <1>1, <1>2 DEF IsInserted
<1>4. \A i, j \in 1 .. Len(s) + 1 : from(i) = from(j) => i = j
    BY <1>1, <1>2
<1>5. \A j \in 0 .. Len(s) : \E i \in 1 .. Len(s) + 1 : from(i) = j
    <2>1. SUFFICES ASSUME NEW j \in 0 .. Len(s) PROVE \E i \in 1 .. Len(s) + 1 : from(i) = j
        OBVIOUS
    <2>2. CASE j = 0
        BY <1>1, <2>2
    <2>3. CASE j # 0 /\ j < k
        <3>1. j \in 1 .. Len(s) + 1 /\ from(j) = j
            BY <1>2, <2>3
        <3>2. QED
            BY <3>1
    <2>4. CASE j >= k
        <3>1. j + 1 \in 1 .. Len(s) + 1 /\ from(j + 1) = j
            BY <1>1, <1>2, <2>4
        <3>2. QED
            BY <3>1
    <2>5. QED
        BY <1>1, <2>2, <2>3, <2>4
<1> HIDE DEF from
<1>6. CASE Overflows(s)
    <2>1. Pushed(s, x) = Tail(l) /\ l # <<>>
        BY <1>0, <1>2, <1>6 DEF Pushed, Overflows
    <2> PICK r : r = Tail(l)
        OBVIOUS
    <2>2. r \in Seq(V) /\ Len(r) = Len(s) /\ DOMAIN r = 1 .. Len(s)
        BY <1>0, <1>2, <2>1, HeadTailProperties, LenProperties
    <2>3. \A i \in 1 .. Len(s) : r[i] = l[i + 1]
        BY <1>0, <2>1, <2>2, HeadTailProperties
    <2> DEFINE m == [i \in 1 .. Len(s) |-> from(i + 1)]
    <2>4. \A i \in 1 .. Len(s) : i + 1 \in 1 .. Len(s) + 1 /\ m[i] = from(i + 1)
        BY <1>2
    <2>5. DOMAIN m = 1 .. Len(s)
        OBVIOUS
    <2> HIDE DEF m
    <2>6. \A i \in 1 .. Len(s) : m[i] \in 0 .. Len(s) /\ r[i] = IF m[i] = 0 THEN x ELSE s[m[i]]
        BY <1>3, <2>3, <2>4
    <2>7. \A i, j \in 1 .. Len(s) : m[i] = m[j] => i = j
        <3>1. SUFFICES ASSUME NEW i \in 1 .. Len(s), NEW j \in 1 .. Len(s), m[i] = m[j] PROVE i = j
            OBVIOUS
        <3>2. i + 1 = j + 1
            BY <1>4, <2>4, <3>1
        <3>3. QED
            BY <3>2
    <2>8. IsPushed(r, m, s, x)
        BY <1>6, <2>2, <2>5, <2>6, <2>7 DEF IsPushed
    <2>9. QED
        BY <2>1, <2>2, <2>8
<1>7. CASE ~Overflows(s)
    <2>1. Pushed(s, x) = l
        BY <1>0, <1>2, <1>7 DEF Pushed, Overflows
    <2> DEFINE m == [i \in 1 .. Len(s) + 1 |-> from(i)]
    <2>2. /\ DOMAIN m = 1 .. Len(s) + 1 /\ \A i \in 1 .. Len(s) + 1 : m[i] = from(i)
        OBVIOUS
    <2> HIDE DEF m
    <2>3. \A i \in 1 .. Len(s) + 1 : m[i] \in 0 .. Len(s) /\ l[i] = IF m[i] = 0 THEN x ELSE s[m[i]]
        BY <1>3, <2>2
    <2>5. \A i, j \in 1 .. Len(s) + 1 : m[i] = m[j] => i = j
        BY <1>4, <2>2
    <2>6. \A j \in 0 .. Len(s) : \E i \in 1 .. Len(s) + 1 : m[i] = j
        BY <1>5, <2>2
    <2>7. IsPushed(l, m, s, x)
        BY <1>2, <2>2, <2>3, <2>5, <2>6 DEF IsPushed
    <2>4. QED
        BY <1>0, <2>1, <2>7
<1>8. QED
    BY <1>6, <1>7
-----------------------------------------------------------------------------
(* Types. *)

ArrivalsTyped(arr) == DOMAIN arr \subseteq Providers /\ \A q \in DOMAIN arr : arr[q] \in Times

BaseTyped(p) ==
    /\ p.first \in Times
    /\ DOMAIN p.cands \subseteq Contents /\ IsFiniteSet(DOMAIN p.cands)
    /\ \A c \in DOMAIN p.cands :
        p.cands[c].first \in Times /\ ArrivalsTyped(p.cands[c].arr)

ReceiptTyped ==
    /\ clock \in Times /\ left \in 0 .. MaxArrivals
    /\ \A p \in Providers : stamped[p] = <<>> \/ \E o \in Observation : stamped[p] = <<o>>
    /\ queue \in Seq(Observation) /\ Len(queue) <= QueueCap
    /\ dropped \in [Providers -> Nat]

HandlerTyped ==
    /\ loop \in LoopStates /\ now \in Times /\ obs \in Observation
    /\ loop \in {"record", "admitted"} => obs.claim # Anomaly /\ now = obs.at
    /\ loop \in {"tick", "view"} => now = clock
    /\ expired \subseteq DOMAIN pending
    /\ loop # "tick" => expired = {}

PendingTyped ==
    /\ DOMAIN pending \subseteq Bases /\ IsFiniteSet(DOMAIN pending)
    /\ \A b \in DOMAIN pending : BaseTyped(pending[b])

FinalTyped ==
    /\ \A f \in final : f.content \in Contents /\ f.first \in Times /\ ArrivalsTyped(f.arr)
    /\ \A f, g \in final : f.content = g.content => f = g
    /\ final # {} => sealing.base \in Bases
    /\ IsFiniteSet(final)

RingTyped(r) == r \in Seq(Range(r)) /\ \A i \in DOMAIN r : r[i].at \in Times

WindowTyped ==
    /\ DOMAIN settledBases \subseteq Bases
    /\ \A b \in DOMAIN settledBases : settledBases[b] \in Times
    /\ DOMAIN settled \subseteq Bases \X Contents
    /\ RingTyped(cohorts) /\ RingTyped(coverage)
    /\ lastLoss \in Times \cup {NoLoss} /\ evictions \in Nat
    /\ evictions # 0 => lastLoss # NoLoss
    /\ \A v \in verdicts : v.at \in Times

CountTyped == count \in [Providers -> [Counters -> Nat]]

Typed == ReceiptTyped /\ HandlerTyped /\ PendingTyped /\ FinalTyped /\ WindowTyped /\ CountTyped
-----------------------------------------------------------------------------
(* What the window holds. *)

\* One source: what it reports of a base is sealed at once.
Alone == Cardinality(Providers) = 1

\* And its stamps do not lag, so that all of them reach the loop in their order.
Steady == Alone /\ Lag = 0

\* Everything to come was stamped at t or later.
Past(t) ==
    /\ \A b : \A p \in Providers : After(p, b, t)
    /\ loop \in {"record", "admitted"} => t <= now

\* What the window holds or was told it lost is past.
HeldPast ==
    /\ loop \in {"record", "admitted"} => Past(now)
    /\ lastLoss # NoLoss => Past(lastLoss)
    /\ \A v \in verdicts : Past(v.at)
    /\ \A i \in DOMAIN coverage : Past(coverage[i].at)
    /\ \A i \in DOMAIN cohorts : Past(cohorts[i].at)

\* With one source a base is sealed by the observation that opens it.
AtOnce ==
    /\ loop # "admitted" => DOMAIN pending = {} /\ final = {}
    /\ DOMAIN pending \subseteq {Claimed}
    /\ \A b \in DOMAIN pending : \A c \in DOMAIN pending[b].cands :
        \A q \in DOMAIN pending[b].cands[c].arr : pending[b].cands[c].arr[q] = now
    /\ \A f \in final : \A q \in DOMAIN f.arr : f.arr[q] = now
    /\ Lag = 0 => HeldPast

\* A base is pending or sealed; a tombstone has the time of the handler that sealed it, and
\* nothing of the base arrived after that, unless it was evicted.
Tombstones ==
    /\ DOMAIN pending \cap DOMAIN settledBases = {}
    /\ loop = "tick" => \A b \in expired : Since(now, pending[b].first) >= Timeout
    /\ loop = "view" => \A i \in DOMAIN coverage : Since(now, coverage[i].at) <= Window
    /\ loop = "view" => \A i \in DOMAIN cohorts : Since(now, cohorts[i].at) <= Window
    /\ final # {} => sealing.base \in DOMAIN settledBases /\ settledBases[sealing.base] = now
    /\ evictions = 0 => \A f \in final : \A q \in DOMAIN f.arr : f.arr[q] <= now

\* Before this time the rings may have lost what they were told.
Loss == IF evictions = 0 THEN NoLoss ELSE lastLoss

\* What the rings are held against: the loss, the time and the span of the window, the tombstones,
\* and the verdicts of the sealed base still to come.
Frame == [loss |-> Loss, time |-> clock, span |-> Window, buried |-> settledBases,
          due |-> {<<sealing.base, f.content>> : f \in final}]

\* m gives each entry of a ring, after the loss, the verdict of V it stands for; each has a
\* tombstone no older, and every verdict of the window is among them.
IsBacking(ring, m, V, w) ==
    /\ DOMAIN m = {i \in DOMAIN ring : ring[i].at > w.loss}
    /\ \A i \in DOMAIN m :
        /\ m[i] \in V /\ m[i].at = ring[i].at
        /\ m[i].key[1] \in DOMAIN w.buried /\ m[i].at <= w.buried[m[i].key[1]]
        /\ m[i].key \notin w.due
    /\ \A i, j \in DOMAIN m : m[i].key = m[j].key => i = j
    /\ \A v \in V : v.at > w.loss /\ Since(w.time, v.at) <= w.span => \E i \in DOMAIN m : m[i] = v

Keyed(ring, m) == \A i \in DOMAIN m : ring[i].key = m[i].key

CompleteOnes == {v \in verdicts : v.matched = Providers}

\* Nothing evicted, or one source whose stamps do not lag: the rings stand for the verdicts since the loss.
Backed ==
    evictions = 0 \/ Steady =>
        /\ \E m : IsBacking(coverage, m, verdicts, Frame)
        /\ \E m : IsBacking(cohorts, m, CompleteOnes, Frame) /\ Keyed(cohorts, m)

WInv == Tombstones /\ (Alone => AtOnce) /\ Backed
-----------------------------------------------------------------------------
(* Every variable keeps its type. *)

\* The assumptions on what a behaviour runs with.
LEMMA Limits ==
    ASSUME config \in Configs
    PROVE  /\ IsFiniteSet(Providers) /\ Reference \in Providers
           /\ Timeout \in Nat \ {0} /\ Window \in Nat
           /\ MaxPending \in Nat \ {0} /\ MaxSettled \in Nat \ {0}
           /\ MaxRolling \in Nat \ {0} /\ MaxSignatures \in Nat \ {0}
           /\ MaxArrivals \in Nat /\ MaxTime \in Nat /\ Lag \in Nat
<1>1. PICK c : c = config
    OBVIOUS
<1>2. /\ IsFiniteSet(c.providers) /\ c.reference \in c.providers
      /\ c.timeout \in Nat \ {0} /\ c.window \in Nat
      /\ {c.maxPending, c.maxSettled, c.maxRolling, c.signatures} \subseteq Nat \ {0}
      /\ {c.arrivals, c.lastArrival, c.end} \subseteq Nat /\ c.lag \in Nat
    BY <1>1, ConfigsAssumption
<1>3. QED
    BY <1>1, <1>2 DEF Providers, Reference, Timeout, Window, MaxPending, MaxSettled, MaxRolling,
                      MaxSignatures, MaxArrivals, MaxTime, Lag

\* They stay, and so do the sets built from them.
LEMMA LimitsStay ==
    ASSUME config' = config
    PROVE  /\ Providers' = Providers /\ Bases' = Bases /\ Contents' = Contents /\ Claims' = Claims
           /\ Times' = Times /\ Observation' = Observation /\ Reference' = Reference
           /\ MaxArrivals' = MaxArrivals /\ Window' = Window /\ Timeout' = Timeout
           /\ NoObs' = NoObs /\ Lag' = Lag
BY DEF Providers, Bases, Contents, Claims, Times, Observation, Reference, MaxArrivals, Window,
       Timeout, MaxTime, NoObs, Lag

\* A time is a natural number, and the first is one.
LEMMA TimesAre == ASSUME config \in Configs PROVE Times \subseteq Nat /\ 0 \in Times
BY Limits DEF Times

\* What is typed stays so while its variables do.
LEMMA TypesStay ==
    ASSUME Typed, config' = config
    PROVE  /\ UNCHANGED receiptVars => ReceiptTyped'
           /\ UNCHANGED <<handlerVars, clock, pending>> => HandlerTyped'
           /\ UNCHANGED pending => PendingTyped'
           /\ UNCHANGED <<final, sealing>> => FinalTyped'
           /\ UNCHANGED <<settledBases, settled, windowVars, verdicts>> => WindowTyped'
           /\ UNCHANGED count => CountTyped'
           /\ \A arr : ArrivalsTyped(arr)' <=> ArrivalsTyped(arr)
           /\ \A p : BaseTyped(p)' <=> BaseTyped(p)
<1>1. UNCHANGED receiptVars => ReceiptTyped'
    BY LimitsStay DEF Typed, ReceiptTyped, receiptVars
<1>2. UNCHANGED <<handlerVars, clock, pending>> => HandlerTyped'
    BY LimitsStay DEF Typed, HandlerTyped, handlerVars
<1>3. \A arr : ArrivalsTyped(arr)' <=> ArrivalsTyped(arr)
    BY LimitsStay DEF ArrivalsTyped
<1>4. \A p : BaseTyped(p)' <=> BaseTyped(p)
    BY LimitsStay DEF BaseTyped, ArrivalsTyped
<1>5. UNCHANGED pending => PendingTyped'
    BY <1>4, LimitsStay DEF Typed, PendingTyped
<1>6. UNCHANGED <<final, sealing>> => FinalTyped'
    BY <1>3, LimitsStay DEF Typed, FinalTyped
<1>7. UNCHANGED <<settledBases, settled, windowVars, verdicts>> => WindowTyped'
    BY LimitsStay DEF Typed, WindowTyped, windowVars, RingTyped, NoLoss
<1>8. UNCHANGED count => CountTyped'
    BY LimitsStay DEF Typed, CountTyped
<1>9. QED
    BY <1>1, <1>2, <1>3, <1>4, <1>5, <1>6, <1>7, <1>8

\* Counting once more counts a number.
LEMMA AddTyped ==
    ASSUME CountTyped, config' = config, NEW p \in Providers, NEW what \in Counters,
           count' = Add(p, what)
    PROVE  CountTyped'
<1>1. count' = [count EXCEPT ![p] = [count[p] EXCEPT ![what] = count[p][what] + 1]]
    BY DEF Add
<1>2. count \in [Providers -> [Counters -> Nat]] /\ count[p] \in [Counters -> Nat]
    BY DEF CountTyped
<1>3. [count[p] EXCEPT ![what] = count[p][what] + 1] \in [Counters -> Nat]
    BY <1>2
<1>4. QED
    BY <1>1, <1>2, <1>3, LimitsStay DEF CountTyped

\* The head of the queue is an observation, and behind it is a queue.
LEMMA QueueTyped ==
    ASSUME ReceiptTyped, queue # <<>>
    PROVE  /\ Head(queue) \in Observation
           /\ Tail(queue) \in Seq(Observation) /\ Len(Tail(queue)) <= QueueCap
<1>1. queue \in Seq(Observation) /\ Len(queue) <= QueueCap /\ Len(queue) \in Nat
    BY LenProperties DEF ReceiptTyped
<1>2. Head(queue) \in Observation /\ Tail(queue) \in Seq(Observation)
      /\ Len(Tail(queue)) = Len(queue) - 1
    BY <1>1, HeadTailProperties
<1>3. QED
    BY <1>1, <1>2, QueueAssumption

\* Stamping, queueing and time keep the types.
LEMMA ReceiptTypes ==
    ASSUME Typed, AInv, Receipt
    PROVE  Typed'
<1>0. /\ UNCHANGED <<config, handlerVars, mapVars, windowVars, count, historyVars>>
      /\ loop = "idle"
    BY DEF Receipt, Stamp, Send, Advance
<1>1. /\ PendingTyped' /\ FinalTyped' /\ WindowTyped' /\ CountTyped'
    BY <1>0, TypesStay DEF handlerVars, mapVars, historyVars
<1>2. HandlerTyped'
    BY <1>0, LimitsStay DEF Typed, HandlerTyped, handlerVars, mapVars
<1>3. /\ clock \in Times /\ left \in 0 .. MaxArrivals
      /\ \A p \in Providers : stamped[p] = <<>> \/ \E o \in Observation : stamped[p] = <<o>>
      /\ queue \in Seq(Observation) /\ Len(queue) <= QueueCap
      /\ dropped \in [Providers -> Nat]
      /\ Times \subseteq Nat /\ config \in Configs /\ DOMAIN stamped = Providers
    BY TimesAre DEF Typed, ReceiptTyped, AInv, Shape
<1>4. ASSUME NEW p \in Providers, Stamp(p)
      PROVE  ReceiptTyped'
    <2>1. PICK claim \in Claims, at \in Since(clock, Lag) .. clock :
            stamped' = [stamped EXCEPT ![p] = <<[prov |-> p, claim |-> claim, at |-> at]>>]
        BY <1>4 DEF Stamp
    <2> DEFINE o == [prov |-> p, claim |-> claim, at |-> at]
    <2>2. o \in Observation
        <3>1. clock \in Nat /\ Lag \in Nat /\ MaxTime \in Nat /\ clock <= MaxTime
            BY <1>3, Limits DEF Times
        <3>2. at \in Nat /\ at <= clock
            BY <3>1 DEF Since
        <3>3. at \in Times
            BY <3>1, <3>2 DEF Times
        <3>4. QED
            BY <3>3 DEF Observation
    <2>3. left > 0 /\ left' = left - 1 /\ UNCHANGED <<clock, queue, dropped>>
        BY <1>4 DEF Stamp
    <2>4. stamped'[p] = <<o>> /\ \A q \in Providers : q # p => stamped'[q] = stamped[q]
        BY <1>3, <2>1
    <2> HIDE DEF o
    <2>5. \A q \in Providers : stamped'[q] = <<>> \/ \E x \in Observation : stamped'[q] = <<x>>
        BY <1>3, <2>2, <2>4
    <2>6. left' \in 0 .. MaxArrivals
        BY <1>3, <2>3, Limits
    <2>7. QED
        BY <1>0, <1>3, <2>3, <2>5, <2>6, LimitsStay DEF ReceiptTyped
<1>5. ASSUME NEW p \in Providers, Send(p)
      PROVE  ReceiptTyped'
    <2>1. PICK o \in Observation : stamped[p] = <<o>>
        BY <1>3, <1>5 DEF Send
    <2>2. Head(stamped[p]) = o
        BY <2>1
    <2>3. stamped' = [stamped EXCEPT ![p] = <<>>] /\ UNCHANGED <<clock, left>>
        BY <1>5 DEF Send
    <2>4. \A q \in Providers : stamped'[q] = <<>> \/ \E x \in Observation : stamped'[q] = <<x>>
        BY <1>3, <2>3
    <2>5. dropped' \in [Providers -> Nat]
        <3>1. dropped' = dropped \/ dropped' = [dropped EXCEPT ![p] = dropped[p] + 1]
            BY <1>5 DEF Send
        <3>2. QED
            BY <1>3, <3>1
    <2>6. queue' \in Seq(Observation) /\ Len(queue') <= QueueCap
        <3>1. queue' = queue \/ (queue' = Append(queue, o) /\ Len(queue) < QueueCap)
            BY <1>5, <2>2 DEF Send, QueueHasRoom
        <3>2. CASE queue' = Append(queue, o) /\ Len(queue) < QueueCap
            <4>1. Len(queue) \in Nat
                BY <1>3, LenProperties
            <4>2. queue' \in Seq(Observation) /\ Len(queue') = Len(queue) + 1
                BY <1>3, <3>2, AppendProperties
            <4>3. QED
                BY <3>2, <4>1, <4>2, QueueAssumption
        <3>3. QED
            BY <1>3, <3>1, <3>2
    <2>7. QED
        BY <1>0, <1>3, <2>3, <2>4, <2>5, <2>6, LimitsStay DEF ReceiptTyped
<1>6. ASSUME Advance
      PROVE  ReceiptTyped'
    <2>1. clock < MaxTime /\ clock' = clock + 1 /\ UNCHANGED <<stamped, queue, dropped, left>>
        BY <1>6 DEF Advance
    <2>2. clock' \in Times
        BY <1>3, <2>1, Limits DEF Times
    <2>3. QED
        BY <1>0, <1>3, <2>1, <2>2, LimitsStay DEF ReceiptTyped
<1>7. ReceiptTyped'
    BY <1>4, <1>5, <1>6 DEF Receipt
<1>8. QED
    BY <1>1, <1>2, <1>7 DEF Typed

\* The tombstones after a base is sealed: those of D, and its own.
Buried(D, base, at) == [b \in D \cup {base} |-> IF b = base THEN at ELSE settledBases[b]]

\* Sealing a base keeps every tombstone, or loses one or makes room and declares it.
LEMMA TombstonePut ==
    ASSUME NEW base, NEW at, NEW evicted \in BOOLEAN, InsertSettledBase(base, at, evicted),
           evictions \in Nat
    PROVE  \E D \in SUBSET DOMAIN settledBases :
            /\ settledBases' = Buried(D, base, at)
            /\ \/ /\ D = DOMAIN settledBases /\ ~evicted
                  /\ UNCHANGED <<evictions, lastLoss>>
               \/ evictions' \in Nat \ {0} /\ lastLoss' = at
<1> DEFINE full == Cardinality(DOMAIN settledBases) >= MaxSettled
<1>1. PICK gone : /\ gone \in IF full THEN {{b} : b \in Oldest(settledBases)} ELSE {{}}
                  /\ settledBases' = Put(Without(settledBases, gone), base, at)
    BY DEF InsertSettledBase
<1>2. /\ evictions' = evictions + (IF full THEN 1 ELSE 0) + (IF evicted THEN 1 ELSE 0)
      /\ lastLoss' = IF full \/ evicted THEN at ELSE lastLoss
    BY DEF InsertSettledBase
<1>3. ~full => gone = {}
    BY <1>1
<1>4. full \in BOOLEAN
    OBVIOUS
<1> HIDE DEF full
<1>5. settledBases' = Buried(DOMAIN settledBases \ gone, base, at)
    <2> DEFINE D == DOMAIN settledBases \ gone
    <2>1. /\ DOMAIN Without(settledBases, gone) = D
          /\ \A b \in D : Without(settledBases, gone)[b] = settledBases[b]
        BY DEF Without, Restrict
    <2> HIDE DEF D
    <2>2. settledBases' = [b \in D \cup {base} |-> IF b = base THEN at
                                                   ELSE Without(settledBases, gone)[b]]
        BY <1>1, <2>1 DEF Put
    <2>3. settledBases' = Buried(D, base, at)
        BY <2>1, <2>2 DEF Buried
    <2>4. QED
        BY <2>3 DEF D
<1>6. CASE full \/ evicted
    <2>1. evictions' \in Nat \ {0} /\ lastLoss' = at
        BY <1>2, <1>4, <1>6
    <2>2. QED
        BY <1>5, <2>1
<1>7. CASE ~full /\ ~evicted
    <2>1. evictions' = evictions /\ lastLoss' = lastLoss
        BY <1>2, <1>7
    <2>2. DOMAIN settledBases \ gone = DOMAIN settledBases
        BY <1>3, <1>7
    <2>3. QED
        BY <1>5, <1>7, <2>1, <2>2
<1>8. QED
    BY <1>6, <1>7

\* What of a content is canonical came in time.
LEMMA SealedFinal ==
    ASSUME NEW base \in DOMAIN pending, NEW evicted, Settle(base, evicted)
    PROVE  /\ \A f \in final' :
                /\ f.content \in DOMAIN pending[base].cands
                /\ f.content \in Canonical(pending[base])
                /\ f.first = pending[base].cands[f.content].first
                /\ DOMAIN f.arr = Timely(pending[base], f.content)
                /\ \A q \in DOMAIN f.arr :
                    /\ f.arr[q] = pending[base].cands[f.content].arr[q]
                    /\ q \in DOMAIN pending[base].cands[f.content].arr
                    /\ f.arr[q] - pending[base].first < Timeout
           /\ \A f, g \in final' : f.content = g.content => f = g
           /\ \A c \in Canonical(pending[base]) : \E f \in final' : f.content = c
<1> PICK p : p = pending[base]
    OBVIOUS
<1> DEFINE made(c) == [content |-> c, first |-> p.cands[c].first,
                       arr |-> Restrict(p.cands[c].arr, Timely(p, c))]
<1>1. final' = {made(c) : c \in Canonical(p)}
    BY DEF Settle
<1>2. \A c : /\ made(c).content = c /\ made(c).first = p.cands[c].first
             /\ made(c).arr = Restrict(p.cands[c].arr, Timely(p, c))
    OBVIOUS
<1> HIDE DEF made
<1>3. ASSUME NEW f \in final'
      PROVE  /\ f.content \in DOMAIN p.cands /\ f.content \in Canonical(p)
             /\ f = made(f.content)
             /\ f.first = p.cands[f.content].first
             /\ DOMAIN f.arr = Timely(p, f.content)
             /\ \A q \in DOMAIN f.arr : /\ f.arr[q] = p.cands[f.content].arr[q]
                                        /\ q \in DOMAIN p.cands[f.content].arr
                                        /\ f.arr[q] - p.first < Timeout
    <2>1. PICK c \in Canonical(p) : f = made(c)
        BY <1>1
    <2>2. c \in DOMAIN p.cands /\ f.content = c /\ f.first = p.cands[c].first
          /\ f.arr = Restrict(p.cands[c].arr, Timely(p, c))
        BY <1>2, <2>1 DEF Canonical
    <2>3. /\ DOMAIN f.arr = Timely(p, c)
          /\ \A q \in DOMAIN f.arr : f.arr[q] = p.cands[c].arr[q]
        BY <2>2 DEF Restrict
    <2>4. \A q \in Timely(p, c) : /\ q \in DOMAIN p.cands[c].arr
                                  /\ p.cands[c].arr[q] - p.first < Timeout
        BY DEF Timely
    <2>5. QED
        BY <2>1, <2>2, <2>3, <2>4
<1>4. \A f, g \in final' : f.content = g.content => f = g
    BY <1>3
<1>5. \A c \in Canonical(p) : \E f \in final' : f.content = c
    BY <1>1, <1>2
<1>6. QED
    BY <1>3, <1>4, <1>5

\* Sealing a base keeps the types.
LEMMA SettleTypes ==
    ASSUME Typed, AInv, config' = config,
           NEW base \in DOMAIN pending, NEW evicted \in BOOLEAN, Settle(base, evicted),
           UNCHANGED <<settled, cohorts, coverage, verdicts>>
    PROVE  /\ PendingTyped' /\ FinalTyped' /\ WindowTyped' /\ CountTyped'
           /\ DOMAIN pending' = DOMAIN pending \ {base}
<1> PICK p : p = pending[base]
    OBVIOUS
<1>0. /\ BaseTyped(p) /\ base \in Bases /\ config \in Configs
      /\ now \in Times /\ Times \subseteq Nat /\ evictions \in Nat
    BY TimesAre DEF Typed, PendingTyped, HandlerTyped, WindowTyped, AInv, Shape
<1>1. /\ DOMAIN pending' = DOMAIN pending \ {base}
      /\ \A b \in DOMAIN pending' : pending'[b] = pending[b]
    BY DEF Settle, Without, Restrict
<1>2. PendingTyped'
    <2>1. IsFiniteSet(DOMAIN pending')
        BY <1>1, FS_RemoveElement DEF Typed, PendingTyped
    <2>2. QED
        BY <1>1, <2>1, LimitsStay, TypesStay DEF Typed, PendingTyped
<1>3. /\ \A f \in final' : f.content \in Contents' /\ f.first \in Times' /\ ArrivalsTyped(f.arr)'
      /\ \A f, g \in final' : f.content = g.content => f = g
    <2>1. ASSUME NEW f \in final'
          PROVE  f.content \in Contents /\ f.first \in Times /\ ArrivalsTyped(f.arr)
        <3>1. /\ f.content \in DOMAIN p.cands /\ f.first = p.cands[f.content].first
              /\ \A q \in DOMAIN f.arr : /\ f.arr[q] = p.cands[f.content].arr[q]
                                         /\ q \in DOMAIN p.cands[f.content].arr
            BY SealedFinal
        <3>2. QED
            BY <1>0, <3>1 DEF BaseTyped, ArrivalsTyped
    <2>2. QED
        BY <2>1, SealedFinal, LimitsStay, TypesStay
<1>4. IsFiniteSet(final')
    <2> DEFINE C == Canonical(p)
               made(c) == [content |-> c, first |-> p.cands[c].first,
                           arr |-> Restrict(p.cands[c].arr, Timely(p, c))]
    <2>1. final' = {made(c) : c \in C}
        BY DEF Settle
    <2>2. IsFiniteSet(C)
        <3>1. C \in SUBSET DOMAIN p.cands
            BY DEF Canonical
        <3> HIDE DEF C
        <3>2. QED
            BY <1>0, <3>1, FS_Subset DEF BaseTyped
    <2> DEFINE g == [c \in C |-> made(c)]
    <2>3. g \in Surjection(C, {made(c) : c \in C})
        BY DEF Surjection
    <2> HIDE DEF g, C, made
    <2>4. QED
        BY <2>1, <2>2, <2>3, FS_Surjection
<1>5. FinalTyped'
    <2>1. sealing'.base \in Bases'
        BY <1>0, LimitsStay DEF Settle
    <2>2. QED
        BY <1>3, <1>4, <2>1 DEF FinalTyped
<1>6. WindowTyped'
    <2>1. PICK D \in SUBSET DOMAIN settledBases :
            /\ settledBases' = Buried(D, base, now)
            /\ \/ /\ D = DOMAIN settledBases /\ ~evicted
                  /\ UNCHANGED <<evictions, lastLoss>>
               \/ evictions' \in Nat \ {0} /\ lastLoss' = now
        BY <1>0, TombstonePut DEF Settle
    <2>2. DOMAIN settledBases' \subseteq Bases /\ \A b \in DOMAIN settledBases' : settledBases'[b] \in Times
        BY <1>0, <2>1 DEF Typed, WindowTyped, Buried
    <2>3. /\ lastLoss' \in Times \cup {NoLoss} /\ evictions' \in Nat
          /\ evictions' # 0 => lastLoss' # NoLoss
        BY <1>0, <2>1 DEF Typed, WindowTyped, NoLoss
    <2>4. RingTyped(cohorts)' /\ RingTyped(coverage)'
        BY LimitsStay DEF Typed, WindowTyped, RingTyped
    <2>5. QED
        BY <2>2, <2>3, <2>4, LimitsStay DEF Typed, WindowTyped, NoLoss
<1>7. CountTyped'
    <2>1. count' = [q \in Providers |->
                    [count[q] EXCEPT !["late"] = @ + Cardinality(LateContents(p, q)),
                                     !["orphaned"] = @ + Cardinality(Orphaned(p, q))]]
        BY DEF Settle
    <2>2. ASSUME NEW q \in Providers
          PROVE  Cardinality(LateContents(p, q)) \in Nat /\ Cardinality(Orphaned(p, q)) \in Nat
        <3>1. LateContents(p, q) \in SUBSET DOMAIN p.cands /\ Orphaned(p, q) \in SUBSET DOMAIN p.cands
            BY DEF LateContents, Orphaned
        <3>2. QED
            BY <1>0, <3>1, FS_Subset, FS_CardinalityType DEF BaseTyped
    <2>3. ASSUME NEW q \in Providers
          PROVE  [count[q] EXCEPT !["late"] = @ + Cardinality(LateContents(p, q)),
                                  !["orphaned"] = @ + Cardinality(Orphaned(p, q))] \in [Counters -> Nat]
        <3>1. count[q] \in [Counters -> Nat]
            BY DEF Typed, CountTyped
        <3> PICK n, m : n = Cardinality(LateContents(p, q)) /\ m = Cardinality(Orphaned(p, q))
            OBVIOUS
        <3>2. n \in Nat /\ m \in Nat
            BY <2>2
        <3>3. [count[q] EXCEPT !["late"] = @ + n, !["orphaned"] = @ + m] \in [Counters -> Nat]
            BY <3>1, <3>2 DEF Counters
        <3>4. QED
            BY <3>3
    <2>4. QED
        BY <2>1, <2>3, LimitsStay DEF CountTyped
<1>8. QED
    BY <1>1, <1>2, <1>5, <1>6, <1>7

\* The base an observation joins, and what it holds of the observed content.
OldBase == IF IsPending THEN pending[Claimed] ELSE [first |-> obs.at, cands |-> <<>>, heard |-> {}]
OldArr  == IF Content \in DOMAIN OldBase.cands THEN OldBase.cands[Content].arr ELSE <<>>

\* b is the base with a candidate for the observed content that has these arrivals.
Joined(b, arr) ==
    \E d : /\ b.cands = Put(OldBase.cands, Content, d) /\ d.arr = arr
           /\ \/ d.first = obs.at
              \/ Content \in DOMAIN OldBase.cands /\ d.first = OldBase.cands[Content].first

Overflowed(b) ==
    /\ Content \notin DOMAIN OldBase.cands /\ b.cands = OldBase.cands
    /\ ~(Cardinality(DOMAIN OldBase.cands) < MaxSignatures)
    /\ count' = Add(obs.prov, "overflow") /\ lastLoss' = obs.at /\ Return

Repeated(b) ==
    /\ obs.prov \in DOMAIN OldArr /\ Content \in DOMAIN OldBase.cands /\ Joined(b, OldArr)
    /\ count' = Add(obs.prov, "duplicate") /\ Return /\ lastLoss' = lastLoss

Arrived(b) ==
    /\ obs.prov \notin DOMAIN OldArr /\ Joined(b, Put(OldArr, obs.prov, obs.at))
    /\ loop' = "admitted" /\ UNCHANGED <<count, lastLoss, now, obs, sealing>>

\* What an admission makes of the base of the observation.
LEMMA Admission ==
    ASSUME AInv, RecordAdmitted
    PROVE  \E b : /\ pending' = Put(pending, Claimed, b)
                  /\ b.first = Earlier(OldBase.first, obs.at)
                  /\ Overflowed(b) \/ Repeated(b) \/ Arrived(b)
<1> DEFINE base  == OldBase
           known == Content \in DOMAIN base.cands
           room  == known \/ Cardinality(DOMAIN base.cands) < MaxSignatures
           h     == [prov |-> obs.prov, content |-> Content, at |-> obs.at, kept |-> room]
           p     == [base EXCEPT !.first = Opened(base), !.heard = @ \cup {h}]
           cand  == IF known THEN [p.cands[Content] EXCEPT !.first = Earlier(@, obs.at)]
                    ELSE [first |-> obs.at, arr |-> <<>>]
           with(c) == Put(pending, Claimed, [p EXCEPT !.cands = Put(@, Content, c)])
<1>1. \/ /\ ~room
         /\ pending' = Put(pending, Claimed, p)
         /\ count' = Add(obs.prov, "overflow")
         /\ lastLoss' = obs.at
         /\ Return
      \/ /\ room /\ obs.prov \in DOMAIN cand.arr
         /\ pending' = with(cand)
         /\ count' = Add(obs.prov, "duplicate")
         /\ Return
         /\ UNCHANGED lastLoss
      \/ /\ room /\ obs.prov \notin DOMAIN cand.arr
         /\ pending' = with([cand EXCEPT !.arr = Put(@, obs.prov, obs.at)])
         /\ loop' = "admitted"
         /\ UNCHANGED <<count, lastLoss, now, obs, sealing>>
    BY DEF RecordAdmitted, OldBase
<1>2. Faithful(base)
    <2>1. CASE IsPending
        BY <2>1 DEF IsPending, AInv, Bodies, OldBase
    <2>2. CASE ~IsPending
        BY <2>2 DEF Faithful, OldBase
    <2>3. QED
        BY <2>1, <2>2
<1>3. /\ p = [first |-> p.first, cands |-> p.cands, heard |-> p.heard]
      /\ p.first = Earlier(base.first, obs.at) /\ p.cands = base.cands
    <2>1. base = [first |-> base.first, cands |-> base.cands, heard |-> base.heard]
        BY <1>2 DEF Faithful
    <2> HIDE DEF base, h
    <2>2. p = [first |-> Opened(base), cands |-> base.cands, heard |-> base.heard \cup {h}]
        BY <2>1, BodyUpdates
    <2>3. QED
        BY <2>2 DEF Opened
<1>4. /\ cand = [first |-> cand.first, arr |-> cand.arr] /\ cand.arr = OldArr
      /\ cand.first = obs.at \/ (known /\ cand.first = base.cands[Content].first)
    <2>1. CASE known
        <3>1. /\ p.cands[Content] = base.cands[Content]
              /\ base.cands[Content] = [first |-> base.cands[Content].first,
                                        arr |-> base.cands[Content].arr]
            BY <1>2, <1>3, <2>1 DEF Faithful
        <3>2. OldArr = base.cands[Content].arr
            BY <2>1 DEF OldArr
        <3> HIDE DEF p, base
        <3> PICK d : d = base.cands[Content]
            OBVIOUS
        <3>3. cand = [d EXCEPT !.first = Earlier(@, obs.at)]
            BY <2>1, <3>1
        <3>4. cand = [first |-> Earlier(d.first, obs.at), arr |-> d.arr]
            BY <3>1, <3>3
        <3> HIDE DEF cand
        <3>5. cand.first = Earlier(d.first, obs.at) /\ cand.arr = d.arr
            BY <3>4
        <3>6. cand = [first |-> cand.first, arr |-> cand.arr]
            BY <3>4, <3>5
        <3>7. cand.arr = OldArr
            BY <3>2, <3>5
        <3>8. cand.first = obs.at \/ (known /\ cand.first = base.cands[Content].first)
            BY <2>1, <3>5 DEF Earlier
        <3>9. QED
            BY <3>6, <3>7, <3>8
    <2>2. CASE ~known
        <3>1. OldArr = <<>>
            BY <2>2 DEF OldArr
        <3> HIDE DEF p, base
        <3>2. cand = [first |-> obs.at, arr |-> <<>>]
            BY <2>2
        <3> HIDE DEF cand
        <3>3. QED
            BY <3>1, <3>2
    <2>3. QED
        BY <2>1, <2>2
<1> HIDE DEF p, h, cand
<1>5. CASE /\ ~room
           /\ pending' = Put(pending, Claimed, p)
           /\ count' = Add(obs.prov, "overflow")
           /\ lastLoss' = obs.at
           /\ Return
    <2>1. Overflowed(p)
        BY <1>3, <1>5 DEF Overflowed
    <2>2. QED
        BY <1>3, <1>5, <2>1
<1>6. CASE /\ room /\ obs.prov \in DOMAIN cand.arr
           /\ pending' = with(cand)
           /\ count' = Add(obs.prov, "duplicate")
           /\ Return
           /\ UNCHANGED lastLoss
    <2> DEFINE b == [p EXCEPT !.cands = Put(@, Content, cand)]
    <2>1. b = [first |-> p.first, cands |-> Put(p.cands, Content, cand), heard |-> p.heard]
        BY <1>3, BodyUpdates
    <2>2. pending' = Put(pending, Claimed, b)
        BY <1>6
    <2> HIDE DEF b
    <2>3. b.first = p.first /\ b.cands = Put(base.cands, Content, cand)
        BY <1>3, <2>1
    <2>4. Joined(b, OldArr)
        BY <1>4, <2>3 DEF Joined
    <2>5. obs.prov \in DOMAIN OldArr
        BY <1>4, <1>6
    <2>6. known
        BY <2>5 DEF OldArr
    <2>7. Repeated(b)
        BY <1>6, <2>4, <2>5, <2>6 DEF Repeated
    <2>8. QED
        BY <1>3, <2>2, <2>3, <2>7
<1>7. CASE /\ room /\ obs.prov \notin DOMAIN cand.arr
           /\ pending' = with([cand EXCEPT !.arr = Put(@, obs.prov, obs.at)])
           /\ loop' = "admitted"
           /\ UNCHANGED <<count, lastLoss, now, obs, sealing>>
    <2> DEFINE d == [cand EXCEPT !.arr = Put(@, obs.prov, obs.at)]
               b == [p EXCEPT !.cands = Put(@, Content, d)]
    <2>1. b = [first |-> p.first, cands |-> Put(p.cands, Content, d), heard |-> p.heard]
        BY <1>3, BodyUpdates
    <2>2. d = [first |-> cand.first, arr |-> Put(cand.arr, obs.prov, obs.at)]
        BY <1>4
    <2>3. pending' = Put(pending, Claimed, b)
        BY <1>7
    <2> HIDE DEF b, d
    <2>4. b.first = p.first /\ b.cands = Put(base.cands, Content, d)
        BY <1>3, <2>1
    <2>5. d.first = cand.first /\ d.arr = Put(OldArr, obs.prov, obs.at)
        BY <1>4, <2>2
    <2>6. Joined(b, Put(OldArr, obs.prov, obs.at))
        BY <1>4, <2>4, <2>5 DEF Joined
    <2>7. Arrived(b)
        BY <1>4, <1>7, <2>6 DEF Arrived
    <2>8. QED
        BY <1>3, <2>3, <2>4, <2>7
<1>8. QED
    BY <1>1, <1>5, <1>6, <1>7

\* What an observation joins is typed, and so is the observation.
LEMMA OldTyped ==
    ASSUME Typed, AInv, loop = "record"
    PROVE  /\ BaseTyped(OldBase) /\ ArrivalsTyped(OldArr)
           /\ Claimed \in Bases /\ Content \in Contents
           /\ obs.prov \in Providers /\ obs.at \in Times /\ now = obs.at
           /\ Times \subseteq Nat
<1>1. /\ obs \in Observation /\ obs.claim # Anomaly /\ now = obs.at /\ config \in Configs
    BY DEF Typed, HandlerTyped, AInv, Shape
<1>2. /\ obs.prov \in Providers /\ obs.at \in Times /\ obs.claim \in Bases \X Contents
    BY <1>1 DEF Observation, Claims
<1>3. Claimed \in Bases /\ Content \in Contents
    BY <1>2 DEF Claimed, Content
<1>4. BaseTyped(OldBase)
    <2>1. CASE IsPending
        BY <2>1 DEF IsPending, OldBase, Typed, PendingTyped
    <2>2. CASE ~IsPending
        <3>1. /\ OldBase.first = obs.at /\ DOMAIN OldBase.cands = {}
            BY <2>2 DEF OldBase
        <3>2. IsFiniteSet({})
            BY FS_EmptySet
        <3>3. QED
            BY <1>2, <3>1, <3>2 DEF BaseTyped
    <2>3. QED
        BY <2>1, <2>2
<1>5. ArrivalsTyped(OldArr)
    BY <1>4 DEF BaseTyped, OldArr, ArrivalsTyped
<1>6. QED
    BY <1>1, <1>2, <1>3, <1>4, <1>5, TimesAre

\* Admitting an observation keeps the types.
LEMMA AdmittedTypes ==
    ASSUME Typed, AInv, RecordAdmitted
    PROVE  Typed'
<1>1. /\ loop = "record" /\ final = {}
      /\ UNCHANGED <<config, receiptVars, expired, final, settledBases, settled, cohorts,
                     coverage, evictions, historyVars>>
    BY DEF RecordAdmitted
<1>2. /\ BaseTyped(OldBase) /\ ArrivalsTyped(OldArr)
      /\ Claimed \in Bases /\ Content \in Contents
      /\ obs.prov \in Providers /\ obs.at \in Times /\ now = obs.at
      /\ Times \subseteq Nat
    BY <1>1, OldTyped
<1>3. PICK b : /\ pending' = Put(pending, Claimed, b)
               /\ b.first = Earlier(OldBase.first, obs.at)
               /\ Overflowed(b) \/ Repeated(b) \/ Arrived(b)
    BY Admission
<1>4. BaseTyped(b)
    <2>1. b.first \in Times
        BY <1>2, <1>3 DEF BaseTyped, Earlier
    <2>2. CASE Overflowed(b)
        BY <1>2, <2>1, <2>2 DEF Overflowed, BaseTyped
    <2>3. CASE \E arr : ArrivalsTyped(arr) /\ Joined(b, arr)
        <3>1. PICK arr : ArrivalsTyped(arr) /\ Joined(b, arr)
            BY <2>3
        <3>2. PICK d : /\ b.cands = Put(OldBase.cands, Content, d) /\ d.arr = arr
                       /\ \/ d.first = obs.at
                          \/ Content \in DOMAIN OldBase.cands /\ d.first = OldBase.cands[Content].first
            BY <3>1 DEF Joined
        <3>3. d.first \in Times /\ ArrivalsTyped(d.arr)
            BY <1>2, <3>1, <3>2 DEF BaseTyped
        <3>4. /\ DOMAIN b.cands = DOMAIN OldBase.cands \cup {Content}
              /\ \A c \in DOMAIN b.cands : b.cands[c] = IF c = Content THEN d ELSE OldBase.cands[c]
            BY <3>2 DEF Put
        <3>5. IsFiniteSet(DOMAIN b.cands)
            BY <1>2, <3>4, FS_AddElement DEF BaseTyped
        <3>6. QED
            BY <1>2, <2>1, <3>3, <3>4, <3>5 DEF BaseTyped
    <2>4. ArrivalsTyped(Put(OldArr, obs.prov, obs.at))
        BY <1>2 DEF ArrivalsTyped, Put
    <2>5. QED
        BY <1>2, <1>3, <2>2, <2>3, <2>4 DEF Repeated, Arrived
<1>5. /\ DOMAIN pending' = DOMAIN pending \cup {Claimed}
      /\ \A x \in DOMAIN pending' : pending'[x] = IF x = Claimed THEN b ELSE pending[x]
    BY <1>3 DEF Put
<1>6. PendingTyped'
    <2>1. IsFiniteSet(DOMAIN pending')
        BY <1>5, FS_AddElement DEF Typed, PendingTyped
    <2>2. \A x \in DOMAIN pending' : BaseTyped(pending'[x])
        BY <1>4, <1>5 DEF Typed, PendingTyped
    <2>3. \A p : BaseTyped(p)' <=> BaseTyped(p)
        BY <1>1, TypesStay
    <2>4. DOMAIN pending' \subseteq Bases'
        BY <1>1, <1>2, <1>5, LimitsStay DEF Typed, PendingTyped
    <2>5. QED
        BY <2>1, <2>2, <2>3, <2>4 DEF PendingTyped
<1>7. ReceiptTyped'
    BY <1>1, TypesStay
<1>8. FinalTyped'
    BY <1>1, FS_EmptySet DEF FinalTyped
<1>9. CountTyped' /\ (lastLoss' = lastLoss \/ lastLoss' = obs.at)
    <2>1. CountTyped /\ {"overflow", "duplicate"} \subseteq Counters
        BY DEF Typed, Counters
    <2>2. CASE Overflowed(b)
        BY <1>1, <1>2, <2>1, <2>2, AddTyped DEF Overflowed
    <2>3. CASE Repeated(b)
        BY <1>1, <1>2, <2>1, <2>3, AddTyped DEF Repeated
    <2>4. CASE Arrived(b)
        BY <1>1, <2>4, TypesStay DEF Arrived
    <2>5. QED
        BY <1>3, <2>2, <2>3, <2>4
<1>10. WindowTyped'
    <2>1. RingTyped(cohorts)' /\ RingTyped(coverage)'
        BY <1>1, LimitsStay DEF Typed, WindowTyped, RingTyped
    <2>2. lastLoss' \in Times \cup {NoLoss} /\ (evictions' # 0 => lastLoss' # NoLoss)
        BY <1>1, <1>2, <1>9 DEF Typed, WindowTyped, NoLoss
    <2>3. QED
        BY <1>1, <2>1, <2>2, LimitsStay DEF Typed, WindowTyped, NoLoss, historyVars
<1>11. HandlerTyped'
    <2>1. expired = {} /\ obs \in Observation /\ obs.claim # Anomaly
        BY <1>1 DEF Typed, HandlerTyped
    <2>2. CASE Return
        <3>1. NoObs \in Observation /\ 0 \in Times
            BY Limits, TimesAre DEF NoObs, Observation, Claims, AInv, Shape
        <3>2. QED
            BY <1>1, <2>1, <2>2, <3>1, LimitsStay DEF Return, HandlerTyped, LoopStates
    <2>3. CASE Arrived(b)
        BY <1>1, <1>2, <2>1, <2>3, LimitsStay DEF Arrived, HandlerTyped, LoopStates
    <2>4. QED
        BY <1>3, <2>2, <2>3 DEF Overflowed, Repeated
<1>12. QED
    BY <1>6, <1>7, <1>8, <1>9, <1>10, <1>11 DEF Typed

\* A sequence is one over what it holds.
LEMMA OverItsRange == ASSUME NEW V, NEW s \in Seq(V) PROVE s \in Seq(Range(s))
<1>1. Len(s) \in Nat /\ s \in [1 .. Len(s) -> V] /\ DOMAIN s = 1 .. Len(s)
    BY LenProperties
<1>2. \A i \in 1 .. Len(s) : s[i] \in Range(s)
    BY <1>1 DEF Range
<1>3. s \in [1 .. Len(s) -> Range(s)]
    BY <1>1, <1>2
<1>4. QED
    BY <1>1, <1>3

\* A push keeps a ring typed.
LEMMA PushedTyped ==
    ASSUME NEW s, RingTyped(s), NEW x, x.at \in Times, MaxRolling \in Nat \ {0}
    PROVE  RingTyped(Pushed(s, x)) /\ \E m : IsPushed(Pushed(s, x), m, s, x)
<1> DEFINE V == Range(s) \cup {x}
<1>1. s \in Seq(V)
    BY SeqMonotonic DEF RingTyped
<1>2. x \in V
    OBVIOUS
<1> PICK r : r = Pushed(s, x)
    OBVIOUS
<1> HIDE DEF V
<1>3. r \in Seq(V) /\ \E m : IsPushed(r, m, s, x)
    BY <1>1, <1>2, PushedHolds
<1>4. PICK m : IsPushed(r, m, s, x)
    BY <1>3
<1>5. DOMAIN s = 1 .. Len(s) /\ Len(s) \in Nat
    BY <1>1, LenProperties
<1>6. \A i \in DOMAIN r : r[i].at \in Times
    <2>1. \A i \in DOMAIN s : s[i].at \in Times
        BY DEF RingTyped
    <2>2. \A i \in DOMAIN r : m[i] \in 0 .. Len(s) /\ r[i] = IF m[i] = 0 THEN x ELSE s[m[i]]
        BY <1>4 DEF IsPushed
    <2>3. QED
        BY <1>5, <2>1, <2>2
<1>7. QED
    BY <1>3, <1>6, OverItsRange DEF RingTyped

\* What is kept of a ring is typed.
LEMMA KeptTyped ==
    ASSUME NEW s, RingTyped(s), NEW K, K \subseteq DOMAIN s
    PROVE  RingTyped(Kept(s, K)) /\ \E m : IsThinned(Kept(s, K), m, s, K, Len(s))
<1> PICK r : r = Kept(s, K)
    OBVIOUS
<1>1. s \in Seq(Range(s)) /\ \A i \in DOMAIN s : s[i].at \in Times
    BY DEF RingTyped
<1>2. r \in Seq(Range(s)) /\ \E m : IsThinned(r, m, s, K, Len(s))
    BY <1>1, KeptThins
<1>3. PICK m : IsThinned(r, m, s, K, Len(s))
    BY <1>2
<1>4. \A i \in DOMAIN r : r[i].at \in Times
    BY <1>1, <1>3 DEF IsThinned
<1>5. QED
    BY <1>2, <1>4, OverItsRange DEF RingTyped

\* The verdict v on candidate c, at its time, and what the rings take in of it.
Judged(c, at, v, e, r) ==
    /\ final' = final \ {c} /\ verdicts' = verdicts \cup {v}
    /\ at = now \/ (DOMAIN c.arr = Providers /\ \E q \in Providers : at = c.arr[q])
    /\ v.key = <<sealing.base, c.content>> /\ v.at = at /\ v.matched = DOMAIN c.arr
    /\ e.at = at /\ coverage' = Pushed(coverage, e)
    /\ IF DOMAIN c.arr = Providers
       THEN r.at = at /\ r.key = v.key /\ cohorts' = Pushed(cohorts, r)
       ELSE cohorts' = cohorts
    /\ \/ /\ UNCHANGED <<evictions, lastLoss>> /\ ~Overflows(coverage)
          /\ DOMAIN c.arr = Providers => ~Overflows(cohorts)
       \/ evictions' \in Nat \ {0} /\ lastLoss' \in {at, now}

\* A candidate is finalized at its last arrival when it is complete, and now when it is not.
LEMMA Finalized ==
    ASSUME Typed, AInv, Finalize
    PROVE  \E c \in final, at \in Times : \E v, e, r : Judged(c, at, v, e, r)
<1> DEFINE complete(c) == DOMAIN c.arr = Providers
           At(c)       == IF complete(c) THEN Max({c.arr[q] : q \in Providers}) ELSE now
           outcome(c)  == [q \in Providers |->
                            IF q \in DOMAIN c.arr THEN "matched"
                            ELSE IF q \in sealing.stray THEN "mismatch" ELSE "missing"]
           full        == Cardinality(DOMAIN settled) >= MaxSettled
           E(c)        == [at |-> At(c), outcome |-> outcome(c)]
           R(c)        == [at |-> At(c), key |-> <<sealing.base, c.content>>, latency |-> c.arr,
                           delay |-> At(c) - c.first]
           V(c)        == [key |-> <<sealing.base, c.content>>, at |-> At(c), matched |-> DOMAIN c.arr,
                           first |-> sealing.first, heard |-> sealing.heard]
<1>1. PICK c \in final :
        /\ final' = final \ {c}
        /\ coverage' = Pushed(coverage, E(c))
        /\ cohorts' = IF complete(c) THEN Pushed(cohorts, R(c)) ELSE cohorts
        /\ evictions' = evictions + (IF Overflows(coverage) THEN 1 ELSE 0)
                                  + (IF complete(c) /\ Overflows(cohorts) THEN 1 ELSE 0)
                                  + (IF full THEN 1 ELSE 0)
        /\ lastLoss' = LossAfter(full, Overflows(coverage) \/ (complete(c) /\ Overflows(cohorts)), At(c))
        /\ verdicts' = verdicts \cup {V(c)}
    BY DEF Finalize
<1>2. /\ E(c).at = At(c) /\ R(c).at = At(c) /\ R(c).key = <<sealing.base, c.content>>
      /\ V(c).key = <<sealing.base, c.content>> /\ V(c).at = At(c) /\ V(c).matched = DOMAIN c.arr
    OBVIOUS
<1>3. PICK at, v, e, r : at = At(c) /\ v = V(c) /\ e = E(c) /\ r = R(c)
    OBVIOUS
<1>4. /\ at \in Times
      /\ at = now \/ (complete(c) /\ \E q \in Providers : at = c.arr[q])
    <2>1. now \in Times /\ ArrivalsTyped(c.arr) /\ config \in Configs
        BY DEF Typed, HandlerTyped, FinalTyped, AInv, Shape
    <2>2. CASE complete(c)
        <3> DEFINE S == {c.arr[q] : q \in Providers}
        <3>1. S \in SUBSET (0 .. MaxTime) /\ S # {} /\ MaxTime \in Nat
            BY <2>1, <2>2, Limits DEF ArrivalsTyped, Times
        <3>2. at = Max(S)
            BY <1>3, <2>2
        <3> HIDE DEF S
        <3>3. at \in S
            BY <3>1, <3>2, MaxOfBounded
        <3>4. at \in Times
            BY <3>1, <3>3 DEF Times
        <3>5. \E q \in Providers : at = c.arr[q]
            BY <3>3 DEF S
        <3>6. QED
            BY <2>2, <3>4, <3>5
    <2>3. CASE ~complete(c)
        BY <1>3, <2>1, <2>3
    <2>4. QED
        BY <2>2, <2>3
<1> HIDE DEF E, R, V, At, full
<1>5. /\ v.key = <<sealing.base, c.content>> /\ v.at = at /\ v.matched = DOMAIN c.arr
      /\ e.at = at /\ r.at = at /\ r.key = v.key
    BY <1>2, <1>3
<1> DEFINE o1 == Overflows(coverage)
           o2 == complete(c) /\ Overflows(cohorts)
<1>6. \/ UNCHANGED <<evictions, lastLoss>> /\ ~o1 /\ ~o2
      \/ evictions' \in Nat \ {0} /\ lastLoss' \in {at, now}
    <2>1. /\ o1 \in BOOLEAN /\ o2 \in BOOLEAN /\ full \in BOOLEAN
          /\ evictions \in Nat
        BY DEF full, Overflows, Typed, WindowTyped
    <2>2. /\ evictions' = evictions + (IF o1 THEN 1 ELSE 0) + (IF o2 THEN 1 ELSE 0)
                                    + (IF full THEN 1 ELSE 0)
          /\ lastLoss' = LossAfter(full, o1 \/ o2, at)
        BY <1>1, <1>3
    <2> HIDE DEF o1, o2, full
    <2>3. CASE ~o1 /\ ~o2 /\ ~full
        BY <2>1, <2>2, <2>3 DEF LossAfter
    <2>4. CASE o1 \/ o2 \/ full
        <3>1. evictions' \in Nat \ {0}
            BY <2>1, <2>2, <2>4
        <3>2. lastLoss' \in {at, now}
            BY <2>2, <2>4 DEF LossAfter
        <3>3. QED
            BY <3>1, <3>2
    <2>5. QED
        BY <2>3, <2>4
<1>7. Judged(c, at, v, e, r)
    BY <1>1, <1>3, <1>4, <1>5, <1>6 DEF Judged
<1>8. QED
    BY <1>4, <1>7

\* Finalizing counts each provider matched or missing.
LEMMA OutcomeTyped ==
    ASSUME Typed, Finalize
    PROVE  CountTyped'
<1> DEFINE outcome(c) == [q \in Providers |->
                            IF q \in DOMAIN c.arr THEN "matched"
                            ELSE IF q \in sealing.stray THEN "mismatch" ELSE "missing"]
           next(c, q) == [count[q] EXCEPT
                            !["matched"]  = IF outcome(c)[q] = "matched" THEN @ + 1 ELSE @,
                            !["missing"]  = IF outcome(c)[q] # "matched" THEN @ + 1 ELSE @,
                            !["mismatch"] = IF outcome(c)[q] = "mismatch" THEN @ + 1 ELSE @]
<1>1. PICK c \in final : count' = [q \in Providers |-> next(c, q)]
    BY DEF Finalize
<1>2. ASSUME NEW q \in Providers
      PROVE  next(c, q) \in [Counters -> Nat]
    <2>1. count[q] \in [Counters -> Nat]
        BY DEF Typed, CountTyped
    <2> PICK o : o = outcome(c)[q]
        OBVIOUS
    <2> HIDE DEF outcome
    <2>2. QED
        BY <2>1 DEF Counters
<1> HIDE DEF next
<1>3. config' = config
    BY DEF Finalize
<1>4. QED
    BY <1>1, <1>2, <1>3, LimitsStay DEF CountTyped

\* Finalizing a candidate keeps the types.
LEMMA FinalizeTypes ==
    ASSUME Typed, AInv, Finalize
    PROVE  Typed'
<1>1. UNCHANGED <<config, receiptVars, loop, now, obs, expired, sealing, pending, settledBases, opened>>
    BY DEF Finalize
<1>2. PICK c \in final, at \in Times : \E v, e, r : Judged(c, at, v, e, r)
    BY Finalized
<1>3. PICK v, e, r : Judged(c, at, v, e, r)
    BY <1>2
<1>4. ReceiptTyped' /\ PendingTyped'
    BY <1>1, TypesStay
<1>5. HandlerTyped'
    BY <1>1, LimitsStay DEF receiptVars, Typed, HandlerTyped
<1>6. FinalTyped'
    <2>1. final' = final \ {c}
        BY <1>3 DEF Judged
    <2>2. IsFiniteSet(final')
        BY <2>1, FS_RemoveElement DEF Typed, FinalTyped
    <2>3. \A arr : ArrivalsTyped(arr)' <=> ArrivalsTyped(arr)
        BY <1>1, TypesStay
    <2>4. QED
        BY <1>1, <2>1, <2>2, <2>3, LimitsStay DEF Typed, FinalTyped
<1>7. MaxRolling \in Nat \ {0} /\ now \in Times
    BY Limits DEF AInv, Shape, Typed, HandlerTyped
<1>8. RingTyped(cohorts) /\ RingTyped(coverage)
    BY DEF Typed, WindowTyped
<1>9. RingTyped(coverage)' /\ RingTyped(cohorts)'
    <2>1. RingTyped(Pushed(coverage, e))
        BY <1>3, <1>7, <1>8, PushedTyped DEF Judged
    <2>2. DOMAIN c.arr = Providers => RingTyped(Pushed(cohorts, r))
        BY <1>3, <1>7, <1>8, PushedTyped DEF Judged
    <2>3. PICK cv, ch : cv = Pushed(coverage, e) /\ ch = Pushed(cohorts, r)
        OBVIOUS
    <2>4. coverage' = cv /\ (cohorts' = cohorts \/ (DOMAIN c.arr = Providers /\ cohorts' = ch))
        BY <1>3, <2>3 DEF Judged
    <2>5. RingTyped(cv) /\ (DOMAIN c.arr = Providers => RingTyped(ch))
        BY <2>1, <2>2, <2>3
    <2>6. Times' = Times
        BY <1>1, LimitsStay
    <2>7. QED
        BY <1>8, <2>4, <2>5, <2>6 DEF RingTyped
<1>10. DOMAIN settled' \subseteq Bases \X Contents
    <2>1. \E d \in final : \E gone, w :
            /\ final' = final \ {d}
            /\ settled' = Put(Without(settled, gone), <<sealing.base, d.content>>, w)
        BY DEF Finalize
    <2>2. PICK d \in final : \E gone, w :
            settled' = Put(Without(settled, gone), <<sealing.base, d.content>>, w)
        BY <2>1
    <2>3. PICK gone, w : settled' = Put(Without(settled, gone), <<sealing.base, d.content>>, w)
        BY <2>2
    <2>4. d.content \in Contents /\ sealing.base \in Bases /\ DOMAIN settled \subseteq Bases \X Contents
        BY DEF Typed, FinalTyped, WindowTyped
    <2>5. DOMAIN Without(settled, gone) \subseteq DOMAIN settled
        BY DEF Without, Restrict
    <2>6. DOMAIN settled' = DOMAIN Without(settled, gone) \cup {<<sealing.base, d.content>>}
        BY <2>3 DEF Put
    <2>7. QED
        BY <2>4, <2>5, <2>6
<1>11. WindowTyped'
    <2>1. /\ lastLoss' \in Times \cup {NoLoss} /\ evictions' \in Nat
          /\ evictions' # 0 => lastLoss' # NoLoss
        BY <1>3, <1>7, TimesAre DEF Judged, Typed, WindowTyped, NoLoss, AInv, Shape
    <2>2. \A w \in verdicts' : w.at \in Times
        BY <1>3 DEF Judged, Typed, WindowTyped
    <2>3. QED
        BY <1>1, <1>9, <1>10, <2>1, <2>2, LimitsStay DEF Typed, WindowTyped, NoLoss
<1>12. QED
    BY <1>4, <1>5, <1>6, <1>11, OutcomeTyped DEF Typed

\* Pruning keeps what is young enough, and the types.
LEMMA PruneTypes ==
    ASSUME Typed, AInv, Prune
    PROVE  Typed'
<1>1. /\ final = {} /\ expired = {} /\ loop = "tick" /\ loop' = "view"
      /\ UNCHANGED <<config, receiptVars, now, obs, expired, sealing, final, pending, lastLoss,
                     evictions, count, historyVars>>
    BY DEF Prune
<1>2. ReceiptTyped' /\ PendingTyped' /\ FinalTyped' /\ CountTyped'
    BY <1>1, TypesStay
<1>3. HandlerTyped'
    BY <1>1, LimitsStay DEF Typed, HandlerTyped, LoopStates, receiptVars
<1>4. /\ DOMAIN settledBases' \subseteq DOMAIN settledBases
      /\ \A b \in DOMAIN settledBases' : settledBases'[b] = settledBases[b]
      /\ DOMAIN settled' \subseteq DOMAIN settled
    BY DEF Prune, Restrict
<1>5. RingTyped(InWindow(cohorts)) /\ RingTyped(InWindow(coverage))
    <2>1. \A s : {i \in DOMAIN s : Since(now, s[i].at) <= Window} \subseteq DOMAIN s
        OBVIOUS
    <2>2. \A s : RingTyped(s) => RingTyped(Kept(s, {i \in DOMAIN s : Since(now, s[i].at) <= Window}))
        <3>1. SUFFICES ASSUME NEW s, RingTyped(s)
                       PROVE  RingTyped(Kept(s, {i \in DOMAIN s : Since(now, s[i].at) <= Window}))
            OBVIOUS
        <3> PICK K : K = {i \in DOMAIN s : Since(now, s[i].at) <= Window}
            OBVIOUS
        <3>2. RingTyped(Kept(s, K))
            BY <2>1, <3>1, KeptTyped
        <3>3. QED
            BY <3>2
    <2>3. RingTyped(cohorts) /\ RingTyped(coverage)
        BY DEF Typed, WindowTyped
    <2>4. QED
        BY <2>2, <2>3 DEF InWindow
<1>6. RingTyped(cohorts)' /\ RingTyped(coverage)'
    <2>1. PICK ch, cv : ch = InWindow(cohorts) /\ cv = InWindow(coverage)
        OBVIOUS
    <2>2. cohorts' = ch /\ coverage' = cv /\ RingTyped(ch) /\ RingTyped(cv) /\ Times' = Times
        BY <1>1, <1>5, <2>1, LimitsStay DEF Prune
    <2>3. QED
        BY <2>2 DEF RingTyped
<1>7. WindowTyped'
    BY <1>1, <1>4, <1>6, LimitsStay DEF Typed, WindowTyped, NoLoss, historyVars
<1>8. QED
    BY <1>2, <1>3, <1>7 DEF Typed

\* A handler that returns leaves the types.
LEMMA ReturnTyped ==
    ASSUME Typed, AInv, Return, config' = config, expired' = {},
           UNCHANGED <<clock, pending>>
    PROVE  HandlerTyped'
<1>1. NoObs \in Observation /\ 0 \in Times
    BY Limits, TimesAre DEF NoObs, Observation, Claims, AInv, Shape
<1>2. QED
    BY <1>1, LimitsStay DEF Return, HandlerTyped, LoopStates

\* Taking an observation in hand, or rejecting it, keeps the types.
LEMMA TakenTypes ==
    ASSUME Typed, AInv, RecordAnomaly \/ BeginRecord
    PROVE  Typed'
<1>1. /\ loop = "idle" /\ queue # <<>> /\ queue' = Tail(queue)
      /\ UNCHANGED <<config, clock, stamped, dropped, left, expired, sealing, final, mapVars,
                     cohorts, coverage, evictions, historyVars>>
    BY DEF RecordAnomaly, BeginRecord, handlerVars, windowVars
<1>2. /\ Head(queue) \in Observation
      /\ Tail(queue) \in Seq(Observation) /\ Len(Tail(queue)) <= QueueCap
    BY <1>1, QueueTyped DEF Typed
<1> PICK o : o = Head(queue)
    OBVIOUS
<1>3. o \in Observation /\ o.prov \in Providers /\ o.at \in Times
    BY <1>2 DEF Observation
<1>4. ReceiptTyped'
    BY <1>1, <1>2, LimitsStay DEF Typed, ReceiptTyped
<1>5. PendingTyped' /\ FinalTyped'
    BY <1>1, TypesStay DEF mapVars
<1>6. CountTyped'
    <2>1. CountTyped /\ {"malformed", "observed"} \subseteq Counters
        BY DEF Typed, Counters
    <2>2. count' = Add(o.prov, "malformed") \/ count' = Add(o.prov, "observed")
        BY DEF RecordAnomaly, BeginRecord
    <2>3. QED
        BY <1>1, <1>3, <2>1, <2>2, AddTyped
<1>7. HandlerTyped'
    <2>1. expired = {}
        BY <1>1 DEF Typed, HandlerTyped
    <2>2. CASE RecordAnomaly
        BY <1>1, <2>1, <2>2, TypesStay DEF RecordAnomaly, mapVars
    <2>3. CASE BeginRecord
        <3>1. obs' = o /\ now' = o.at /\ loop' = "record" /\ o.claim # Anomaly
            BY <2>3 DEF BeginRecord
        <3>2. QED
            BY <1>1, <1>3, <2>1, <3>1, LimitsStay DEF HandlerTyped, LoopStates, Anomaly
    <2>4. QED
        BY <2>2, <2>3
<1>8. WindowTyped'
    <2>1. RingTyped(cohorts)' /\ RingTyped(coverage)'
        BY <1>1, LimitsStay DEF Typed, WindowTyped, RingTyped
    <2>2. lastLoss' = lastLoss \/ lastLoss' = o.at
        BY DEF RecordAnomaly, BeginRecord, windowVars
    <2>3. lastLoss' \in Times \cup {NoLoss} /\ (evictions' # 0 => lastLoss' # NoLoss)
        BY <1>1, <1>3, <2>2, TimesAre DEF Typed, WindowTyped, NoLoss, AInv, Shape
    <2>4. QED
        BY <1>1, <2>1, <2>3, LimitsStay DEF Typed, WindowTyped, NoLoss, mapVars, historyVars
<1>9. QED
    BY <1>4, <1>5, <1>6, <1>7, <1>8 DEF Typed

\* The loop settles a base with the handler it is in.
Settles(base, evicted) ==
    /\ final = {} /\ base \in DOMAIN pending /\ Settle(base, evicted)
    /\ \/ loop = "record" /\ (evicted \/ (IsExpired /\ base = Claimed))
       \/ loop = "admitted" /\ base = Claimed /\ ~evicted /\ Alone
       \/ loop = "tick" /\ base \in expired /\ ~evicted
    /\ expired' = expired \ {base}
    /\ UNCHANGED <<config, receiptVars, loop, now, obs, settled, cohorts, coverage, verdicts>>

\* Four actions settle a base.
LEMMA Settling ==
    ASSUME Typed, AInv, RecordExpired \/ RecordMakesRoom \/ SettleImmediately \/ SettleExpired
    PROVE  \E base \in DOMAIN pending, evicted \in BOOLEAN : Settles(base, evicted)
<1>1. expired \subseteq DOMAIN pending /\ (loop # "tick" => expired = {})
    BY DEF Typed, HandlerTyped
<1>2. CASE RecordExpired
    <2>1. Settles(Claimed, FALSE)
        BY <1>1, <1>2 DEF RecordExpired, Settles, IsExpired, IsPending
    <2>2. QED
        BY <1>2, <2>1 DEF RecordExpired, IsExpired, IsPending
<1>3. CASE RecordMakesRoom
    <2>1. PICK b \in Oldest([x \in DOMAIN pending |-> pending[x].first]) : Settle(b, TRUE)
        BY <1>3 DEF RecordMakesRoom
    <2>2. b \in DOMAIN pending
        BY <2>1 DEF Oldest
    <2>3. /\ loop = "record" /\ final = {} /\ expired = {}
          /\ UNCHANGED <<config, receiptVars, loop, now, obs, expired, settled, cohorts, coverage,
                         verdicts>>
        BY <1>1, <1>3 DEF RecordMakesRoom
    <2>4. expired' = expired \ {b}
        BY <2>3
    <2>5. Settles(b, TRUE)
        BY <2>1, <2>2, <2>3, <2>4 DEF Settles
    <2>6. QED
        BY <2>2, <2>5
<1>4. CASE SettleImmediately
    <2>1. final = {} /\ Alone /\ Claimed \in DOMAIN pending
        BY <1>4 DEF SettleImmediately, IsPending, Alone, AInv, Sealing
    <2>2. Settles(Claimed, FALSE)
        BY <1>1, <1>4, <2>1 DEF SettleImmediately, Settles
    <2>3. QED
        BY <2>1, <2>2
<1>5. CASE SettleExpired
    <2>1. PICK b \in expired : Settle(b, FALSE) /\ expired' = expired \ {b}
        BY <1>5 DEF SettleExpired
    <2>2. Settles(b, FALSE)
        BY <1>1, <1>5, <2>1 DEF SettleExpired, Settles
    <2>3. QED
        BY <1>1, <2>1, <2>2
<1>6. QED
    BY <1>2, <1>3, <1>4, <1>5

\* Settling keeps the types.
LEMMA SettlesTypes ==
    ASSUME Typed, AInv, NEW base \in DOMAIN pending, NEW evicted \in BOOLEAN, Settles(base, evicted)
    PROVE  Typed'
<1>1. /\ PendingTyped' /\ FinalTyped' /\ WindowTyped' /\ CountTyped'
      /\ DOMAIN pending' = DOMAIN pending \ {base}
    BY SettleTypes DEF Settles
<1>2. ReceiptTyped'
    BY TypesStay DEF Settles
<1>3. HandlerTyped'
    BY <1>1, LimitsStay DEF Settles, Typed, HandlerTyped, receiptVars
<1>4. QED
    BY <1>1, <1>2, <1>3 DEF Typed

\* Every variable keeps its type, with what the later proofs need of them (src/benchmark.rs and
\* src/model.rs).
LEMMA TypedKept == AInv /\ Typed /\ [Next]_vars => Typed'
<1> SUFFICES ASSUME AInv, Typed, [Next]_vars PROVE Typed'
    OBVIOUS
<1>1. CASE Receipt
    BY <1>1, ReceiptTypes
<1>2. CASE RecordAnomaly \/ BeginRecord
    BY <1>2, TakenTypes
<1>3. CASE RecordExpired \/ RecordMakesRoom \/ SettleImmediately \/ SettleExpired
    BY <1>3, Settling, SettlesTypes
<1>4. CASE RecordSealed \/ EndRecord \/ EndTick
    <2>1. /\ Return /\ UNCHANGED <<config, receiptVars, expired, final, mapVars, windowVars, historyVars>>
          /\ loop # "tick"
        BY <1>4 DEF RecordSealed, EndRecord, EndTick
    <2>2. expired' = {}
        BY <2>1 DEF Typed, HandlerTyped
    <2>3. HandlerTyped'
        BY <2>1, <2>2, ReturnTyped DEF receiptVars, mapVars
    <2>4. final = {}
        BY <1>4 DEF RecordSealed, EndRecord, EndTick, AInv, Sealing
    <2>5. FinalTyped'
        BY <2>1, <2>4, FS_EmptySet DEF FinalTyped
    <2>6. CountTyped'
        <3>1. CASE RecordSealed
            <4>1. count' = Add(obs.prov, "duplicate") \/ count' = Add(obs.prov, "late")
                BY <3>1 DEF RecordSealed
            <4>2. obs.prov \in Providers /\ {"duplicate", "late"} \subseteq Counters
                BY DEF Typed, HandlerTyped, Observation, Counters
            <4>3. QED
                BY <2>1, <4>1, <4>2, AddTyped DEF Typed
        <3>2. CASE EndRecord \/ EndTick
            BY <2>1, <3>2, TypesStay DEF EndRecord, EndTick
        <3>3. QED
            BY <1>4, <3>1, <3>2
    <2>7. QED
        BY <2>1, <2>3, <2>5, <2>6, TypesStay DEF Typed, mapVars, historyVars
<1>5. CASE RecordAdmitted
    BY <1>5, AdmittedTypes
<1>6. CASE BeginTick
    <2>1. /\ loop' = "tick" /\ now' = clock /\ expired' \subseteq DOMAIN pending
          /\ UNCHANGED <<config, receiptVars, obs, sealing, final, mapVars, windowVars, count,
                         historyVars>>
        BY <1>6 DEF BeginTick
    <2>2. HandlerTyped'
        BY <2>1, LimitsStay DEF Typed, HandlerTyped, ReceiptTyped, LoopStates, receiptVars, mapVars
    <2>3. QED
        BY <2>1, <2>2, TypesStay DEF Typed, mapVars, historyVars
<1>7. CASE Prune
    BY <1>7, PruneTypes
<1>8. CASE Finalize
    BY <1>8, FinalizeTypes
<1>9. CASE UNCHANGED vars
    <2>1. UNCHANGED <<config, receiptVars, handlerVars, mapVars, windowVars, count, historyVars>>
        BY <1>9 DEF vars
    <2>2. QED
        BY <2>1, TypesStay DEF Typed, mapVars, historyVars, receiptVars, handlerVars
<1>10. QED
    BY <1>1, <1>2, <1>3, <1>4, <1>5, <1>6, <1>7, <1>8, <1>9 DEF Next, Record, Tick

\* Init is typed.
LEMMA TypedInit == Init => Typed
<1> SUFFICES ASSUME Init PROVE Typed
    OBVIOUS
<1>1. config \in Configs
    BY DEF Init
<1>2. 0 \in Times /\ MaxArrivals \in Nat /\ Reference \in Providers
    BY <1>1, TimesAre, Limits
<1>3. ReceiptTyped
    BY <1>2, EmptySeq, QueueAssumption DEF Init, ReceiptTyped
<1>4. HandlerTyped
    BY <1>2 DEF Init, HandlerTyped, LoopStates, NoObs, Observation, Claims
<1>5. PendingTyped
    BY FS_EmptySet DEF Init, PendingTyped
<1>6. FinalTyped
    BY FS_EmptySet DEF Init, FinalTyped
<1>7. WindowTyped
    <2>1. \A s : s = <<>> => RingTyped(s)
        BY EmptySeq DEF RingTyped
    <2>2. QED
        BY <2>1 DEF Init, WindowTyped, NoLoss
<1>8. CountTyped
    BY DEF Init, CountTyped
<1>9. QED
    BY <1>3, <1>4, <1>5, <1>6, <1>7, <1>8 DEF Typed

\* So every variable is typed always.
LEMMA AlwaysTyped == Spec => []Typed
BY TypedInit, TypedKept, AdmissionInvariant, PTL DEF Spec

\* Every variable has its type (src/benchmark.rs, Benchmark and its windows; src/model.rs).
THEOREM CohortTypes == Spec => []TypeOK
<1>1. Typed => TypeOK
    <2> SUFFICES ASSUME Typed PROVE TypeOK
        OBVIOUS
    <2>1. Range(settledBases) \subseteq Times
        BY DEF Typed, WindowTyped, Range
    <2>2. QED
        BY <2>1 DEF Typed, ReceiptTyped, HandlerTyped, PendingTyped, BaseTyped, ArrivalsTyped,
                    FinalTyped, WindowTyped, CountTyped, TypeOK
<1>2. QED
    BY <1>1, AlwaysTyped, PTL
-----------------------------------------------------------------------------
(* Entries and the verdicts they stand for. *)

\* Times of a frame, of the entries of a ring and of verdicts.
FrameTyped(w) ==
    /\ w.loss \in Int /\ w.time \in Nat /\ w.span \in Nat
    /\ \A b \in DOMAIN w.buried : w.buried[b] \in Nat

TimedRing(ring) == (\E n \in Nat : DOMAIN ring = 1 .. n) /\ \A i \in DOMAIN ring : ring[i].at \in Nat
Timed(V)        == \A v \in V : v.at \in Nat

\* Time, a later loss and a base sealed take entries away from what is to be backed.
LEMMA BackingStays ==
    ASSUME NEW ring, TimedRing(ring), NEW V, Timed(V), NEW w, NEW x, FrameTyped(w), FrameTyped(x),
           NEW m, IsBacking(ring, m, V, w),
           w.loss <= x.loss, w.time <= x.time, x.span = w.span,
           \A b \in DOMAIN w.buried : b \in DOMAIN x.buried /\ x.buried[b] = w.buried[b],
           \A k \in x.due : k \in w.due \/ k[1] \notin DOMAIN w.buried
    PROVE  \E n : IsBacking(ring, n, V, x) /\ (Keyed(ring, m) => Keyed(ring, n))
<1> DEFINE n == [i \in {i \in DOMAIN ring : ring[i].at > x.loss} |-> m[i]]
<1>1. /\ DOMAIN n = {i \in DOMAIN ring : ring[i].at > x.loss}
      /\ \A i \in DOMAIN n : n[i] = m[i]
    OBVIOUS
<1> HIDE DEF n
<1>2. \A i \in DOMAIN n : i \in DOMAIN m
    BY <1>1 DEF IsBacking, FrameTyped, TimedRing
<1>3. \A i \in DOMAIN n :
        /\ n[i] \in V /\ n[i].at = ring[i].at
        /\ n[i].key[1] \in DOMAIN x.buried /\ n[i].at <= x.buried[n[i].key[1]]
        /\ n[i].key \notin x.due
    BY <1>1, <1>2 DEF IsBacking
<1>4. \A i, j \in DOMAIN n : n[i].key = n[j].key => i = j
    BY <1>1, <1>2 DEF IsBacking
<1>5. ASSUME NEW v \in V, v.at > x.loss, Since(x.time, v.at) <= x.span
      PROVE  \E i \in DOMAIN n : n[i] = v
    <2>1. v.at > w.loss /\ Since(w.time, v.at) <= w.span
        BY <1>5 DEF FrameTyped, Timed, Since
    <2>2. PICK i \in DOMAIN m : m[i] = v
        BY <2>1 DEF IsBacking
    <2>3. i \in DOMAIN n
        BY <1>1, <1>5, <2>2 DEF IsBacking
    <2>4. QED
        BY <1>1, <2>2, <2>3
<1>6. IsBacking(ring, n, V, x)
    BY <1>1, <1>3, <1>4, <1>5 DEF IsBacking
<1>7. Keyed(ring, m) => Keyed(ring, n)
    BY <1>1, <1>2 DEF Keyed
<1>8. QED
    BY <1>6, <1>7

\* Nothing after the loss needs backing.
LEMMA NothingBacks ==
    ASSUME NEW ring, TimedRing(ring), NEW V, Timed(V), NEW w, FrameTyped(w),
           \A i \in DOMAIN ring : ring[i].at <= w.loss, \A v \in V : v.at <= w.loss
    PROVE  \E n : IsBacking(ring, n, V, w) /\ Keyed(ring, n)
<1> DEFINE n == [i \in {} |-> 0]
<1>1. {i \in DOMAIN ring : ring[i].at > w.loss} = {}
    BY DEF FrameTyped, TimedRing
<1>2. \A v \in V : ~(v.at > w.loss)
    BY DEF FrameTyped, Timed
<1>3. DOMAIN n = {}
    OBVIOUS
<1> HIDE DEF n
<1>4. IsBacking(ring, n, V, w) /\ Keyed(ring, n)
    BY <1>1, <1>2, <1>3 DEF IsBacking, Keyed
<1>5. QED
    BY <1>4

\* An entry pushed stands for the verdict that is no longer due.
LEMMA BackingPushed ==
    ASSUME NEW ring, TimedRing(ring), NEW V, Timed(V), NEW w, NEW x, FrameTyped(w), FrameTyped(x),
           NEW m, IsBacking(ring, m, V, w),
           x.loss = w.loss, x.time = w.time, x.span = w.span, x.buried = w.buried,
           x.due \subseteq w.due,
           NEW v, v.at \in Nat, v.key \in w.due, v.key \notin x.due,
           v.key[1] \in DOMAIN w.buried, v.at <= w.buried[v.key[1]],
           NEW e, e.at = v.at, NEW r, NEW p, IsPushed(r, p, ring, e), ~Overflows(ring),
           Len(ring) \in Nat, DOMAIN ring = 1 .. Len(ring)
    PROVE  \E n : /\ IsBacking(r, n, V \cup {v}, x)
                  /\ Keyed(ring, m) /\ e.key = v.key => Keyed(r, n)
<1> DEFINE n == [i \in {i \in DOMAIN r : r[i].at > x.loss} |-> IF p[i] = 0 THEN v ELSE m[p[i]]]
<1>1. /\ DOMAIN n = {i \in DOMAIN r : r[i].at > x.loss}
      /\ \A i \in DOMAIN n : n[i] = IF p[i] = 0 THEN v ELSE m[p[i]]
    OBVIOUS
<1> HIDE DEF n
<1>2. \A i \in DOMAIN r : p[i] \in 0 .. Len(ring) /\ r[i] = IF p[i] = 0 THEN e ELSE ring[p[i]]
    BY DEF IsPushed
<1>3. \A i \in DOMAIN n : i \in DOMAIN r /\ (p[i] # 0 => p[i] \in DOMAIN m /\ r[i] = ring[p[i]])
    <2>1. SUFFICES ASSUME NEW i \in DOMAIN n, p[i] # 0
                   PROVE  p[i] \in DOMAIN m /\ r[i] = ring[p[i]]
        BY <1>1
    <2>2. i \in DOMAIN r /\ r[i].at > w.loss /\ p[i] \in 1 .. Len(ring) /\ r[i] = ring[p[i]]
        BY <1>1, <1>2, <2>1
    <2>3. QED
        BY <2>2 DEF IsBacking
<1>4. ASSUME NEW i \in DOMAIN n
      PROVE  /\ n[i] \in V \cup {v} /\ n[i].at = r[i].at
             /\ n[i].key[1] \in DOMAIN x.buried /\ n[i].at <= x.buried[n[i].key[1]]
             /\ n[i].key \notin x.due
    <2>1. CASE p[i] = 0
        BY <1>1, <1>2, <1>3, <2>1
    <2>2. CASE p[i] # 0
        BY <1>1, <1>2, <1>3, <2>2 DEF IsBacking
    <2>3. QED
        BY <2>1, <2>2
<1>5. ASSUME NEW i \in DOMAIN n, NEW j \in DOMAIN n, n[i].key = n[j].key
      PROVE  i = j
    <2>1. i \in DOMAIN r /\ j \in DOMAIN r /\ (p[i] = p[j] => i = j)
        BY <1>3 DEF IsPushed
    <2>2. \A k \in DOMAIN m : m[k].key # v.key
        BY DEF IsBacking
    <2>3. CASE p[i] # 0 /\ p[j] # 0
        BY <1>1, <1>3, <1>5, <2>1, <2>3 DEF IsBacking
    <2>4. CASE p[i] = 0 /\ p[j] # 0
        BY <1>1, <1>3, <1>5, <2>2, <2>4
    <2>5. CASE p[i] # 0 /\ p[j] = 0
        BY <1>1, <1>3, <1>5, <2>2, <2>5
    <2>6. QED
        BY <2>1, <2>3, <2>4, <2>5
<1>6. ASSUME NEW u \in V \cup {v}, u.at > x.loss, Since(x.time, u.at) <= x.span
      PROVE  \E i \in DOMAIN n : n[i] = u
    <2>1. \A j \in 0 .. Len(ring) : \E i \in DOMAIN r : p[i] = j
        BY DEF IsPushed
    <2>2. CASE u = v
        <3>1. PICK i \in DOMAIN r : p[i] = 0
            BY <2>1
        <3>2. r[i] = e
            BY <1>2, <3>1
        <3>3. i \in DOMAIN n
            BY <1>1, <1>6, <2>2, <3>2
        <3>4. QED
            BY <1>1, <2>2, <3>1, <3>3
    <2>3. CASE u \in V
        <3>1. PICK k \in DOMAIN m : m[k] = u
            BY <1>6, <2>3 DEF IsBacking
        <3>2. k \in 1 .. Len(ring) /\ k # 0 /\ ring[k].at = u.at
            BY <3>1 DEF IsBacking
        <3>3. PICK i \in DOMAIN r : p[i] = k
            BY <2>1, <3>2
        <3>4. r[i] = ring[k]
            BY <1>2, <3>2, <3>3
        <3>5. i \in DOMAIN n
            BY <1>1, <1>6, <3>2, <3>4
        <3>6. QED
            BY <1>1, <3>1, <3>2, <3>3, <3>5
    <2>4. QED
        BY <2>2, <2>3
<1>7. IsBacking(r, n, V \cup {v}, x)
    BY <1>1, <1>4, <1>5, <1>6 DEF IsBacking
<1>8. ASSUME Keyed(ring, m), e.key = v.key
      PROVE  Keyed(r, n)
    <2>1. ASSUME NEW i \in DOMAIN n
          PROVE  r[i].key = n[i].key
        BY <1>1, <1>2, <1>3, <1>8 DEF Keyed
    <2>2. QED
        BY <2>1 DEF Keyed
<1>9. QED
    BY <1>7, <1>8

\* What is kept of a ring is backed by what it was backed by.
LEMMA BackingPruned ==
    ASSUME NEW ring, TimedRing(ring), NEW V, Timed(V), NEW w, NEW x, FrameTyped(w), FrameTyped(x),
           NEW m, IsBacking(ring, m, V, w),
           x.loss = w.loss, x.time = w.time, x.span = w.span, x.due = w.due,
           \A b \in DOMAIN w.buried : Since(w.time, w.buried[b]) <= w.span =>
                b \in DOMAIN x.buried /\ x.buried[b] = w.buried[b],
           NEW r, NEW p, NEW K, K \subseteq DOMAIN ring,
           \A i \in DOMAIN ring : i \in K <=> Since(w.time, ring[i].at) <= w.span,
           TimedRing(r), IsThinned(r, p, ring, K, Len(ring)),
           DOMAIN ring = 1 .. Len(ring), Len(ring) \in Nat
    PROVE  \E n : IsBacking(r, n, V, x) /\ (Keyed(ring, m) => Keyed(r, n))
<1> DEFINE n == [i \in {i \in DOMAIN r : r[i].at > x.loss} |-> m[p[i]]]
<1>1. /\ DOMAIN n = {i \in DOMAIN r : r[i].at > x.loss}
      /\ \A i \in DOMAIN n : n[i] = m[p[i]]
    OBVIOUS
<1> HIDE DEF n
<1>2. \A i \in DOMAIN n : /\ i \in DOMAIN r /\ p[i] \in DOMAIN m /\ r[i] = ring[p[i]]
                          /\ Since(w.time, ring[p[i]].at) <= w.span
    <2>1. SUFFICES ASSUME NEW i \in DOMAIN n
                   PROVE  /\ i \in DOMAIN r /\ p[i] \in DOMAIN m /\ r[i] = ring[p[i]]
                          /\ Since(w.time, ring[p[i]].at) <= w.span
        OBVIOUS
    <2>2. i \in DOMAIN r /\ p[i] \in K /\ r[i] = ring[p[i]] /\ r[i].at > w.loss
        BY <1>1 DEF IsThinned
    <2>3. QED
        BY <2>2 DEF IsBacking
<1>3. ASSUME NEW i \in DOMAIN n
      PROVE  /\ n[i] \in V /\ n[i].at = r[i].at
             /\ n[i].key[1] \in DOMAIN x.buried /\ n[i].at <= x.buried[n[i].key[1]]
             /\ n[i].key \notin x.due
    <2> PICK u : u = m[p[i]]
        OBVIOUS
    <2>1. /\ u \in V /\ u.at = ring[p[i]].at /\ u.key[1] \in DOMAIN w.buried
          /\ u.at <= w.buried[u.key[1]] /\ u.key \notin w.due /\ n[i] = u
          /\ Since(w.time, u.at) <= w.span /\ r[i] = ring[p[i]]
        BY <1>1, <1>2 DEF IsBacking
    <2>2. Since(w.time, w.buried[u.key[1]]) <= w.span
        <3>1. /\ w.buried[u.key[1]] \in Nat /\ u.at \in Nat /\ u.at <= w.buried[u.key[1]]
              /\ w.time \in Nat /\ w.span \in Nat /\ Since(w.time, u.at) <= w.span
            BY <2>1 DEF FrameTyped, Timed
        <3>2. QED
            BY <3>1 DEF Since
    <2>3. QED
        BY <2>1, <2>2
<1>4. ASSUME NEW i \in DOMAIN n, NEW j \in DOMAIN n, n[i].key = n[j].key
      PROVE  i = j
    <2>1. p[i] = p[j]
        BY <1>1, <1>2, <1>4 DEF IsBacking
    <2>2. /\ i \in DOMAIN r /\ j \in DOMAIN r /\ p[i] \in Nat /\ p[j] \in Nat
          /\ \A a, b \in DOMAIN r : a < b => p[a] < p[b]
        BY <1>2 DEF IsThinned, IsBacking
    <2>3. ~(i < j) /\ ~(j < i)
        BY <2>1, <2>2
    <2>4. i \in Nat /\ j \in Nat
        BY <2>2 DEF TimedRing
    <2>5. QED
        BY <2>3, <2>4
<1>5. ASSUME NEW v \in V, v.at > x.loss, Since(x.time, v.at) <= x.span
      PROVE  \E i \in DOMAIN n : n[i] = v
    <2>1. PICK k \in DOMAIN m : m[k] = v
        BY <1>5 DEF IsBacking
    <2>2. k \in DOMAIN ring /\ ring[k].at = v.at /\ k \in K /\ k \in 1 .. Len(ring)
        BY <1>5, <2>1 DEF IsBacking
    <2>3. PICK i \in DOMAIN r : p[i] = k
        BY <2>2 DEF IsThinned
    <2>4. r[i] = ring[k]
        BY <2>3 DEF IsThinned
    <2>5. i \in DOMAIN n
        BY <1>1, <1>5, <2>2, <2>4
    <2>6. QED
        BY <1>1, <2>1, <2>3, <2>5
<1>6. IsBacking(r, n, V, x)
    BY <1>1, <1>3, <1>4, <1>5 DEF IsBacking
<1>7. Keyed(ring, m) => Keyed(r, n)
    BY <1>1, <1>2 DEF Keyed
<1>8. QED
    BY <1>6, <1>7
-----------------------------------------------------------------------------
(* What is past stays past. *)

\* Stamping, queueing and time put nothing before what was past.
LEMMA ReceiptAfter ==
    ASSUME AInv, Lag = 0, Receipt, NEW q \in Providers, NEW b, NEW t \in Nat, After(q, b, t)
    PROVE  After(q, b, t)'
<1>0. config' = config
    BY DEF Receipt, Stamp, Send, Advance
<1>1. /\ clock \in Nat /\ stamped \in [Providers -> Seq(Stamped)] /\ queue \in Seq(Stamped)
      /\ t <= clock /\ (stamped[q] # <<>> => t <= Head(stamped[q]).at)
      /\ \A i \in DOMAIN queue : queue[i].prov = q => t <= queue[i].at
    BY DEF AInv, Shape, After, Ordered, Follows
<1>2. ASSUME NEW p \in Providers, Stamp(p)
      PROVE  After(q, b, t)'
    <2>1. PICK claim \in Claims, at \in Since(clock, Lag) .. clock :
            stamped' = [stamped EXCEPT ![p] = <<[prov |-> p, claim |-> claim, at |-> at]>>]
        BY <1>2 DEF Stamp
    <2> PICK o : o = [prov |-> p, claim |-> claim, at |-> at]
        OBVIOUS
    <2>2. at = clock
        BY <1>1 DEF Since
    <2>3. /\ stamped'[p] = <<o>> /\ Head(stamped'[p]) = o /\ o.at = clock
          /\ q # p => stamped'[q] = stamped[q]
        BY <1>1, <2>1, <2>2
    <2>4. UNCHANGED <<clock, queue>>
        BY <1>2 DEF Stamp
    <2>5. QED
        BY <1>1, <2>3, <2>4 DEF After, Follows
<1>3. ASSUME NEW p \in Providers, Send(p)
      PROVE  After(q, b, t)'
    <2> PICK o : o = Head(stamped[p])
        OBVIOUS
    <2>1. /\ stamped[p] # <<>> /\ stamped' = [stamped EXCEPT ![p] = <<>>] /\ clock' = clock
          /\ queue' = queue \/ queue' = Append(queue, o)
        BY <1>3 DEF Send
    <2>2. stamped'[q] # <<>> => stamped'[q] = stamped[q]
        BY <1>1, <2>1
    <2>3. o \in Stamped /\ o.prov = p
        BY <2>1, Waiting DEF AInv, Ordered
    <2>4. ASSUME NEW i \in DOMAIN queue', queue'[i].prov = q
          PROVE  t <= queue'[i].at
        <3>1. CASE queue' = queue
            BY <1>1, <2>4, <3>1
        <3>2. CASE queue' = Append(queue, o)
            <4>1. /\ DOMAIN queue = 1 .. Len(queue) /\ Len(queue) \in Nat
                  /\ DOMAIN queue' = 1 .. Len(queue) + 1
                  /\ \A j \in 1 .. Len(queue) : queue'[j] = queue[j]
                  /\ queue'[Len(queue) + 1] = o
                BY <1>1, <2>3, <3>2, LenProperties, AppendProperties
            <4>2. i \in DOMAIN queue \/ i = Len(queue) + 1
                BY <2>4, <4>1
            <4>3. QED
                BY <1>1, <2>1, <2>3, <2>4, <4>1, <4>2
        <3>3. QED
            BY <2>1, <3>1, <3>2
    <2>5. QED
        BY <1>1, <2>1, <2>2, <2>4 DEF After, Follows
<1>4. ASSUME Advance
      PROVE  After(q, b, t)'
    BY <1>1, <1>4 DEF Advance, After, Follows
<1>5. QED
    BY <1>2, <1>3, <1>4 DEF Receipt

\* What a step leaves of the receipt side and the hand of the loop.
LEMMA LoopSteps ==
    ASSUME Typed, AInv, [Next]_vars
    PROVE  \/ Receipt
           \/ RecordAnomaly \/ BeginRecord
           \/ /\ UNCHANGED <<config, clock, stamped, queue>>
              /\ loop' \in {"record", "admitted"} =>
                    loop \in {"record", "admitted"} /\ now' = now /\ obs' = obs
<1>1. ASSUME NEW base \in DOMAIN pending, NEW evicted \in BOOLEAN, Settles(base, evicted)
      PROVE  /\ UNCHANGED <<config, clock, stamped, queue>>
             /\ loop' \in {"record", "admitted"} =>
                   loop \in {"record", "admitted"} /\ now' = now /\ obs' = obs
    BY <1>1 DEF Settles, receiptVars
<1>2. CASE RecordExpired \/ RecordMakesRoom \/ SettleImmediately \/ SettleExpired
    BY <1>1, <1>2, Settling
<1>3. CASE RecordSealed \/ EndRecord \/ EndTick
    BY <1>3 DEF RecordSealed, EndRecord, EndTick, Return, receiptVars
<1>4. CASE RecordAdmitted
    BY <1>4 DEF RecordAdmitted, Return, receiptVars
<1>5. CASE BeginTick \/ Prune \/ Finalize
    BY <1>5 DEF BeginTick, Prune, Finalize, receiptVars
<1>6. CASE UNCHANGED vars
    BY <1>6 DEF vars, receiptVars, handlerVars
<1>7. QED
    BY <1>2, <1>3, <1>4, <1>5, <1>6 DEF Next, Record, Tick

\* What is past stays so.
LEMMA PastStays ==
    ASSUME Typed, AInv, [Next]_vars, Lag = 0, NEW t \in Nat, Past(t)
    PROVE  Past(t)'
<1>1. \A b : \A p \in Providers : After(p, b, t)
    BY DEF Past
<1>2. CASE Receipt
    <2>1. loop' = loop /\ loop = "idle" /\ config' = config
        BY <1>2 DEF Receipt, Stamp, Send, Advance, handlerVars
    <2>2. QED
        BY <1>1, <1>2, <2>1, ReceiptAfter, LimitsStay DEF Past
<1>3. CASE RecordAnomaly \/ BeginRecord
    <2>1. /\ queue # <<>> /\ queue' = Tail(queue) /\ UNCHANGED <<config, clock, stamped>>
        BY <1>3 DEF RecordAnomaly, BeginRecord
    <2> PICK o : o = Head(queue)
        OBVIOUS
    <2>2. /\ o.prov \in Providers
          /\ \A b : \A p \in Providers : After(p, b, t)' /\ (o.prov = p => t <= o.at)
        BY <1>1, <2>1, HeadTaken DEF Follows
    <2>3. loop' \in {"record", "admitted"} => now' = o.at
        BY <1>3 DEF RecordAnomaly, BeginRecord, handlerVars
    <2>4. QED
        BY <2>1, <2>2, <2>3, LimitsStay DEF Past
<1>4. CASE /\ UNCHANGED <<config, clock, stamped, queue>>
           /\ loop' \in {"record", "admitted"} =>
                 loop \in {"record", "admitted"} /\ now' = now /\ obs' = obs
    BY <1>1, <1>4, LimitsStay DEF Past, After, Follows
<1>5. QED
    BY <1>2, <1>3, <1>4, LoopSteps

\* With one source, the stamp in hand is before all to come.
LEMMA NowIsPast ==
    ASSUME Typed, AInv, [Next]_vars, Steady, loop \in {"record", "admitted"} => Past(now),
           loop' \in {"record", "admitted"}
    PROVE  Past(now)'
<1>1. CASE BeginRecord
    <2>1. /\ queue # <<>> /\ queue' = Tail(queue) /\ UNCHANGED <<config, clock, stamped>>
        BY <1>1 DEF BeginRecord
    <2> PICK o : o = Head(queue)
        OBVIOUS
    <2>2. o.prov \in Providers /\ After(o.prov, o.claim[1], o.at)' /\ now' = o.at
        BY <1>1, <2>1, HeadTaken DEF BeginRecord, Steady
    <2>3. IsFiniteSet(Providers) /\ Cardinality(Providers) = 1
        BY Limits DEF Steady, Alone, AInv, Shape
    <2>4. PICK p : Providers = {p}
        BY <2>3, FS_Singleton
    <2>5. \A b : \A q \in Providers : After(q, b, o.at)'
        BY <2>1, <2>2, <2>4, LimitsStay DEF After, Follows, Steady
    <2>6. o.at \in Nat
        BY <2>1, HeadTaken
    <2>7. QED
        BY <2>1, <2>2, <2>5, <2>6, LimitsStay DEF Past, After, Follows
<1>2. CASE Receipt \/ RecordAnomaly
    <2>1. loop' = "idle"
        BY <1>2 DEF Receipt, Stamp, Send, Advance, RecordAnomaly, handlerVars
    <2>2. QED
        BY <2>1
<1>3. CASE loop \in {"record", "admitted"} /\ now' = now
    <2> PICK t : t = now
        OBVIOUS
    <2>1. t \in Nat
        BY TimesAre DEF Typed, HandlerTyped, AInv, Shape
    <2>2. Past(t)'
        BY <1>3, <2>1, PastStays DEF Steady
    <2>3. QED
        BY <1>3, <2>2 DEF Past, After
<1>4. QED
    BY <1>1, <1>2, <1>3, LoopSteps

\* What a push leaves in a ring was there or is the entry pushed.
LEMMA PushedEntries ==
    ASSUME NEW s, RingTyped(s), NEW x, x.at \in Times, MaxRolling \in Nat \ {0}, NEW r, r = Pushed(s, x)
    PROVE  \A i \in DOMAIN r : r[i].at = x.at \/ \E j \in DOMAIN s : r[i].at = s[j].at
<1>1. \E m : IsPushed(r, m, s, x)
    BY PushedTyped
<1>2. PICK m : IsPushed(r, m, s, x)
    BY <1>1
<1>3. DOMAIN s = 1 .. Len(s) /\ Len(s) \in Nat
    BY LenProperties DEF RingTyped
<1>4. QED
    BY <1>2, <1>3 DEF IsPushed

\* What a prune leaves in a ring was there.
LEMMA KeptEntries ==
    ASSUME NEW s, RingTyped(s), NEW K, K \subseteq DOMAIN s, NEW r, r = Kept(s, K)
    PROVE  \A i \in DOMAIN r : \E j \in K : r[i] = s[j]
<1>1. \E m : IsThinned(r, m, s, K, Len(s))
    BY KeptTyped
<1>2. PICK m : IsThinned(r, m, s, K, Len(s))
    BY <1>1
<1>3. QED
    BY <1>2 DEF IsThinned

\* After a prune the rings hold what is young enough.
LEMMA PrunedEntries ==
    ASSUME Typed, Prune
    PROVE  /\ \A i \in DOMAIN coverage' : \E j \in DOMAIN coverage :
                coverage'[i] = coverage[j] /\ Since(now, coverage[j].at) <= Window
           /\ \A i \in DOMAIN cohorts' : \E j \in DOMAIN cohorts :
                cohorts'[i] = cohorts[j] /\ Since(now, cohorts[j].at) <= Window
<1>1. ASSUME NEW s, RingTyped(s), NEW r, r = InWindow(s)
      PROVE  \A i \in DOMAIN r : \E j \in DOMAIN s : r[i] = s[j] /\ Since(now, s[j].at) <= Window
    <2>0. PICK K : K = {i \in DOMAIN s : Since(now, s[i].at) <= Window}
        OBVIOUS
    <2>1. r = Kept(s, K)
        BY <1>1, <2>0 DEF InWindow
    <2>2. K \subseteq DOMAIN s
        BY <2>0
    <2>3. \A i \in DOMAIN r : \E j \in K : r[i] = s[j]
        BY <1>1, <2>1, <2>2, KeptEntries
    <2>4. QED
        BY <2>0, <2>3
<1>2. RingTyped(coverage) /\ RingTyped(cohorts)
    BY DEF Typed, WindowTyped
<1>3. PICK cv, ch : cv = InWindow(coverage) /\ ch = InWindow(cohorts)
    OBVIOUS
<1>4. coverage' = cv /\ cohorts' = ch
    BY <1>3 DEF Prune
<1>5. QED
    BY <1>1, <1>2, <1>3, <1>4

\* The steps of a process with one source: what it settles is the base just opened.
LEMMA AtOnceSettles ==
    ASSUME Typed, AInv, Alone, AtOnce,
           NEW base \in DOMAIN pending, NEW evicted \in BOOLEAN, Settles(base, evicted)
    PROVE  /\ loop = "admitted" /\ loop' = "admitted" /\ now' = now /\ DOMAIN pending' = {}
           /\ \A f \in final' : \A q \in DOMAIN f.arr : f.arr[q] = now
           /\ lastLoss' = lastLoss \/ lastLoss' = now
           /\ UNCHANGED <<coverage, cohorts, verdicts>>
<1>1. loop = "admitted" /\ base = Claimed /\ DOMAIN pending = {Claimed}
    BY DEF Settles, AtOnce
<1>2. DOMAIN pending' = DOMAIN pending \ {base}
    BY SettleTypes DEF Settles
<1>3. \A f \in final' : \A q \in DOMAIN f.arr : f.arr[q] = now
    <2>1. SUFFICES ASSUME NEW f \in final', NEW q \in DOMAIN f.arr PROVE f.arr[q] = now
        OBVIOUS
    <2>2. /\ f.content \in DOMAIN pending[base].cands
          /\ f.arr[q] = pending[base].cands[f.content].arr[q]
          /\ q \in DOMAIN pending[base].cands[f.content].arr
        BY SealedFinal DEF Settles
    <2>3. QED
        BY <2>2 DEF AtOnce
<1>4. lastLoss' = lastLoss \/ lastLoss' = now
    BY DEF Settles, Settle, InsertSettledBase
<1>5. QED
    BY <1>1, <1>2, <1>3, <1>4 DEF Settles

\* The observation opens its base, and is all there is of it.
LEMMA AtOnceAdmits ==
    ASSUME Typed, AInv, Alone, AtOnce, RecordAdmitted
    PROVE  /\ loop = "record" /\ loop' = "admitted" /\ now' = now /\ obs' = obs /\ final' = {}
           /\ DOMAIN pending' = {Claimed}
           /\ \A b \in DOMAIN pending' : \A c \in DOMAIN pending'[b].cands :
                \A q \in DOMAIN pending'[b].cands[c].arr : pending'[b].cands[c].arr[q] = now
           /\ UNCHANGED <<lastLoss, coverage, cohorts, verdicts>>
<1>1. /\ loop = "record" /\ final' = {} /\ DOMAIN pending = {}
      /\ UNCHANGED <<coverage, cohorts, verdicts>> /\ now = obs.at
    BY DEF RecordAdmitted, AtOnce, Typed, HandlerTyped, historyVars
<1>2. PICK b : /\ pending' = Put(pending, Claimed, b)
               /\ Overflowed(b) \/ Repeated(b) \/ Arrived(b)
    BY Admission
<1>3. DOMAIN OldBase.cands = {} /\ DOMAIN OldArr = {}
    BY <1>1 DEF OldBase, OldArr, IsPending
<1>4. ~Overflowed(b)
    <2>1. Cardinality({}) = 0 /\ MaxSignatures \in Nat \ {0}
        BY Limits, FS_EmptySet DEF AInv, Shape
    <2>2. QED
        BY <1>3, <2>1 DEF Overflowed
<1>5. Arrived(b)
    BY <1>2, <1>3, <1>4 DEF Repeated
<1>6. PICK d : b.cands = Put(OldBase.cands, Content, d) /\ d.arr = Put(OldArr, obs.prov, obs.at)
    BY <1>5 DEF Arrived, Joined
<1>7. /\ DOMAIN b.cands = {Content} /\ b.cands[Content] = d
      /\ \A q \in DOMAIN d.arr : d.arr[q] = obs.at
    BY <1>3, <1>6 DEF Put
<1>8. DOMAIN pending' = {Claimed} /\ pending'[Claimed] = b
    BY <1>1, <1>2 DEF Put
<1>9. QED
    BY <1>1, <1>5, <1>7, <1>8 DEF Arrived

\* So each verdict has the time of the observation in hand.
LEMMA AtOnceJudges ==
    ASSUME Typed, AInv, Alone, AtOnce, Finalize
    PROVE  /\ loop = "admitted" /\ UNCHANGED <<loop, now, obs, pending>> /\ final' \subseteq final
           /\ \E v : verdicts' = verdicts \cup {v} /\ v.at = now
           /\ (evictions' = evictions /\ lastLoss' = lastLoss) \/ lastLoss' = now
           /\ \A i \in DOMAIN coverage' :
                coverage'[i].at = now \/ \E j \in DOMAIN coverage : coverage'[i].at = coverage[j].at
           /\ \A i \in DOMAIN cohorts' :
                cohorts'[i].at = now \/ \E j \in DOMAIN cohorts : cohorts'[i].at = cohorts[j].at
<1>1. PICK c \in final, at \in Times : \E v, e, r : Judged(c, at, v, e, r)
    BY Finalized
<1>2. PICK v, e, r : Judged(c, at, v, e, r)
    BY <1>1
<1>3. loop = "admitted" /\ \A q \in DOMAIN c.arr : c.arr[q] = now
    BY DEF AtOnce
<1>4. at = now
    BY <1>2, <1>3 DEF Judged
<1>5. UNCHANGED <<loop, now, obs, pending>>
    BY DEF Finalize
<1>6. final' \subseteq final /\ verdicts' = verdicts \cup {v} /\ v.at = now
    BY <1>2, <1>4 DEF Judged
<1>7. (evictions' = evictions /\ lastLoss' = lastLoss) \/ lastLoss' = now
    BY <1>2, <1>4 DEF Judged
<1>8. RingTyped(coverage) /\ RingTyped(cohorts) /\ MaxRolling \in Nat \ {0}
    BY Limits DEF Typed, WindowTyped, AInv, Shape
<1>9. PICK cv, ch : cv = Pushed(coverage, e) /\ ch = Pushed(cohorts, r)
    OBVIOUS
<1>10. \A i \in DOMAIN cv : cv[i].at = now \/ \E j \in DOMAIN coverage : cv[i].at = coverage[j].at
    BY <1>2, <1>4, <1>8, <1>9, PushedEntries DEF Judged
<1>11. DOMAIN c.arr = Providers =>
        \A i \in DOMAIN ch : ch[i].at = now \/ \E j \in DOMAIN cohorts : ch[i].at = cohorts[j].at
    BY <1>2, <1>4, <1>8, <1>9, PushedEntries DEF Judged
<1>12. coverage' = cv /\ (cohorts' = cohorts \/ (DOMAIN c.arr = Providers /\ cohorts' = ch))
    BY <1>2, <1>9 DEF Judged
<1>13. QED
    BY <1>3, <1>5, <1>6, <1>7, <1>10, <1>11, <1>12

\* What a behaviour runs with never changes.
LEMMA ConfigStays == [Next]_vars => config' = config
BY DEF Next, Receipt, Record, Tick, Stamp, Send, Advance, RecordAnomaly, BeginRecord, RecordExpired,
       RecordSealed, RecordMakesRoom, RecordAdmitted, SettleImmediately, EndRecord, BeginTick,
       SettleExpired, Prune, EndTick, Finalize, vars

\* What a step adds to the window has the time of the stamp in hand, or is an anomaly's loss.
NewTimes ==
    LET inHand(t) == t = now' /\ loop' \in {"record", "admitted"} IN
    /\ lastLoss' = lastLoss \/ inHand(lastLoss') \/ RecordAnomaly
    /\ \A v \in verdicts' : v \in verdicts \/ inHand(v.at)
    /\ \A i \in DOMAIN coverage' :
        inHand(coverage'[i].at) \/ \E j \in DOMAIN coverage : coverage'[i].at = coverage[j].at
    /\ \A i \in DOMAIN cohorts' :
        inHand(cohorts'[i].at) \/ \E j \in DOMAIN cohorts : cohorts'[i].at = cohorts[j].at

\* What the loop has in hand with one source: the base of the observation and its candidate.
InHand ==
    /\ loop # "admitted" => DOMAIN pending = {} /\ final = {}
    /\ DOMAIN pending \subseteq {Claimed}
    /\ \A b \in DOMAIN pending : \A c \in DOMAIN pending[b].cands :
        \A q \in DOMAIN pending[b].cands[c].arr : pending[b].cands[c].arr[q] = now
    /\ \A f \in final : \A q \in DOMAIN f.arr : f.arr[q] = now

\* Each step of a process with one source.
LEMMA AtOnceSteps ==
    ASSUME Typed, AInv, Alone, AtOnce, [Next]_vars
    PROVE  NewTimes /\ InHand'
<1>1. InHand
    BY DEF AtOnce, InHand
<1>2. CASE Receipt \/ RecordAnomaly \/ BeginRecord \/ BeginTick
    <2>1. /\ UNCHANGED <<pending, final, coverage, cohorts, verdicts>>
          /\ lastLoss' = lastLoss \/ RecordAnomaly
          /\ loop = "idle" /\ loop' # "admitted"
        BY <1>2 DEF Receipt, Stamp, Send, Advance, RecordAnomaly, BeginRecord, BeginTick,
                    handlerVars, mapVars, windowVars, historyVars
    <2>2. NewTimes
        BY <2>1 DEF NewTimes
    <2>3. InHand'
        BY <1>1, <2>1 DEF InHand
    <2>4. QED
        BY <2>2, <2>3
<1>3. CASE RecordExpired \/ RecordMakesRoom \/ SettleImmediately \/ SettleExpired
    <2>1. PICK base \in DOMAIN pending, evicted \in BOOLEAN : Settles(base, evicted)
        BY <1>3, Settling
    <2>2. /\ loop = "admitted" /\ loop' = "admitted" /\ now' = now /\ DOMAIN pending' = {}
          /\ \A f \in final' : \A q \in DOMAIN f.arr : f.arr[q] = now
          /\ lastLoss' = lastLoss \/ lastLoss' = now
          /\ UNCHANGED <<coverage, cohorts, verdicts>>
        BY <2>1, AtOnceSettles
    <2>3. NewTimes
        BY <2>2 DEF NewTimes
    <2>4. InHand'
        BY <2>2 DEF InHand
    <2>5. QED
        BY <2>3, <2>4
<1>4. CASE RecordSealed \/ EndRecord \/ EndTick
    <2>1. /\ UNCHANGED <<pending, final, lastLoss, coverage, cohorts, verdicts>>
          /\ loop' = "idle" /\ final = {}
        BY <1>4 DEF RecordSealed, EndRecord, EndTick, Return, AtOnce, mapVars, windowVars, historyVars
    <2>2. DOMAIN pending = {}
        BY <1>1, <1>4 DEF RecordSealed, EndRecord, EndTick, IsPending, InHand, Alone
    <2>3. NewTimes
        BY <2>1 DEF NewTimes
    <2>4. InHand'
        BY <2>1, <2>2 DEF InHand
    <2>5. QED
        BY <2>3, <2>4
<1>5. CASE RecordAdmitted
    <2>1. /\ loop = "record" /\ loop' = "admitted" /\ now' = now /\ obs' = obs /\ final' = {}
          /\ DOMAIN pending' = {Claimed}
          /\ \A b \in DOMAIN pending' : \A c \in DOMAIN pending'[b].cands :
               \A q \in DOMAIN pending'[b].cands[c].arr : pending'[b].cands[c].arr[q] = now
          /\ UNCHANGED <<lastLoss, coverage, cohorts, verdicts>>
        BY <1>5, AtOnceAdmits
    <2>2. NewTimes
        BY <2>1 DEF NewTimes
    <2>3. InHand'
        BY <2>1 DEF InHand, Claimed
    <2>4. QED
        BY <2>2, <2>3
<1>6. CASE Prune
    <2>1. /\ UNCHANGED <<pending, final, lastLoss, verdicts>>
          /\ loop = "tick" /\ loop' = "view"
        BY <1>6 DEF Prune, historyVars
    <2>2. NewTimes
        BY <1>6, <2>1, PrunedEntries DEF NewTimes
    <2>3. InHand'
        BY <1>1, <2>1 DEF InHand
    <2>4. QED
        BY <2>2, <2>3
<1>7. CASE Finalize
    <2>1. /\ loop = "admitted" /\ UNCHANGED <<loop, now, obs, pending>> /\ final' \subseteq final
          /\ \E v : verdicts' = verdicts \cup {v} /\ v.at = now
          /\ (evictions' = evictions /\ lastLoss' = lastLoss) \/ lastLoss' = now
          /\ \A i \in DOMAIN coverage' :
               coverage'[i].at = now \/ \E j \in DOMAIN coverage : coverage'[i].at = coverage[j].at
          /\ \A i \in DOMAIN cohorts' :
               cohorts'[i].at = now \/ \E j \in DOMAIN cohorts : cohorts'[i].at = cohorts[j].at
        BY <1>7, AtOnceJudges
    <2>2. NewTimes
        BY <2>1 DEF NewTimes
    <2>3. InHand'
        BY <1>1, <2>1 DEF InHand, Claimed
    <2>4. QED
        BY <2>2, <2>3
<1>8. CASE UNCHANGED vars
    BY <1>1, <1>8 DEF vars, handlerVars, mapVars, windowVars, historyVars, NewTimes, InHand, Claimed
<1>9. QED
    BY <1>2, <1>3, <1>4, <1>5, <1>6, <1>7, <1>8 DEF Next, Record, Tick

\* With one source nothing to come is older than what the window holds or was told it lost.
LEMMA HeldPastKept ==
    ASSUME Typed, Typed', AInv, Alone, Lag = 0, HeldPast, NewTimes, [Next]_vars
    PROVE  HeldPast'
<1>1. NewTimes /\ Steady
    BY DEF Steady
<1>2. loop' \in {"record", "admitted"} => Past(now)'
    BY <1>1, NowIsPast DEF HeldPast
<1>3. ASSUME NEW t \in Nat, loop' \in {"record", "admitted"}, t = now'
      PROVE  Past(t)'
    BY <1>2, <1>3 DEF Past, After, Follows
<1>4. ASSUME NEW t \in Nat, RecordAnomaly, t = lastLoss'
      PROVE  Past(t)'
    <2>1. /\ queue # <<>> /\ queue' = Tail(queue) /\ UNCHANGED <<config, clock, stamped>>
          /\ loop' = "idle"
        BY <1>4 DEF RecordAnomaly, handlerVars
    <2> PICK o : o = Head(queue)
        OBVIOUS
    <2>2. o.prov \in Providers /\ After(o.prov, o.claim[1], o.at)' /\ t = o.at
        BY <1>4, <2>1, HeadTaken DEF RecordAnomaly, Steady
    <2>3. IsFiniteSet(Providers) /\ Cardinality(Providers) = 1
        BY Limits DEF Steady, Alone, AInv, Shape
    <2>4. PICK p : Providers = {p}
        BY <2>3, FS_Singleton
    <2>5. \A b : \A q \in Providers : After(q, b, t)'
        BY <2>1, <2>2, <2>4, LimitsStay DEF After, Follows, Steady
    <2>6. QED
        BY <2>1, <2>5, LimitsStay DEF Past
<1>5. \A t \in Nat : Past(t) => Past(t)'
    BY PastStays DEF Steady
<1>6. Times' \subseteq Nat /\ NoLoss' = NoLoss
    BY ConfigStays, TimesAre, LimitsStay DEF AInv, Shape, NoLoss
<1>7. (lastLoss # NoLoss => Past(lastLoss))'
    <2>1. SUFFICES ASSUME lastLoss' # NoLoss PROVE Past(lastLoss)'
        BY <1>6
    <2> PICK t : t = lastLoss'
        OBVIOUS
    <2>2. t \in Nat
        BY <1>6, <2>1 DEF Typed, WindowTyped
    <2>3. t = lastLoss => Past(t)
        BY <2>1 DEF HeldPast
    <2>4. Past(t)'
        BY <1>1, <1>3, <1>4, <1>5, <2>2, <2>3 DEF NewTimes
    <2>5. QED
        BY <2>4 DEF Past, After, Follows
<1>8. (\A v \in verdicts : Past(v.at))'
    <2>1. SUFFICES ASSUME NEW v \in verdicts' PROVE Past(v.at)'
        OBVIOUS
    <2>2. v.at \in Nat
        BY <1>6 DEF Typed, WindowTyped
    <2>3. v \in verdicts => Past(v.at)
        BY DEF HeldPast
    <2>4. QED
        BY <1>1, <1>3, <1>5, <2>2, <2>3 DEF NewTimes
<1>9. (\A i \in DOMAIN coverage : Past(coverage[i].at))'
    <2>1. SUFFICES ASSUME NEW i \in DOMAIN coverage', NEW t, t = coverage'[i].at PROVE Past(t)'
        BY DEF Past, After, Follows
    <2>2. t \in Nat
        BY <1>6, <2>1 DEF Typed, WindowTyped, RingTyped
    <2>3. (\E j \in DOMAIN coverage : t = coverage[j].at) => Past(t)
        BY DEF HeldPast
    <2>4. QED
        BY <1>1, <1>3, <1>5, <2>1, <2>2, <2>3 DEF NewTimes
<1>10. (\A i \in DOMAIN cohorts : Past(cohorts[i].at))'
    <2>1. SUFFICES ASSUME NEW i \in DOMAIN cohorts', NEW t, t = cohorts'[i].at PROVE Past(t)'
        BY DEF Past, After, Follows
    <2>2. t \in Nat
        BY <1>6, <2>1 DEF Typed, WindowTyped, RingTyped
    <2>3. (\E j \in DOMAIN cohorts : t = cohorts[j].at) => Past(t)
        BY DEF HeldPast
    <2>4. QED
        BY <1>1, <1>3, <1>5, <2>1, <2>2, <2>3 DEF NewTimes
<1>11. QED
    BY <1>2, <1>7, <1>8, <1>9, <1>10 DEF HeldPast

\* With one source what the loop has in hand stays of that one observation.
LEMMA AtOnceKept ==
    ASSUME Typed, Typed', AInv, Alone, AtOnce, [Next]_vars
    PROVE  AtOnce'
<1>1. NewTimes /\ InHand'
    BY AtOnceSteps
<1>2. Lag' = Lag
    BY ConfigStays, LimitsStay
<1>3. Lag = 0 => HeldPast'
    BY <1>1, HeldPastKept DEF AtOnce
<1>4. QED
    BY <1>1, <1>2, <1>3 DEF AtOnce, InHand
-----------------------------------------------------------------------------
(* Tombstones. *)

\* Sealing a base writes its tombstone, with a time that nothing of it is after.
LEMMA TombstonesSettle ==
    ASSUME Typed, AInv, Tombstones, Alone => AtOnce,
           NEW base \in DOMAIN pending, NEW evicted \in BOOLEAN, Settles(base, evicted)
    PROVE  Tombstones'
<1>1. /\ loop' = loop /\ now' = now /\ loop \in {"record", "admitted", "tick"}
      /\ expired' \subseteq expired \ {base}
    BY DEF Settles
<1>2. DOMAIN pending' = DOMAIN pending \ {base} /\ \A b \in DOMAIN pending' : pending'[b] = pending[b]
    BY DEF Settles, Settle, Without, Restrict
<1>3. InsertSettledBase(base, now, evicted) /\ evictions \in Nat
    BY DEF Settles, Settle, Typed, WindowTyped
<1>4. PICK D \in SUBSET DOMAIN settledBases :
        /\ settledBases' = Buried(D, base, now)
        /\ \/ /\ D = DOMAIN settledBases /\ ~evicted
              /\ UNCHANGED <<evictions, lastLoss>>
           \/ evictions' \in Nat \ {0} /\ lastLoss' = now
    BY <1>3, TombstonePut
<1>5. DOMAIN settledBases' = D \cup {base} /\ settledBases'[base] = now
    BY <1>4 DEF Buried
<1>6. DOMAIN pending' \cap DOMAIN settledBases' = {}
    BY <1>2, <1>5 DEF Tombstones
<1>7. loop' = "tick" => \A b \in expired' : Since(now', pending'[b].first) >= Timeout'
    <2>1. SUFFICES ASSUME loop = "tick", NEW b \in expired' PROVE Since(now', pending'[b].first) >= Timeout'
        BY <1>1
    <2>2. b \in expired /\ b # base /\ b \in DOMAIN pending
        BY <1>1, <2>1 DEF Typed, HandlerTyped
    <2>3. Since(now, pending[b].first) >= Timeout
        BY <2>1, <2>2 DEF Tombstones
    <2>4. pending'[b] = pending[b] /\ Timeout' = Timeout
        BY <1>2, <2>2, LimitsStay DEF Settles
    <2>5. QED
        BY <1>1, <2>3, <2>4
<1>8. sealing'.base = base
    BY DEF Settles, Settle
<1>9. evictions' = 0 => \A f \in final' : \A q \in DOMAIN f.arr : f.arr[q] <= now'
    <2>1. SUFFICES ASSUME evictions' = 0, NEW f \in final', NEW q \in DOMAIN f.arr PROVE f.arr[q] <= now
        BY <1>1
    <2>2. ~evicted
        BY <1>4, <2>1
    <2>3. /\ f.content \in DOMAIN pending[base].cands
          /\ f.arr[q] = pending[base].cands[f.content].arr[q]
          /\ q \in DOMAIN pending[base].cands[f.content].arr
          /\ f.arr[q] - pending[base].first < Timeout
        BY SealedFinal DEF Settles
    <2>4. f.arr[q] \in Nat /\ pending[base].first \in Nat /\ now \in Nat /\ Timeout \in Nat \ {0}
        BY <2>3, TimesAre, Limits
           DEF Typed, PendingTyped, BaseTyped, ArrivalsTyped, HandlerTyped, AInv, Shape
    <2>5. CASE Since(now, pending[base].first) >= Timeout
        BY <2>3, <2>4, <2>5 DEF Since
    <2>6. CASE loop = "admitted" /\ Alone
        <3>1. f.arr[q] = now
            BY <2>6, AtOnceSettles
        <3>2. QED
            BY <2>4, <3>1
    <2>7. CASE loop = "record"
        <3>1. IsExpired /\ base = Claimed /\ now = obs.at
            BY <2>2, <2>7 DEF Settles, Typed, HandlerTyped
        <3>2. QED
            BY <2>5, <3>1 DEF IsExpired
    <2>8. CASE loop = "tick"
        <3>1. base \in expired
            BY <2>8 DEF Settles
        <3>2. QED
            BY <2>5, <2>8, <3>1 DEF Tombstones
    <2>9. loop = "record" \/ (loop = "admitted" /\ Alone) \/ loop = "tick"
        BY DEF Settles
    <2>10. QED
        BY <2>6, <2>7, <2>8, <2>9
<1>10. QED
    BY <1>1, <1>5, <1>6, <1>7, <1>8, <1>9 DEF Tombstones

\* The other steps.
LEMMA TombstonesKept ==
    ASSUME Typed, AInv, Tombstones, Alone => AtOnce, [Next]_vars
    PROVE  Tombstones'
<1>1. DOMAIN pending \cap DOMAIN settledBases = {} /\ config' = config
    BY ConfigStays DEF Tombstones
<1>2. CASE Receipt \/ RecordAnomaly \/ BeginRecord
    <2>1. /\ UNCHANGED <<pending, settledBases, final>>
          /\ loop = "idle" /\ loop' \notin {"tick", "view"}
        BY <1>2 DEF Receipt, Stamp, Send, Advance, RecordAnomaly, BeginRecord, handlerVars, mapVars
    <2>2. final = {}
        BY <2>1 DEF AInv, Sealing
    <2>3. QED
        BY <1>1, <2>1, <2>2 DEF Tombstones
<1>3. CASE RecordExpired \/ RecordMakesRoom \/ SettleImmediately \/ SettleExpired
    BY <1>3, Settling, TombstonesSettle
<1>4. CASE RecordSealed \/ EndRecord \/ EndTick
    <2>1. UNCHANGED <<pending, settledBases, final>> /\ loop' = "idle"
        BY <1>4 DEF RecordSealed, EndRecord, EndTick, Return, mapVars
    <2>2. final = {}
        BY <1>4 DEF RecordSealed, EndRecord, EndTick, AInv, Sealing
    <2>3. QED
        BY <1>1, <2>1, <2>2 DEF Tombstones
<1>5. CASE RecordAdmitted
    <2>1. /\ final = {} /\ final' = {} /\ Claimed \notin DOMAIN settledBases /\ settledBases' = settledBases
          /\ loop' \in {"idle", "admitted"}
        BY <1>5 DEF RecordAdmitted, IsSealed, Return
    <2>2. PICK b : pending' = Put(pending, Claimed, b)
        BY <1>5, Admission
    <2>3. DOMAIN pending' = DOMAIN pending \cup {Claimed}
        BY <2>2 DEF Put
    <2>4. DOMAIN pending' \cap DOMAIN settledBases' = {}
        BY <1>1, <2>1, <2>3
    <2>5. QED
        BY <2>1, <2>4 DEF Tombstones
<1>6. CASE BeginTick
    <2>1. /\ loop = "idle" /\ loop' = "tick" /\ now' = clock
          /\ UNCHANGED <<pending, settledBases, final>>
          /\ expired' = {b \in DOMAIN pending : Since(clock, pending[b].first) >= Timeout}
        BY <1>6 DEF BeginTick, Overdue, mapVars
    <2>2. final = {}
        BY <2>1 DEF AInv, Sealing
    <2>3. \A b \in expired' : Since(now', pending'[b].first) >= Timeout'
        BY <1>1, <2>1, LimitsStay
    <2>4. QED
        BY <1>1, <2>1, <2>2, <2>3 DEF Tombstones
<1>7. CASE Prune
    <2>1. /\ final = {} /\ loop' = "view" /\ UNCHANGED <<pending, now, final>>
          /\ DOMAIN settledBases' \subseteq DOMAIN settledBases
        BY <1>7 DEF Prune, Restrict
    <2>2. Window' = Window
        BY <1>1, LimitsStay
    <2>3. \A i \in DOMAIN coverage' : Since(now', coverage'[i].at) <= Window'
        BY <1>7, <2>1, <2>2, PrunedEntries
    <2>4. \A i \in DOMAIN cohorts' : Since(now', cohorts'[i].at) <= Window'
        BY <1>7, <2>1, <2>2, PrunedEntries
    <2>5. DOMAIN pending' \cap DOMAIN settledBases' = {}
        BY <1>1, <2>1
    <2>6. QED
        BY <2>1, <2>3, <2>4, <2>5 DEF Tombstones
<1>8. CASE Finalize
    <2>1. /\ UNCHANGED <<loop, now, expired, sealing, pending, settledBases>>
          /\ loop \in {"record", "admitted", "tick"}
        BY <1>8 DEF Finalize
    <2>2. final' \subseteq final /\ (evictions' = 0 => evictions = 0)
        BY <1>8, Finalized DEF Judged
    <2>3. \A b \in expired' : loop' = "tick" => Since(now', pending'[b].first) >= Timeout'
        BY <1>1, <2>1, LimitsStay DEF Tombstones
    <2>4. evictions' = 0 => \A f \in final' : \A q \in DOMAIN f.arr : f.arr[q] <= now'
        BY <2>1, <2>2 DEF Tombstones
    <2>5. final' # {} => sealing'.base \in DOMAIN settledBases' /\ settledBases'[sealing'.base] = now'
        BY <2>1, <2>2 DEF Tombstones
    <2>6. QED
        BY <1>1, <2>1, <2>3, <2>4, <2>5 DEF Tombstones
<1>9. CASE UNCHANGED vars
    <2>1. UNCHANGED <<loop, now, expired, sealing, pending, settledBases, final, evictions, coverage, cohorts>>
        BY <1>9 DEF vars, handlerVars, mapVars, windowVars
    <2>2. Timeout' = Timeout /\ Window' = Window
        BY <1>1, LimitsStay
    <2>3. QED
        BY <2>1, <2>2 DEF Tombstones
<1>10. QED
    BY <1>2, <1>3, <1>4, <1>5, <1>6, <1>7, <1>8, <1>9 DEF Next, Record, Tick
-----------------------------------------------------------------------------
(* The rings are backed by the verdicts. *)

\* A frame is typed, now and after a step, and so are the rings and the verdicts.
LEMMA Frames ==
    ASSUME Typed, Typed', AInv, config' = config, NEW w, w = Frame, NEW x, x = Frame'
    PROVE  /\ FrameTyped(w) /\ TimedRing(coverage) /\ TimedRing(cohorts)
           /\ Timed(verdicts) /\ Timed(CompleteOnes)
           /\ w.loss = Loss /\ w.time = clock /\ w.span = Window /\ w.buried = settledBases
           /\ w.due = {<<sealing.base, f.content>> : f \in final}
           /\ FrameTyped(x) /\ TimedRing(coverage') /\ TimedRing(cohorts')
           /\ Timed(verdicts') /\ Timed(CompleteOnes')
           /\ x.loss = Loss' /\ x.time = clock' /\ x.span = Window /\ x.buried = settledBases'
           /\ x.due = {<<sealing'.base, f.content>> : f \in final'}
<1>1. Times \subseteq Nat /\ Times' = Times /\ Window \in Nat /\ Window' = Window
    BY TimesAre, Limits, LimitsStay DEF AInv, Shape
<1>2. /\ w.loss = Loss /\ w.time = clock /\ w.span = Window /\ w.buried = settledBases
      /\ w.due = {<<sealing.base, f.content>> : f \in final}
    BY DEF Frame
<1>3. /\ x.loss = Loss' /\ x.time = clock' /\ x.span = Window /\ x.buried = settledBases'
      /\ x.due = {<<sealing'.base, f.content>> : f \in final'}
    BY <1>1 DEF Frame
<1>4. Loss \in Int
    BY <1>1 DEF Typed, WindowTyped, Loss, NoLoss
<1>5. FrameTyped(w)
    BY <1>1, <1>2, <1>4 DEF Typed, WindowTyped, ReceiptTyped, FrameTyped
<1>6. Loss' \in Int
    BY <1>1 DEF Typed, WindowTyped, Loss, NoLoss
<1>7. FrameTyped(x)
    BY <1>1, <1>3, <1>6 DEF Typed, WindowTyped, ReceiptTyped, FrameTyped
<1>8. ASSUME NEW s, s \in Seq(Range(s)), \A i \in DOMAIN s : s[i].at \in Times
      PROVE  TimedRing(s)
    BY <1>1, <1>8, LenProperties DEF TimedRing
<1>9. TimedRing(coverage) /\ TimedRing(cohorts)
    BY <1>8 DEF Typed, WindowTyped, RingTyped
<1>10. TimedRing(coverage')
    BY <1>1, <1>8 DEF Typed, WindowTyped, RingTyped
<1>11. TimedRing(cohorts')
    BY <1>1, <1>8 DEF Typed, WindowTyped, RingTyped
<1>12. Timed(verdicts) /\ Timed(CompleteOnes)
    BY <1>1 DEF Typed, WindowTyped, Timed, CompleteOnes
<1>13. \A v \in verdicts' : v.at \in Nat
    BY <1>1 DEF Typed, WindowTyped
<1>14. Timed(verdicts') /\ Timed(CompleteOnes')
    BY <1>13 DEF Timed, CompleteOnes
<1>15. QED
    BY <1>2, <1>3, <1>5, <1>7, <1>9, <1>10, <1>11, <1>12, <1>14

\* What it takes to be backed after a step.
LEMMA BackedNext ==
    ASSUME NEW cv, cv = coverage', NEW ch, ch = cohorts', NEW V, V = verdicts',
           NEW C, C = CompleteOnes', NEW x, x = Frame',
           evictions' = 0 \/ Steady' => (\E m : IsBacking(cv, m, V, x)),
           evictions' = 0 \/ Steady' => (\E m : IsBacking(ch, m, C, x) /\ Keyed(ch, m))
    PROVE  Backed'
<1>1. SUFFICES ASSUME evictions' = 0 \/ Steady'
               PROVE  /\ \E m : IsBacking(coverage, m, verdicts, Frame)'
                      /\ \E m : IsBacking(cohorts, m, CompleteOnes, Frame)' /\ Keyed(cohorts, m)'
    BY DEF Backed
<1>2. \E m : IsBacking(coverage, m, verdicts, Frame)'
    <2>1. PICK m : IsBacking(cv, m, V, x)
        BY <1>1
    <2>2. IsBacking(coverage, m, verdicts, Frame)'
        BY <2>1 DEF IsBacking
    <2>3. QED
        BY <2>2
<1>3. \E m : IsBacking(cohorts, m, CompleteOnes, Frame)' /\ Keyed(cohorts, m)'
    <2>1. PICK m : IsBacking(ch, m, C, x) /\ Keyed(ch, m)
        BY <1>1
    <2>2. IsBacking(cohorts, m, CompleteOnes, Frame)'
        BY <2>1 DEF IsBacking
    <2>3. Keyed(cohorts, m)'
        BY <2>1 DEF Keyed
    <2>4. QED
        BY <2>2, <2>3
<1>4. QED
    BY <1>2, <1>3

\* While nothing more is evicted, the rings and the verdicts do not change, and no base is due that
\* had a tombstone, what backs them does.
LEMMA BackedStays ==
    ASSUME Typed, Typed', AInv, config' = config, Backed,
           UNCHANGED <<coverage, cohorts, verdicts, evictions>>,
           evictions = 0 \/ lastLoss <= lastLoss', clock <= clock',
           \A b \in DOMAIN settledBases :
                b \in DOMAIN settledBases' /\ settledBases'[b] = settledBases[b],
           \A f \in final' : \/ f \in final /\ sealing'.base = sealing.base
                             \/ sealing'.base \notin DOMAIN settledBases
    PROVE  Backed'
<1> PICK w, x : w = Frame /\ x = Frame'
    OBVIOUS
<1>1. /\ FrameTyped(w) /\ TimedRing(coverage) /\ TimedRing(cohorts)
      /\ Timed(verdicts) /\ Timed(CompleteOnes)
      /\ w.loss = Loss /\ w.time = clock /\ w.span = Window /\ w.buried = settledBases
      /\ w.due = {<<sealing.base, f.content>> : f \in final}
      /\ FrameTyped(x)
      /\ x.loss = Loss' /\ x.time = clock' /\ x.span = Window /\ x.buried = settledBases'
      /\ x.due = {<<sealing'.base, f.content>> : f \in final'}
    BY Frames
<1>2. w.loss <= x.loss
    BY <1>1 DEF Loss, NoLoss, Typed, WindowTyped
<1>3. \A k \in x.due : k \in w.due \/ k[1] \notin DOMAIN w.buried
    BY <1>1
<1>4. w.time <= x.time /\ x.span = w.span
    BY <1>1
<1>5. \A b \in DOMAIN w.buried : b \in DOMAIN x.buried /\ x.buried[b] = w.buried[b]
    BY <1>1
<1>6. CompleteOnes' = CompleteOnes /\ (Steady' <=> Steady)
    BY LimitsStay DEF CompleteOnes, Steady, Alone
<1>7. ASSUME evictions = 0 \/ Steady
      PROVE  /\ \E m : IsBacking(coverage, m, verdicts, x)
             /\ \E m : IsBacking(cohorts, m, CompleteOnes, x) /\ Keyed(cohorts, m)
    <2>1. PICK m : IsBacking(coverage, m, verdicts, w)
        BY <1>7 DEF Backed
    <2>2. \E n : IsBacking(coverage, n, verdicts, x)
        BY <1>1, <1>2, <1>3, <1>4, <1>5, <2>1, BackingStays
    <2>3. PICK m2 : IsBacking(cohorts, m2, CompleteOnes, w) /\ Keyed(cohorts, m2)
        BY <1>7 DEF Backed
    <2>4. \E n : IsBacking(cohorts, n, CompleteOnes, x) /\ (Keyed(cohorts, m2) => Keyed(cohorts, n))
        BY <1>1, <1>2, <1>3, <1>4, <1>5, <2>3, BackingStays
    <2>5. QED
        BY <2>2, <2>3, <2>4
<1>8. QED
    BY <1>6, <1>7, BackedNext
\* With one source an eviction is declared with a time that nothing in the window is after.
LEMMA BackedEvicted ==
    ASSUME Typed, Typed', AInv, config' = config, Alone => AtOnce',
           evictions' # 0, Alone => lastLoss' = now' /\ loop' \in {"record", "admitted"}
    PROVE  Backed'
<1> PICK w, x, V, C : w = Frame /\ x = Frame' /\ V = verdicts' /\ C = CompleteOnes'
    OBVIOUS
<1> PICK cv, ch : cv = coverage' /\ ch = cohorts'
    OBVIOUS
<1>1. /\ TimedRing(cv) /\ TimedRing(ch) /\ Timed(V) /\ Timed(C)
      /\ FrameTyped(x) /\ x.loss = Loss'
    BY Frames
<1>2. Steady' <=> Steady
    BY LimitsStay DEF Steady, Alone
<1>3. ASSUME Steady
      PROVE  /\ \E n : IsBacking(cv, n, V, x)
             /\ \E n : IsBacking(ch, n, C, x) /\ Keyed(ch, n)
    <2>1. x.loss = now'
        BY <1>1, <1>3 DEF Loss, Steady
    <2>2. /\ \A v \in V : v.at <= x.loss
          /\ \A i \in DOMAIN cv : cv[i].at <= x.loss
          /\ \A i \in DOMAIN ch : ch[i].at <= x.loss
        BY <1>3, <2>1, LimitsStay DEF AtOnce, Steady, HeldPast, Past
    <2>3. \A v \in C : v.at <= x.loss
        BY <2>2 DEF CompleteOnes
    <2>4. \E n : IsBacking(cv, n, V, x)
        BY <1>1, <2>2, NothingBacks
    <2>5. \E n : IsBacking(ch, n, C, x) /\ Keyed(ch, n)
        BY <1>1, <2>2, <2>3, NothingBacks
    <2>6. QED
        BY <2>4, <2>5
<1>4. QED
    BY <1>2, <1>3, BackedNext

\* Sealing a base leaves the rings, and what is due of it was due before it had a tombstone.
LEMMA BackedSettles ==
    ASSUME Typed, Typed', AInv, Tombstones, Backed, Alone => AtOnce, Alone => AtOnce',
           NEW base \in DOMAIN pending, NEW evicted \in BOOLEAN, Settles(base, evicted)
    PROVE  Backed'
<1>1. InsertSettledBase(base, now, evicted) /\ evictions \in Nat /\ lastLoss \in Int
    BY TimesAre DEF Settles, Settle, Typed, WindowTyped, NoLoss, AInv, Shape
<1>2. PICK D \in SUBSET DOMAIN settledBases :
        /\ settledBases' = Buried(D, base, now)
        /\ \/ /\ D = DOMAIN settledBases /\ ~evicted
              /\ UNCHANGED <<evictions, lastLoss>>
           \/ evictions' \in Nat \ {0} /\ lastLoss' = now
    BY <1>1, TombstonePut
<1>3. /\ config' = config /\ clock' = clock /\ clock \in Nat
      /\ UNCHANGED <<coverage, cohorts, verdicts, loop, now>>
    BY DEF Settles, receiptVars, AInv, Shape
<1>4. CASE D = DOMAIN settledBases /\ UNCHANGED <<evictions, lastLoss>>
    <2>1. base \notin DOMAIN settledBases /\ sealing'.base = base
        BY DEF Tombstones, Settles, Settle
    <2>2. \A b \in DOMAIN settledBases : b \in DOMAIN settledBases' /\ settledBases'[b] = settledBases[b]
        BY <1>2, <1>4, <2>1 DEF Buried
    <2>3. evictions' = evictions /\ lastLoss <= lastLoss' /\ clock <= clock'
        BY <1>1, <1>3, <1>4
    <2>4. QED
        BY <1>3, <2>1, <2>2, <2>3, BackedStays
<1>5. CASE evictions' \in Nat \ {0} /\ lastLoss' = now
    <2>1. Alone => loop = "admitted"
        BY AtOnceSettles
    <2>2. QED
        BY <1>3, <1>5, <2>1, BackedEvicted
<1>6. QED
    BY <1>2, <1>4, <1>5

\* Pruning forgets of both sides what is too old.
LEMMA BackedPrunes ==
    ASSUME Typed, Typed', AInv, config' = config, Backed, Prune
    PROVE  Backed'
<1> PICK w, x, cv, ch, b : w = Frame /\ x = Frame' /\ cv = coverage' /\ ch = cohorts' /\ b = settledBases'
    OBVIOUS
<1>1. /\ FrameTyped(w) /\ TimedRing(coverage) /\ TimedRing(cohorts)
      /\ Timed(verdicts) /\ Timed(CompleteOnes)
      /\ w.loss = Loss /\ w.time = clock /\ w.span = Window /\ w.buried = settledBases
      /\ w.due = {<<sealing.base, f.content>> : f \in final}
      /\ FrameTyped(x) /\ TimedRing(cv) /\ TimedRing(ch)
      /\ x.loss = Loss' /\ x.time = clock' /\ x.span = Window /\ x.buried = b
      /\ x.due = {<<sealing'.base, f.content>> : f \in final'}
    BY Frames
<1>2. /\ UNCHANGED <<clock, lastLoss, evictions, sealing, final, verdicts>> /\ now = clock
      /\ cv = InWindow(coverage) /\ ch = InWindow(cohorts)
      /\ b = Restrict(settledBases, {k \in DOMAIN settledBases : Remembered(settledBases[k])})
    BY DEF Prune, receiptVars, Typed, HandlerTyped, historyVars
<1>3. /\ x.loss = w.loss /\ x.time = w.time /\ x.span = w.span /\ x.due = w.due
    BY <1>1, <1>2 DEF Loss
<1>4. \A k \in DOMAIN w.buried : Since(w.time, w.buried[k]) <= w.span =>
        k \in DOMAIN x.buried /\ x.buried[k] = w.buried[k]
    BY <1>1, <1>2 DEF Restrict, Remembered
<1>5. ASSUME NEW s, RingTyped(s), TimedRing(s), NEW r, TimedRing(r), r = InWindow(s),
             NEW V, Timed(V), NEW m, IsBacking(s, m, V, w)
      PROVE  \E n : IsBacking(r, n, V, x) /\ (Keyed(s, m) => Keyed(r, n))
    <2>0. PICK K : K = {i \in DOMAIN s : Since(w.time, s[i].at) <= w.span}
        OBVIOUS
    <2>1. r = Kept(s, K)
        BY <1>1, <1>2, <1>5, <2>0 DEF InWindow
    <2>2. K \subseteq DOMAIN s
        BY <2>0
    <2>3. \E p : IsThinned(r, p, s, K, Len(s))
        BY <1>5, <2>1, <2>2, KeptTyped
    <2>4. PICK p : IsThinned(r, p, s, K, Len(s))
        BY <2>3
    <2>5. DOMAIN s = 1 .. Len(s) /\ Len(s) \in Nat
        BY <1>5, LenProperties DEF RingTyped
    <2>6. \A i \in DOMAIN s : i \in K <=> Since(w.time, s[i].at) <= w.span
        BY <2>0
    <2>7. QED
        BY <1>1, <1>3, <1>4, <1>5, <2>2, <2>4, <2>5, <2>6, BackingPruned
<1>6. RingTyped(coverage) /\ RingTyped(cohorts)
    BY DEF Typed, WindowTyped
<1>7. CompleteOnes' = CompleteOnes /\ (Steady' <=> Steady)
    BY <1>2, LimitsStay DEF CompleteOnes, Steady, Alone
<1>8. ASSUME evictions = 0 \/ Steady
      PROVE  /\ \E m : IsBacking(cv, m, verdicts, x)
             /\ \E m : IsBacking(ch, m, CompleteOnes, x) /\ Keyed(ch, m)
    <2>1. PICK m : IsBacking(coverage, m, verdicts, w)
        BY <1>8 DEF Backed
    <2>2. PICK m2 : IsBacking(cohorts, m2, CompleteOnes, w) /\ Keyed(cohorts, m2)
        BY <1>8 DEF Backed
    <2>3. \E n : IsBacking(cv, n, verdicts, x)
        BY <1>1, <1>2, <1>5, <1>6, <2>1
    <2>4. \E n : IsBacking(ch, n, CompleteOnes, x) /\ (Keyed(cohorts, m2) => Keyed(ch, n))
        BY <1>1, <1>2, <1>5, <1>6, <2>2
    <2>5. QED
        BY <2>2, <2>3, <2>4
<1>9. QED
    BY <1>2, <1>7, <1>8, BackedNext
\* A verdict leaves what is due and enters the rings.
LEMMA BackedJudges ==
    ASSUME Typed, Typed', AInv, Tombstones, Backed, Alone => AtOnce, Alone => AtOnce', Finalize
    PROVE  Backed'
<1>1. PICK c \in final, at \in Times : \E v, e, r : Judged(c, at, v, e, r)
    BY Finalized
<1>2. PICK v, e, r : Judged(c, at, v, e, r)
    BY <1>1
<1>3. /\ UNCHANGED <<config, clock, loop, now, sealing, settledBases>>
    BY DEF Finalize, receiptVars
<1>4. Alone => loop = "admitted" /\ at = now
    BY <1>2 DEF AtOnce, Judged
<1>5. CASE evictions' \in Nat \ {0} /\ lastLoss' \in {at, now}
    BY <1>3, <1>4, <1>5, BackedEvicted
<1>6. CASE /\ UNCHANGED <<evictions, lastLoss>> /\ ~Overflows(coverage)
           /\ DOMAIN c.arr = Providers => ~Overflows(cohorts)
    <2> PICK w, x, V, C : w = Frame /\ x = Frame' /\ V = verdicts' /\ C = CompleteOnes'
        OBVIOUS
    <2> PICK cv, ch : cv = coverage' /\ ch = cohorts'
        OBVIOUS
    <2>1. /\ FrameTyped(w) /\ TimedRing(coverage) /\ TimedRing(cohorts)
          /\ Timed(verdicts) /\ Timed(CompleteOnes)
          /\ w.loss = Loss /\ w.time = clock /\ w.span = Window /\ w.buried = settledBases
          /\ w.due = {<<sealing.base, f.content>> : f \in final}
          /\ FrameTyped(x)
          /\ x.loss = Loss' /\ x.time = clock' /\ x.span = Window /\ x.buried = settledBases'
          /\ x.due = {<<sealing'.base, f.content>> : f \in final'}
        BY <1>3, Frames
    <2>2. /\ x.loss = w.loss /\ x.time = w.time /\ x.span = w.span /\ x.buried = w.buried
        BY <1>3, <1>6, <2>1 DEF Loss
    <2>3. /\ final' = final \ {c} /\ V = verdicts \cup {v} /\ v.key = <<sealing.base, c.content>>
          /\ v.at = at /\ v.matched = DOMAIN c.arr /\ e.at = at /\ cv = Pushed(coverage, e)
        BY <1>2 DEF Judged
    <2>4. x.due \subseteq w.due /\ v.key \in w.due
        BY <1>3, <2>1, <2>3
    <2>5. v.key \notin x.due
        <3>1. \A f \in final' : f \in final /\ f.content # c.content
            BY <2>3 DEF Typed, FinalTyped
        <3>2. QED
            BY <1>3, <2>1, <2>3, <3>1
    <2>6. v.key[1] \in DOMAIN w.buried /\ w.buried[v.key[1]] = now
        BY <1>1, <2>1, <2>3 DEF Tombstones
    <2>7. at \in Nat /\ now \in Nat
        BY TimesAre DEF Typed, HandlerTyped, AInv, Shape
    <2>8. evictions = 0 \/ Steady => at <= now
        <3>1. at = now \/ (\E q \in DOMAIN c.arr : at = c.arr[q])
            BY <1>2 DEF Judged
        <3>2. evictions = 0 => \A q \in DOMAIN c.arr : c.arr[q] <= now
            BY <1>1 DEF Tombstones
        <3>3. QED
            BY <1>4, <2>7, <3>1, <3>2 DEF Steady
    <2>9. RingTyped(coverage) /\ RingTyped(cohorts) /\ MaxRolling \in Nat \ {0}
        BY Limits DEF Typed, WindowTyped, AInv, Shape
    <2>10. /\ DOMAIN coverage = 1 .. Len(coverage) /\ Len(coverage) \in Nat
           /\ DOMAIN cohorts = 1 .. Len(cohorts) /\ Len(cohorts) \in Nat
        BY <2>9, LenProperties DEF RingTyped
    <2>11. ASSUME evictions = 0 \/ Steady
           PROVE  \E n : IsBacking(cv, n, V, x)
        <3>1. PICK m : IsBacking(coverage, m, verdicts, w)
            BY <2>11 DEF Backed
        <3>2. \E p : IsPushed(cv, p, coverage, e)
            BY <2>3, <2>9, PushedTyped
        <3>3. PICK p : IsPushed(cv, p, coverage, e)
            BY <3>2
        <3>4. v.at \in Nat /\ v.at <= w.buried[v.key[1]] /\ e.at = v.at
            BY <2>3, <2>6, <2>7, <2>8, <2>11
        <3>5. \E n : IsBacking(cv, n, verdicts \cup {v}, x)
            BY <1>6, <2>1, <2>2, <2>4, <2>5, <2>6, <2>10, <3>1, <3>3, <3>4, BackingPushed
        <3>6. QED
            BY <2>3, <3>5
    <2>12. ASSUME evictions = 0 \/ Steady
           PROVE  \E n : IsBacking(ch, n, C, x) /\ Keyed(ch, n)
        <3>1. PICK m : IsBacking(cohorts, m, CompleteOnes, w) /\ Keyed(cohorts, m)
            BY <2>12 DEF Backed
        <3>2. CASE DOMAIN c.arr = Providers
            <4>1. /\ r.at = v.at /\ r.key = v.key /\ ch = Pushed(cohorts, r)
                  /\ C = CompleteOnes \cup {v}
                BY <1>2, <1>3, <2>3, <3>2, LimitsStay DEF Judged, CompleteOnes
            <4>2. \E p : IsPushed(ch, p, cohorts, r)
                BY <2>3, <2>9, <4>1, PushedTyped
            <4>3. PICK p : IsPushed(ch, p, cohorts, r)
                BY <4>2
            <4>4. v.at \in Nat /\ v.at <= w.buried[v.key[1]]
                BY <2>3, <2>6, <2>7, <2>8, <2>12
            <4>5. \E n : IsBacking(ch, n, CompleteOnes \cup {v}, x)
                         /\ (Keyed(cohorts, m) /\ r.key = v.key => Keyed(ch, n))
                BY <1>6, <2>1, <2>2, <2>4, <2>5, <2>6, <2>10, <3>1, <3>2, <4>1, <4>3, <4>4, BackingPushed
            <4>6. QED
                BY <3>1, <4>1, <4>5
        <3>3. CASE DOMAIN c.arr # Providers
            <4>1. ch = cohorts /\ C = CompleteOnes
                BY <1>2, <1>3, <2>3, <3>3, LimitsStay DEF Judged, CompleteOnes
            <4>2. /\ w.loss <= x.loss /\ w.time <= x.time
                  /\ \A k \in DOMAIN w.buried : k \in DOMAIN x.buried /\ x.buried[k] = w.buried[k]
                  /\ \A k \in x.due : k \in w.due \/ k[1] \notin DOMAIN w.buried
                BY <2>1, <2>2, <2>4 DEF FrameTyped
            <4>3. \E n : IsBacking(cohorts, n, CompleteOnes, x) /\ (Keyed(cohorts, m) => Keyed(cohorts, n))
                BY <2>1, <2>2, <3>1, <4>2, BackingStays
            <4>4. QED
                BY <3>1, <4>1, <4>3
        <3>4. QED
            BY <3>2, <3>3
    <2>13. evictions' = evictions /\ (Steady' <=> Steady)
        BY <1>3, <1>6, LimitsStay DEF Steady, Alone
    <2>14. QED
        BY <2>11, <2>12, <2>13, BackedNext
<1>7. QED
    BY <1>2, <1>5, <1>6 DEF Judged

\* Every step keeps the rings backed.
LEMMA BackedKept ==
    ASSUME Typed, Typed', AInv, Tombstones, Backed, Alone => AtOnce, Alone => AtOnce', [Next]_vars
    PROVE  Backed'
<1>1. config' = config /\ clock \in Nat /\ lastLoss \in Int
    BY ConfigStays, TimesAre DEF AInv, Shape, Typed, WindowTyped, NoLoss
<1>2. CASE RecordExpired \/ RecordMakesRoom \/ SettleImmediately \/ SettleExpired
    BY <1>2, Settling, BackedSettles
<1>3. CASE Prune
    BY <1>1, <1>3, BackedPrunes
<1>4. CASE Finalize
    BY <1>4, BackedJudges
<1>5. CASE Receipt \/ BeginRecord \/ BeginTick \/ RecordSealed \/ EndRecord \/ EndTick \/ UNCHANGED vars
    <2>1. /\ UNCHANGED <<settledBases, final, lastLoss, evictions, coverage, cohorts, verdicts>>
          /\ final # {} => sealing' = sealing
        <3>1. CASE Receipt \/ BeginRecord \/ BeginTick
            BY <3>1 DEF Receipt, Stamp, Send, Advance, BeginRecord, BeginTick,
                        handlerVars, mapVars, windowVars, historyVars
        <3>2. CASE RecordSealed \/ EndRecord \/ EndTick
            BY <3>2 DEF RecordSealed, EndRecord, EndTick, mapVars, windowVars, historyVars, AInv, Sealing
        <3>3. CASE UNCHANGED vars
            BY <3>3 DEF vars, handlerVars, mapVars, windowVars, historyVars
        <3>4. QED
            BY <1>5, <3>1, <3>2, <3>3
    <2>2. clock <= clock'
        <3>1. clock' = clock \/ clock' = clock + 1
            BY <1>5 DEF Receipt, Stamp, Send, Advance, BeginRecord, BeginTick, RecordSealed, EndRecord,
                        EndTick, vars, receiptVars
        <3>2. QED
            BY <1>1, <3>1
    <2>3. \A f \in final' : f \in final /\ sealing'.base = sealing.base
        BY <2>1
    <2>4. evictions = 0 \/ lastLoss <= lastLoss'
        BY <1>1, <2>1
    <2>5. QED
        BY <1>1, <2>1, <2>2, <2>3, <2>4, BackedStays
<1>6. CASE RecordAnomaly \/ RecordAdmitted
    <2>1. /\ UNCHANGED <<settledBases, evictions, coverage, cohorts, verdicts, clock>>
          /\ final' = {}
        BY <1>6 DEF RecordAnomaly, RecordAdmitted, handlerVars, mapVars, historyVars, receiptVars,
                    AInv, Sealing
    <2>2. clock <= clock'
        BY <1>1, <2>1
    <2>3. Steady => lastLoss <= lastLoss'
        <3>1. CASE RecordAdmitted
            BY <1>1, <3>1, AtOnceAdmits DEF Steady
        <3>2. CASE RecordAnomaly /\ Steady
            <4> PICK o : o = Head(queue)
                OBVIOUS
            <4>1. queue # <<>> /\ queue' = Tail(queue) /\ UNCHANGED <<config, clock, stamped>>
                BY <3>2 DEF RecordAnomaly
            <4>2. lastLoss' = o.at /\ o.prov \in Providers /\ o.at \in Nat
                BY <3>2, <4>1, HeadTaken DEF RecordAnomaly
            <4>3. CASE lastLoss = NoLoss
                BY <4>2, <4>3 DEF NoLoss
            <4>4. CASE lastLoss # NoLoss
                <5>1. lastLoss \in Nat
                    BY <4>4, TimesAre DEF Typed, WindowTyped, AInv, Shape
                <5>2. PICK t \in Nat : t = lastLoss
                    BY <5>1
                <5>3. After(o.prov, 0, t)
                    BY <3>2, <4>2, <4>4, <5>2 DEF AtOnce, Steady, HeldPast, Past
                <5>4. Follows(o, o.prov, 0)
                    BY <3>2 DEF Follows, Steady
                <5>6. t <= o.at
                    BY <4>1, <4>2, <5>2, <5>3, <5>4, HeadTaken
                <5>5. QED
                    BY <4>2, <5>2, <5>6
            <4>5. QED
                BY <4>3, <4>4
        <3>3. QED
            BY <1>6, <3>1, <3>2
    <2>4. CASE evictions = 0 \/ Steady
        <3>1. evictions = 0 \/ lastLoss <= lastLoss'
            BY <2>3, <2>4
        <3>2. QED
            BY <1>1, <2>1, <2>2, <3>1, BackedStays
    <2>5. CASE ~(evictions = 0 \/ Steady)
        BY <1>1, <2>1, <2>5, LimitsStay DEF Backed, Steady, Alone
    <2>6. QED
        BY <2>4, <2>5
<1>7. QED
    BY <1>2, <1>3, <1>4, <1>5, <1>6 DEF Next, Record, Tick
-----------------------------------------------------------------------------
(* What a publication reads. *)

\* Nothing is settled and nothing lost at first.
LEMMA WindowInit == Init => WInv
<1> SUFFICES ASSUME Init PROVE WInv
    OBVIOUS
<1>1. /\ DOMAIN pending = {} /\ DOMAIN settledBases = {} /\ final = {} /\ evictions = 0
      /\ loop = "idle" /\ lastLoss = NoLoss /\ verdicts = {}
      /\ DOMAIN coverage = {} /\ DOMAIN cohorts = {}
    BY DEF Init
<1>2. Tombstones
    BY <1>1 DEF Tombstones
<1>3. AtOnce
    BY <1>1 DEF AtOnce, HeldPast
<1>4. Backed
    <2> PICK w : w = Frame
        OBVIOUS
    <2> DEFINE n == [i \in {} |-> 0]
    <2>1. \A V : V = {} => IsBacking(coverage, n, V, w)
        BY <1>1 DEF IsBacking
    <2>2. \A V : V = {} => IsBacking(cohorts, n, V, w) /\ Keyed(cohorts, n)
        BY <1>1 DEF IsBacking, Keyed
    <2> HIDE DEF n
    <2>3. CompleteOnes = {}
        BY <1>1 DEF CompleteOnes
    <2>4. QED
        BY <1>1, <2>1, <2>2, <2>3 DEF Backed
<1>5. QED
    BY <1>2, <1>3, <1>4 DEF WInv

\* Every step keeps it.
LEMMA WindowKept == AInv /\ Typed /\ Typed' /\ WInv /\ [Next]_vars => WInv'
<1> SUFFICES ASSUME AInv, Typed, Typed', WInv, [Next]_vars PROVE WInv'
    OBVIOUS
<1>1. Tombstones'
    BY TombstonesKept DEF WInv
<1>2. Alone' <=> Alone
    BY ConfigStays, LimitsStay DEF Alone
<1>3. Alone => AtOnce'
    BY AtOnceKept DEF WInv
<1>4. Backed'
    BY <1>3, BackedKept DEF WInv
<1>5. QED
    BY <1>1, <1>2, <1>3, <1>4 DEF WInv

\* What the rings hold is backed by the verdicts, always (src/benchmark.rs:1027-1130, settle and
\* finalize_candidate, and 1177-1184, prune).
THEOREM WindowInvariant == Spec => []WInv
BY WindowInit, WindowKept, AdmissionInvariant, AlwaysTyped, PTL DEF Spec

\* No event is sampled twice unless something was evicted: an entry of the ring stands for one
\* verdict, and a base with a tombstone is not opened again.
THEOREM SampleIsOnce == Spec => []SampledOnce
<1>1. Typed /\ WInv /\ AInv => SampledOnce
    <2> SUFFICES ASSUME Typed, WInv, AInv, evictions = 0,
                        NEW i \in DOMAIN cohorts, NEW j \in DOMAIN cohorts,
                        cohorts[i].key = cohorts[j].key
                 PROVE  i = j
        BY DEF SampledOnce
    <2> PICK w : w = Frame
        OBVIOUS
    <2>1. w.loss = -1
        BY DEF Frame, Loss, NoLoss
    <2>2. PICK m : IsBacking(cohorts, m, CompleteOnes, w) /\ Keyed(cohorts, m)
        BY DEF WInv, Backed
    <2>3. cohorts[i].at \in Nat /\ cohorts[j].at \in Nat
        BY TimesAre DEF Typed, WindowTyped, RingTyped, AInv, Shape
    <2>4. i \in DOMAIN m /\ j \in DOMAIN m
        BY <2>1, <2>2, <2>3 DEF IsBacking
    <2>5. m[i].key = m[j].key
        BY <2>2, <2>4 DEF Keyed
    <2>6. QED
        BY <2>2, <2>4, <2>5 DEF IsBacking
<1>2. QED
    BY <1>1, AlwaysTyped, WindowInvariant, AdmissionInvariant, PTL

\* A ring that lost nothing of its window holds its verdicts, one for one.
LEMMA RingIsWhole ==
    ASSUME NEW ring, TimedRing(ring), DOMAIN ring = 1 .. Len(ring), Len(ring) \in Nat,
           NEW V, Timed(V), NEW w, FrameTyped(w), NEW m, IsBacking(ring, m, V, w),
           \A t \in Nat : Since(w.time, t) <= w.span => t > w.loss,
           \A i \in DOMAIN ring : Since(w.time, ring[i].at) <= w.span,
           NEW S, S = {v \in V : Since(w.time, v.at) <= w.span}
    PROVE  Len(ring) = Cardinality(S)
<1>1. DOMAIN m = 1 .. Len(ring)
    BY DEF IsBacking, TimedRing
<1>2. \A i \in DOMAIN m : m[i] \in S
    BY <1>1 DEF IsBacking
<1>3. \A v \in S : \E i \in DOMAIN m : m[i] = v
    BY DEF IsBacking, Timed
<1>4. \A i, j \in DOMAIN m : m[i] = m[j] => i = j
    BY DEF IsBacking
<1> DEFINE f == [i \in 1 .. Len(ring) |-> m[i]]
<1>5. f \in [1 .. Len(ring) -> S] /\ \A i \in 1 .. Len(ring) : f[i] = m[i]
    BY <1>1, <1>2
<1> HIDE DEF f
<1>6. f \in Bijection(1 .. Len(ring), S)
    BY <1>1, <1>3, <1>4, <1>5 DEF Bijection, Injection, Surjection, IsInjective
<1>7. ExistsBijection(1 .. Len(ring), S)
    BY <1>6 DEF ExistsBijection
<1>8. QED
    BY <1>7, FS_CountingElements

\* So what a publication reads is whole when the loss is before the window.
LEMMA ViewIsWhole ==
    ASSUME Typed, AInv, WInv, loop = "view", evictions = 0 \/ Steady,
           \A t \in Nat : Since(now, t) <= Window => t > Loss
    PROVE  Whole
<1> PICK w : w = Frame
    OBVIOUS
<1>1. Times \subseteq Nat /\ Window \in Nat
    BY TimesAre, Limits DEF AInv, Shape
<1>2. w.time = now /\ w.span = Window /\ w.loss = Loss
    BY DEF Frame, Typed, HandlerTyped
<1>3. FrameTyped(w)
    <2>1. w.buried = settledBases
        BY DEF Frame
    <2>2. clock \in Nat /\ \A b \in DOMAIN settledBases : settledBases[b] \in Nat
        BY <1>1 DEF Typed, WindowTyped, ReceiptTyped
    <2>5. Loss \in Int
        <3>1. lastLoss \in Times \cup {NoLoss}
            BY DEF Typed, WindowTyped
        <3>3. lastLoss \in Int
            BY <1>1, <3>1 DEF NoLoss
        <3>2. QED
            BY <3>3 DEF Loss, NoLoss
    <2>3. w.time \in Nat
        BY <2>2 DEF Frame
    <2>4. QED
        BY <1>1, <1>2, <2>1, <2>2, <2>3, <2>5 DEF FrameTyped
<1>4. /\ coverage \in Seq(Range(coverage)) /\ \A i \in DOMAIN coverage : coverage[i].at \in Nat
      /\ cohorts \in Seq(Range(cohorts)) /\ \A i \in DOMAIN cohorts : cohorts[i].at \in Nat
    BY <1>1 DEF Typed, WindowTyped, RingTyped
<1>5. /\ DOMAIN coverage = 1 .. Len(coverage) /\ Len(coverage) \in Nat
      /\ DOMAIN cohorts = 1 .. Len(cohorts) /\ Len(cohorts) \in Nat
    BY <1>4, LenProperties
<1>6. TimedRing(coverage) /\ TimedRing(cohorts)
    BY <1>4, <1>5 DEF TimedRing
<1>7. Timed(verdicts) /\ Timed(CompleteOnes)
    BY <1>1 DEF Typed, WindowTyped, Timed, CompleteOnes
<1>8. /\ \A i \in DOMAIN coverage : Since(w.time, coverage[i].at) <= w.span
      /\ \A i \in DOMAIN cohorts : Since(w.time, cohorts[i].at) <= w.span
    BY <1>2 DEF WInv, Tombstones
<1>9. \A t \in Nat : Since(w.time, t) <= w.span => t > w.loss
    BY <1>2
<1>10. PICK recent : recent = {v \in verdicts : Since(now, v.at) <= Window}
    OBVIOUS
<1>11. PICK complete : complete = {v \in CompleteOnes : Since(now, v.at) <= Window}
    OBVIOUS
<1>12. recent = {v \in verdicts : Since(w.time, v.at) <= w.span}
    BY <1>2, <1>10
<1>13. complete = {v \in CompleteOnes : Since(w.time, v.at) <= w.span}
    BY <1>2, <1>11
<1>14. PICK m : IsBacking(coverage, m, verdicts, w)
    BY DEF WInv, Backed
<1>15. PICK m2 : IsBacking(cohorts, m2, CompleteOnes, w)
    BY DEF WInv, Backed
<1>16. Len(coverage) = Cardinality(recent)
    BY <1>3, <1>5, <1>6, <1>7, <1>8, <1>9, <1>12, <1>14, RingIsWhole
<1>17. Len(cohorts) = Cardinality(complete)
    BY <1>3, <1>5, <1>6, <1>7, <1>8, <1>9, <1>13, <1>15, RingIsWhole
<1>18. complete = {v \in recent : v.matched = Providers}
    BY <1>10, <1>11 DEF CompleteOnes
<1>19. QED
    BY <1>10, <1>16, <1>17, <1>18 DEF Whole

\* As long as no loss was declared, what a publication reads is exactly the verdicts of the
\* rolling window (src/benchmark.rs:543-, window_events).
THEOREM LosslessWindow == Spec => []LosslessIsWhole
<1>1. Typed /\ AInv /\ WInv => LosslessIsWhole
    <2> SUFFICES ASSUME Typed, AInv, WInv, loop = "view", lastLoss = NoLoss PROVE Whole
        BY DEF LosslessIsWhole
    <2>1. evictions = 0
        BY DEF Typed, WindowTyped
    <2>2. \A t \in Nat : t > Loss
        BY <2>1 DEF Loss, NoLoss
    <2>3. QED
        BY <2>1, <2>2, ViewIsWhole
<1>2. QED
    BY <1>1, AlwaysTyped, WindowInvariant, AdmissionInvariant, PTL

\* With one source that stamps what it has just decoded (Lag = 0), a window published as
\* integrity-complete holds every verdict of the rolling window, whatever was evicted: no
\* declared loss moves back (docs/METHODOLOGY.md:334).
THEOREM SingleSourceWindow == Spec => []SingleSourceIsWhole
<1>1. Typed /\ AInv /\ WInv => SingleSourceIsWhole
    <2> SUFFICES ASSUME Typed, AInv, WInv, Steady, loop = "view",
                        lastLoss = NoLoss \/ Since(now, lastLoss) > Window
                 PROVE  Whole
        BY DEF SingleSourceIsWhole, IntegrityCompleteIsWhole, Steady, Alone
    <2>1. CASE evictions = 0
        <3>1. \A t \in Nat : t > Loss
            BY <2>1 DEF Loss, NoLoss
        <3>2. QED
            BY <3>1, ViewIsWhole
    <2>2. CASE evictions # 0
        <3>1. /\ Loss = lastLoss /\ lastLoss \in Nat /\ now \in Nat /\ Window \in Nat
              /\ Since(now, lastLoss) > Window
            BY <2>2, TimesAre, Limits DEF Loss, Typed, WindowTyped, HandlerTyped, AInv, Shape
        <3>2. \A t \in Nat : Since(now, t) <= Window => t > Loss
            BY <3>1 DEF Since
        <3>3. QED
            BY <3>2, ViewIsWhole
    <2>3. QED
        BY <2>1, <2>2
<1>2. QED
    BY <1>1, AlwaysTyped, WindowInvariant, AdmissionInvariant, PTL
-----------------------------------------------------------------------------
(* Every observation is counted once. *)

\* The candidates of the sealed base that p matches, and the observation of p in hand.
Sealed(p) == {f \in final : p \in DOMAIN f.arr}
Held(p)   == IF loop = "record" /\ obs.prov = p THEN 1 ELSE 0

Booked(p) == count[p]["matched"] + count[p]["late"] + count[p]["duplicate"]
             + count[p]["orphaned"] + count[p]["overflow"]

\* What p had recorded is booked, or waits in a pending candidate or for its verdict, or is in hand.
Balanced(p) ==
    /\ IsFiniteSet(Waits(p))
    /\ count[p]["observed"] = Booked(p) + Cardinality(Waits(p)) + Cardinality(Sealed(p)) + Held(p)

Conserved == MaxArrivals - left = Len(queue) + Total(Handled, Providers)

Even == \A p, q \in Providers :
    count[p]["matched"] + count[p]["missing"] = count[q]["matched"] + count[q]["missing"]

Counted == Conserved /\ (\A p \in Providers : Balanced(p)) /\ Even

\* The counters are numbers.
LEMMA Numbers ==
    ASSUME CountTyped
    PROVE  \A p \in Providers : \A c \in Counters : count[p][c] \in Nat
BY DEF CountTyped

\* Counting once adds one to one counter of one provider.
LEMMA Added ==
    ASSUME CountTyped, NEW o \in Providers, NEW what \in Counters, count' = Add(o, what)
    PROVE  \A p \in Providers : \A c \in Counters :
            count'[p][c] = IF p = o /\ c = what THEN count[p][c] + 1 ELSE count[p][c]
<1>1. count \in [Providers -> [Counters -> Nat]] /\ count[o] \in [Counters -> Nat]
    BY DEF CountTyped
<1>2. count' = [count EXCEPT ![o] = [count[o] EXCEPT ![what] = count[o][what] + 1]]
    BY DEF Add
<1>3. \A p \in Providers : count'[p] = IF p = o THEN [count[o] EXCEPT ![what] = count[o][what] + 1]
                                       ELSE count[p]
    BY <1>1, <1>2
<1>4. \A c \in Counters : [count[o] EXCEPT ![what] = count[o][what] + 1][c]
                            = IF c = what THEN count[o][c] + 1 ELSE count[o][c]
    BY <1>1
<1>5. QED
    BY <1>3, <1>4

\* Sealing a base counts its late and its orphaned arrivals.
LEMMA SettleCounts ==
    ASSUME CountTyped, NEW base, NEW evicted, Settle(base, evicted), NEW p \in Providers
    PROVE  /\ \A c \in Counters \ {"late", "orphaned"} : count'[p][c] = count[p][c]
           /\ count'[p]["late"] = count[p]["late"] + Cardinality(LateContents(pending[base], p))
           /\ count'[p]["orphaned"] = count[p]["orphaned"] + Cardinality(Orphaned(pending[base], p))
<1> PICK n, m : n = Cardinality(LateContents(pending[base], p)) /\ m = Cardinality(Orphaned(pending[base], p))
    OBVIOUS
<1>1. count'[p] = [count[p] EXCEPT !["late"] = @ + n, !["orphaned"] = @ + m]
    BY DEF Settle
<1>2. count[p] \in [Counters -> Nat]
    BY DEF CountTyped
<1>3. QED
    BY <1>1, <1>2 DEF Counters

\* Finalizing a candidate counts each provider matched or missing.
LEMMA FinalizeCounts ==
    ASSUME CountTyped, Finalize
    PROVE  \E f \in final :
            /\ final' = final \ {f}
            /\ \A p \in Providers :
                /\ \A c \in Counters \ {"matched", "missing", "mismatch"} : count'[p][c] = count[p][c]
                /\ IF p \in DOMAIN f.arr
                   THEN count'[p]["matched"] = count[p]["matched"] + 1
                        /\ count'[p]["missing"] = count[p]["missing"]
                   ELSE count'[p]["matched"] = count[p]["matched"]
                        /\ count'[p]["missing"] = count[p]["missing"] + 1
<1> DEFINE outcome(c) == [q \in Providers |->
                            IF q \in DOMAIN c.arr THEN "matched"
                            ELSE IF q \in sealing.stray THEN "mismatch" ELSE "missing"]
           next(c, q) == [count[q] EXCEPT
                            !["matched"]  = IF outcome(c)[q] = "matched" THEN @ + 1 ELSE @,
                            !["missing"]  = IF outcome(c)[q] # "matched" THEN @ + 1 ELSE @,
                            !["mismatch"] = IF outcome(c)[q] = "mismatch" THEN @ + 1 ELSE @]
<1>1. PICK f \in final : final' = final \ {f} /\ count' = [q \in Providers |-> next(f, q)]
    BY DEF Finalize
<1>2. ASSUME NEW p \in Providers
      PROVE  /\ \A c \in Counters \ {"matched", "missing", "mismatch"} : count'[p][c] = count[p][c]
             /\ IF p \in DOMAIN f.arr
                THEN count'[p]["matched"] = count[p]["matched"] + 1
                     /\ count'[p]["missing"] = count[p]["missing"]
                ELSE count'[p]["matched"] = count[p]["matched"]
                     /\ count'[p]["missing"] = count[p]["missing"] + 1
    <2>1. count[p] \in [Counters -> Nat] /\ count'[p] = next(f, p)
        BY <1>1 DEF CountTyped
    <2> PICK o : o = outcome(f)[p]
        OBVIOUS
    <2>2. (p \in DOMAIN f.arr => o = "matched") /\ (p \notin DOMAIN f.arr => o # "matched")
        OBVIOUS
    <2> HIDE DEF outcome
    <2>3. count'[p] = [count[p] EXCEPT
                         !["matched"]  = IF o = "matched" THEN @ + 1 ELSE @,
                         !["missing"]  = IF o # "matched" THEN @ + 1 ELSE @,
                         !["mismatch"] = IF o = "mismatch" THEN @ + 1 ELSE @]
        BY <2>1
    <2>4. QED
        BY <2>1, <2>2, <2>3 DEF Counters
<1>3. QED
    BY <1>1, <1>2

\* The contents of a base that p sent, and of those the ones it sent in time with the reference.
Came(base, p)    == {c \in DOMAIN pending[base].cands : p \in DOMAIN pending[base].cands[c].arr}
Matches(base, p) == {c \in Canonical(pending[base]) : p \in Timely(pending[base], c)}

\* The arrivals of p at a base that is sealed are late, or orphaned, or matched.
LEMMA ArrivalsSplit ==
    ASSUME Typed, NEW base \in DOMAIN pending, NEW p \in Providers,
           NEW A, A = Came(base, p),
           NEW M, M = Matches(base, p)
    PROVE  /\ IsFiniteSet(A) /\ IsFiniteSet(M)
           /\ Cardinality(A) \in Nat /\ Cardinality(M) \in Nat
           /\ Cardinality(LateContents(pending[base], p)) \in Nat
           /\ Cardinality(Orphaned(pending[base], p)) \in Nat
           /\ Cardinality(A) = Cardinality(LateContents(pending[base], p))
                               + Cardinality(Orphaned(pending[base], p)) + Cardinality(M)
<1> PICK b, C, L, O : b = pending[base] /\ C = DOMAIN b.cands
                      /\ L = LateContents(b, p) /\ O = Orphaned(b, p)
    OBVIOUS
<1>1. IsFiniteSet(C)
    BY DEF Typed, PendingTyped, BaseTyped
<1>2. /\ A \in SUBSET C /\ M \in SUBSET C /\ L \in SUBSET C /\ O \in SUBSET C
    BY DEF Canonical, LateContents, Orphaned, Came, Matches
<1>3. /\ IsFiniteSet(A) /\ IsFiniteSet(M) /\ IsFiniteSet(L) /\ IsFiniteSet(O)
    BY <1>1, <1>2, FS_Subset
<1>4. \A c \in C : Timely(b, c) \subseteq DOMAIN b.cands[c].arr
    BY DEF Timely
<1>5. \A c : /\ c \in A <=> c \in C /\ p \in DOMAIN b.cands[c].arr
             /\ c \in L <=> c \in C /\ p \in DOMAIN b.cands[c].arr \ Timely(b, c)
             /\ c \in O <=> c \in C \ Canonical(b) /\ p \in Timely(b, c)
             /\ c \in M <=> c \in Canonical(b) /\ p \in Timely(b, c)
    BY DEF LateContents, Orphaned, Came, Matches
<1>6. Canonical(b) \subseteq C
    BY DEF Canonical
<1>7. A = (L \cup O) \cup M /\ L \cap O = {} /\ (L \cup O) \cap M = {}
    BY <1>4, <1>5, <1>6
<1>8. IsFiniteSet(L \cup O) /\ Cardinality(L \cup O) = Cardinality(L) + Cardinality(O) - Cardinality(L \cap O)
    BY <1>3, FS_Union
<1>9. Cardinality((L \cup O) \cup M) = Cardinality(L \cup O) + Cardinality(M) - Cardinality((L \cup O) \cap M)
    BY <1>3, <1>8, FS_Union
<1>10. /\ Cardinality(A) \in Nat /\ Cardinality(M) \in Nat
       /\ Cardinality(L) \in Nat /\ Cardinality(O) \in Nat
    BY <1>3, FS_CardinalityType
<1>11. Cardinality({}) = 0
    BY FS_EmptySet
<1>12. Cardinality(A) = Cardinality(L) + Cardinality(O) + Cardinality(M)
    <2>1. Cardinality(L \cap O) = 0 /\ Cardinality((L \cup O) \cap M) = 0
        BY <1>7, <1>11, Zenon
    <2>2. Cardinality(A) = Cardinality((L \cup O) \cup M)
        BY <1>7, Zenon
    <2> PICK all, both, l, o, m : /\ all = Cardinality((L \cup O) \cup M) /\ both = Cardinality(L \cup O)
                                  /\ l = Cardinality(L) /\ o = Cardinality(O) /\ m = Cardinality(M)
        OBVIOUS
    <2>3. both = l + o - 0 /\ all = both + m - 0
        BY <1>8, <1>9, <2>1
    <2>4. QED
        BY <1>10, <2>2, <2>3
<1>13. QED
    BY <1>3, <1>10, <1>12

\* What waits of p at a base that is sealed waits no more.
LEMMA WaitsTakenOut ==
    ASSUME Typed, config' = config, NEW base \in DOMAIN pending, NEW evicted, Settle(base, evicted),
           NEW p \in Providers, IsFiniteSet(Waits(p)),
           NEW A, A = Came(base, p),
           IsFiniteSet(A)
    PROVE  /\ IsFiniteSet(Waits(p)')
           /\ Cardinality(Waits(p)) = Cardinality(Waits(p)') + Cardinality(A)
<1> PICK W, Z, T : W = Waits(p) /\ Z = Waits(p)' /\ T = {base} \X A
    OBVIOUS
<1>1. /\ DOMAIN pending' = DOMAIN pending \ {base}
      /\ \A b \in DOMAIN pending' : pending'[b] = pending[b]
    BY DEF Settle, Without, Restrict
<1>2. A \subseteq Contents /\ Contents' = Contents
    BY LimitsStay DEF Typed, PendingTyped, BaseTyped, Came
<1>3. T \subseteq W
    BY <1>2 DEF Waits, Came
<1>4. Z = W \ T
    <2>1. \A k \in Z : k \in W /\ k \notin T
        BY <1>1, <1>2 DEF Waits, Came
    <2>2. \A k \in W : k \notin T => k \in Z
        BY <1>1, <1>2 DEF Waits, Came
    <2>3. QED
        BY <2>1, <2>2
<1>5. IsFiniteSet({base}) /\ Cardinality({base}) = 1
    BY FS_Singleton
<1>6. Cardinality(T) = Cardinality({base}) * Cardinality(A)
    BY <1>5, FS_Product
<1>7. Cardinality(A) \in Nat /\ Cardinality(W) \in Nat
    BY FS_CardinalityType
<1>8. Cardinality(T) = Cardinality(A)
    BY <1>5, <1>6, <1>7
<1>9. IsFiniteSet(W \ T) /\ Cardinality(W \ T) = Cardinality(W) - Cardinality(W \cap T)
    BY FS_Difference
<1>10. W \cap T = T
    BY <1>3
<1>11. Cardinality(Z) = Cardinality(W) - Cardinality(A) /\ IsFiniteSet(Z)
    BY <1>4, <1>8, <1>9, <1>10
<1>12. QED
    BY <1>7, <1>11

\* What matched is to be finalized.
LEMMA SealedOf ==
    ASSUME Typed', NEW base \in DOMAIN pending, NEW evicted, Settle(base, evicted), NEW p \in Providers,
           NEW M, M = Matches(base, p)
    PROVE  Cardinality(Sealed(p)') = Cardinality(M)
<1> PICK F : F = Sealed(p)'
    OBVIOUS
<1>1. F \in SUBSET final' /\ IsFiniteSet(final')
    BY DEF Sealed, Typed, FinalTyped
<1>2. IsFiniteSet(F)
    BY <1>1, FS_Subset
<1>3. \A f \in F : f \in final' /\ p \in DOMAIN f.arr
    BY DEF Sealed
<1>4. \A f \in final' : p \in DOMAIN f.arr => f \in F
    BY DEF Sealed
<1>5. \A f \in final' : /\ f.content \in Canonical(pending[base])
                        /\ DOMAIN f.arr = Timely(pending[base], f.content)
    BY SealedFinal
<1>6. \A f \in F : f.content \in M
    BY <1>3, <1>5 DEF Matches
<1>7. \A c \in M : \E f \in F : f.content = c
    BY <1>4, <1>5, SealedFinal DEF Matches
<1>8. \A f, g \in F : f.content = g.content => f = g
    BY <1>3, SealedFinal
<1> DEFINE h == [f \in F |-> f.content]
<1>9. h \in [F -> M] /\ \A f \in F : h[f] = f.content
    BY <1>6
<1> HIDE DEF h
<1>10. h \in Bijection(F, M)
    BY <1>7, <1>8, <1>9 DEF Bijection, Injection, Surjection, IsInjective
<1>11. ExistsBijection(F, M)
    BY <1>10 DEF ExistsBijection
<1>12. QED
    BY <1>2, <1>11, FS_Bijection

\* A step that books nothing for p and leaves what waits keeps the balance.
LEMMA BalanceStays ==
    ASSUME config' = config, NEW p \in Providers, Balanced(p), UNCHANGED <<pending, final>>,
           \A c \in {"observed", "matched", "late", "duplicate", "orphaned", "overflow"} :
                count'[p][c] = count[p][c],
           Held(p)' = Held(p)
    PROVE  Balanced(p)'
<1>1. Waits(p)' = Waits(p)
    BY LimitsStay DEF Waits
<1>2. Sealed(p)' = Sealed(p)
    BY DEF Sealed
<1>3. Booked(p)' = Booked(p) /\ count'[p]["observed"] = count[p]["observed"]
    BY DEF Booked
<1>4. QED
    BY <1>1, <1>2, <1>3 DEF Balanced

\* The sizes in a balance are numbers.
LEMMA BalanceNumbers ==
    ASSUME Typed, NEW p \in Providers, Balanced(p)
    PROVE  /\ \A c \in Counters : count[p][c] \in Nat
           /\ Cardinality(Waits(p)) \in Nat /\ Cardinality(Sealed(p)) \in Nat /\ Held(p) \in {0, 1}
<1>1. \A c \in Counters : count[p][c] \in Nat
    BY Numbers DEF Typed
<1>2. Sealed(p) \in SUBSET final /\ IsFiniteSet(final)
    BY DEF Sealed, Typed, FinalTyped
<1>3. IsFiniteSet(Sealed(p)) /\ IsFiniteSet(Waits(p))
    BY <1>2, FS_Subset DEF Balanced
<1>4. Held(p) \in {0, 1}
    BY DEF Held
<1>5. QED
    BY <1>1, <1>3, <1>4, FS_CardinalityType

\* Sealing moves the arrivals of p from what waits to what is late, orphaned or to be finalized.
LEMMA BalanceSettles ==
    ASSUME Typed, Typed', NEW base \in DOMAIN pending, NEW evicted \in BOOLEAN, Settles(base, evicted),
           NEW p \in Providers, Balanced(p)
    PROVE  Balanced(p)'
<1> PICK A, M : A = Came(base, p) /\ M = Matches(base, p)
    OBVIOUS
<1>1. /\ Settle(base, evicted) /\ final = {} /\ config' = config /\ UNCHANGED <<loop, obs>>
    BY DEF Settles
<1>2. /\ IsFiniteSet(A) /\ Cardinality(A) \in Nat /\ Cardinality(M) \in Nat
      /\ Cardinality(LateContents(pending[base], p)) \in Nat
      /\ Cardinality(Orphaned(pending[base], p)) \in Nat
      /\ Cardinality(A) = Cardinality(LateContents(pending[base], p))
                          + Cardinality(Orphaned(pending[base], p)) + Cardinality(M)
    BY ArrivalsSplit
<1>3. IsFiniteSet(Waits(p)') /\ Cardinality(Waits(p)) = Cardinality(Waits(p)') + Cardinality(A)
    BY <1>1, <1>2, WaitsTakenOut DEF Balanced
<1>4. Cardinality(Sealed(p)') = Cardinality(M)
    BY <1>1, SealedOf
<1>5. Cardinality(Sealed(p)) = 0
    <2>1. Sealed(p) = {}
        BY <1>1 DEF Sealed
    <2>2. QED
        BY <2>1, FS_EmptySet, Zenon
<1>6. /\ \A c \in Counters \ {"late", "orphaned"} : count'[p][c] = count[p][c]
      /\ count'[p]["late"] = count[p]["late"] + Cardinality(LateContents(pending[base], p))
      /\ count'[p]["orphaned"] = count[p]["orphaned"] + Cardinality(Orphaned(pending[base], p))
    BY <1>1, SettleCounts DEF Typed
<1>7. Held(p)' = Held(p)
    BY <1>1 DEF Held
<1>8. /\ \A c \in Counters : count[p][c] \in Nat
      /\ Cardinality(Waits(p)) \in Nat /\ Held(p) \in {0, 1}
    BY BalanceNumbers
<1>9. Cardinality(Waits(p)') \in Nat
    BY <1>3, FS_CardinalityType
<1> PICK w, z, l, o, m, s : /\ w = Cardinality(Waits(p)) /\ z = Cardinality(Waits(p)')
                            /\ l = Cardinality(LateContents(pending[base], p))
                            /\ o = Cardinality(Orphaned(pending[base], p)) /\ m = Cardinality(M)
                            /\ s = Cardinality(Sealed(p)')
    OBVIOUS
<1>10. count[p]["observed"] = Booked(p) + w + 0 + Held(p)
    BY <1>5 DEF Balanced
<1>11. count'[p]["observed"] = count[p]["observed"] /\ Booked(p)' = Booked(p) + l + o
    BY <1>2, <1>6, <1>8 DEF Booked, Counters
<1>12. Booked(p) \in Nat
    BY <1>8 DEF Booked, Counters
<1>13. w = z + (l + o + m) /\ s = m /\ {w, z, l, o, m} \subseteq Nat
    BY <1>2, <1>3, <1>4, <1>8, <1>9
<1>14. count'[p]["observed"] = Booked(p)' + z + s + Held(p)'
    BY <1>7, <1>8, <1>10, <1>11, <1>12, <1>13
<1>15. QED
    BY <1>3, <1>14 DEF Balanced

\* A verdict books p as matched when it was to be.
LEMMA BalanceJudges ==
    ASSUME Typed, Finalize, NEW p \in Providers, Balanced(p)
    PROVE  Balanced(p)'
<1>1. PICK f \in final :
        /\ final' = final \ {f}
        /\ \A c \in Counters \ {"matched", "missing", "mismatch"} : count'[p][c] = count[p][c]
        /\ IF p \in DOMAIN f.arr
           THEN count'[p]["matched"] = count[p]["matched"] + 1
                /\ count'[p]["missing"] = count[p]["missing"]
           ELSE count'[p]["matched"] = count[p]["matched"]
                /\ count'[p]["missing"] = count[p]["missing"] + 1
    BY FinalizeCounts DEF Typed
<1>2. UNCHANGED <<config, loop, obs, pending>>
    BY DEF Finalize
<1>3. Waits(p)' = Waits(p) /\ Held(p)' = Held(p)
    BY <1>2, LimitsStay DEF Waits, Held
<1>4. /\ \A c \in Counters : count[p][c] \in Nat
      /\ Cardinality(Waits(p)) \in Nat /\ Cardinality(Sealed(p)) \in Nat /\ Held(p) \in {0, 1}
    BY BalanceNumbers
<1>5. Sealed(p)' = Sealed(p) \ {f} /\ (f \in Sealed(p) <=> p \in DOMAIN f.arr)
    BY <1>1 DEF Sealed
<1>6. IsFiniteSet(Sealed(p))
    <2>1. Sealed(p) \in SUBSET final /\ IsFiniteSet(final)
        BY DEF Sealed, Typed, FinalTyped
    <2>2. QED
        BY <2>1, FS_Subset
<1>7. Cardinality(Sealed(p)') = IF p \in DOMAIN f.arr THEN Cardinality(Sealed(p)) - 1 ELSE Cardinality(Sealed(p))
    <2>1. Cardinality(Sealed(p) \ {f}) = IF f \in Sealed(p) THEN Cardinality(Sealed(p)) - 1
                                         ELSE Cardinality(Sealed(p))
        BY <1>6, FS_RemoveElement
    <2>2. QED
        BY <1>5, <2>1
<1>8. Booked(p)' = IF p \in DOMAIN f.arr THEN Booked(p) + 1 ELSE Booked(p)
    BY <1>1, <1>4 DEF Booked, Counters
<1>9. Booked(p) \in Nat /\ count'[p]["observed"] = count[p]["observed"]
    BY <1>1, <1>4 DEF Booked, Counters
<1> PICK w, s, z : w = Cardinality(Waits(p)) /\ s = Cardinality(Sealed(p)) /\ z = Cardinality(Sealed(p)')
    OBVIOUS
<1>10. count[p]["observed"] = Booked(p) + w + s + Held(p)
    BY DEF Balanced
<1>11. count'[p]["observed"] = Booked(p)' + w + z + Held(p)'
    BY <1>3, <1>4, <1>7, <1>8, <1>9, <1>10
<1>12. QED
    BY <1>3, <1>11 DEF Balanced

\* Base b has an arrival of p in a candidate for c.
HasArrival(b, c, p) == c \in DOMAIN b.cands /\ p \in DOMAIN b.cands[c].arr

\* What waits once an observation has joined its base.
LEMMA WaitsAfter ==
    ASSUME config' = config, NEW b, pending' = Put(pending, Claimed, b), Content \in Contents,
           NEW p, NEW more \in BOOLEAN,
           \A c : HasArrival(b, c, p) <=> HasArrival(OldBase, c, p) \/ (more /\ c = Content)
    PROVE  Waits(p)' = Waits(p) \cup (IF more THEN {<<Claimed, Content>>} ELSE {})
<1>1. /\ DOMAIN pending' = DOMAIN pending \cup {Claimed} /\ pending'[Claimed] = b
      /\ \A x \in DOMAIN pending : x # Claimed => pending'[x] = pending[x]
    BY DEF Put
<1>2. \A c : HasArrival(OldBase, c, p) <=> Claimed \in DOMAIN pending /\ HasArrival(pending[Claimed], c, p)
    BY DEF OldBase, IsPending, HasArrival
<1>3. \A x, c : <<x, c>> \in Waits(p) <=>
                    x \in DOMAIN pending /\ c \in Contents /\ HasArrival(pending[x], c, p)
    BY DEF Waits, HasArrival
<1>4. \A x, c : <<x, c>> \in Waits(p)' <=>
                    x \in DOMAIN pending' /\ c \in Contents /\ HasArrival(pending'[x], c, p)
    BY LimitsStay DEF Waits, HasArrival
<1>5. \A x, c : <<x, c>> \in Waits(p)' <=>
                    <<x, c>> \in Waits(p) \/ (more /\ x = Claimed /\ c = Content)
    <2> SUFFICES ASSUME NEW x, NEW c
                 PROVE  <<x, c>> \in Waits(p)' <=>
                            <<x, c>> \in Waits(p) \/ (more /\ x = Claimed /\ c = Content)
        OBVIOUS
    <2>1. CASE x = Claimed
        <3>1. <<x, c>> \in Waits(p)' <=> c \in Contents /\ HasArrival(b, c, p)
            BY <1>1, <1>4, <2>1
        <3>2. <<x, c>> \in Waits(p) <=> c \in Contents /\ HasArrival(OldBase, c, p)
            BY <1>2, <1>3, <2>1
        <3>3. QED
            BY <2>1, <3>1, <3>2
    <2>2. CASE x # Claimed
        <3>1. pending'[x] = pending[x] \/ x \notin DOMAIN pending
            BY <1>1, <2>2
        <3>2. x \in DOMAIN pending' <=> x \in DOMAIN pending
            BY <1>1, <2>2
        <3>3. QED
            BY <1>3, <1>4, <2>2, <3>1, <3>2
    <2>3. QED
        BY <2>1, <2>2
<1>6. \A k \in Waits(p) \cup Waits(p)' : \E x, c : k = <<x, c>>
    BY DEF Waits
<1>7. QED
    BY <1>5, <1>6

\* An observation in hand is not booked yet.
LEMMA BalanceBegins ==
    ASSUME Typed, BeginRecord, NEW p \in Providers, Balanced(p)
    PROVE  Balanced(p)'
<1> PICK o : o = Head(queue)
    OBVIOUS
<1>1. /\ loop = "idle" /\ loop' = "record" /\ obs' = o /\ queue # <<>>
      /\ config' = config /\ UNCHANGED <<pending, final>>
      /\ count' = Add(o.prov, "observed")
    BY DEF BeginRecord, mapVars
<1>2. o.prov \in Providers
    BY <1>1, QueueTyped DEF Typed, Observation
<1>3. \A c \in Counters : count'[p][c] = IF p = o.prov /\ c = "observed" THEN count[p][c] + 1
                                         ELSE count[p][c]
    <2>1. "observed" \in Counters
        BY DEF Counters
    <2>2. QED
        BY <1>1, <1>2, <2>1, Added DEF Typed
<1>4. Held(p) = 0 /\ Held(p)' = IF p = o.prov THEN 1 ELSE 0
    BY <1>1 DEF Held
<1>5. Waits(p)' = Waits(p) /\ Sealed(p)' = Sealed(p)
    BY <1>1, LimitsStay DEF Waits, Sealed
<1>6. /\ \A c \in Counters : count[p][c] \in Nat
      /\ Cardinality(Waits(p)) \in Nat /\ Cardinality(Sealed(p)) \in Nat
    BY BalanceNumbers
<1>7. Booked(p)' = Booked(p) /\ Booked(p) \in Nat
    BY <1>3, <1>6 DEF Booked, Counters
<1>8. /\ count[p]["observed"] \in Nat
      /\ count'[p]["observed"] = IF p = o.prov THEN count[p]["observed"] + 1 ELSE count[p]["observed"]
    BY <1>3, <1>6 DEF Counters
<1> PICK w, s : w = Cardinality(Waits(p)) /\ s = Cardinality(Sealed(p))
    OBVIOUS
<1>9. count[p]["observed"] = Booked(p) + w + s + Held(p)
    BY DEF Balanced
<1>10. count'[p]["observed"] = Booked(p)' + w + s + Held(p)'
    BY <1>4, <1>6, <1>7, <1>8, <1>9
<1>11. QED
    BY <1>5, <1>10 DEF Balanced

\* An observation no longer in hand that is booked, as one of three, leaves the balance even.
LEMMA BalanceBooks ==
    ASSUME Typed, config' = config, loop = "record", loop' # "record", final' = final,
           obs.prov \in Providers,
           NEW what \in {"late", "duplicate", "overflow"}, count' = Add(obs.prov, what),
           NEW p \in Providers, Balanced(p), Waits(p)' = Waits(p)
    PROVE  Balanced(p)'
<1>1. \A c \in Counters : count'[p][c] = IF p = obs.prov /\ c = what THEN count[p][c] + 1
                                         ELSE count[p][c]
    <2>1. what \in Counters
        BY DEF Counters
    <2>2. QED
        BY <2>1, Added DEF Typed
<1>2. Held(p)' = 0 /\ Held(p) = IF p = obs.prov THEN 1 ELSE 0
    BY DEF Held
<1>3. Sealed(p)' = Sealed(p)
    BY DEF Sealed
<1>4. /\ \A c \in Counters : count[p][c] \in Nat
      /\ Cardinality(Waits(p)) \in Nat /\ Cardinality(Sealed(p)) \in Nat
    BY BalanceNumbers
<1>5. /\ Booked(p) \in Nat
      /\ Booked(p)' = IF p = obs.prov THEN Booked(p) + 1 ELSE Booked(p)
    <2> DEFINE more(c) == IF p = obs.prov /\ c = what THEN 1 ELSE 0
    <2>1. \A c \in {"matched", "late", "duplicate", "orphaned", "overflow"} :
            count[p][c] \in Nat /\ count'[p][c] = count[p][c] + more(c)
        BY <1>1, <1>4 DEF Counters
    <2>2. \A c \in {"matched", "late", "duplicate", "orphaned", "overflow"} : more(c) \in {0, 1}
        OBVIOUS
    <2>3. more("matched") + more("late") + more("duplicate") + more("orphaned") + more("overflow")
            = IF p = obs.prov THEN 1 ELSE 0
        OBVIOUS
    <2> HIDE DEF more
    <2>4. QED
        BY <2>1, <2>2, <2>3 DEF Booked
<1>6. count'[p]["observed"] = count[p]["observed"]
    BY <1>1 DEF Counters
<1> PICK w, s : w = Cardinality(Waits(p)) /\ s = Cardinality(Sealed(p))
    OBVIOUS
<1>7. count[p]["observed"] = Booked(p) + w + s + Held(p)
    BY DEF Balanced
<1>8. count'[p]["observed"] = Booked(p)' + w + s + Held(p)'
    BY <1>2, <1>4, <1>5, <1>6, <1>7
<1>9. QED
    BY <1>3, <1>8 DEF Balanced

\* An observation that joins a candidate waits in it.
LEMMA BalanceWaits ==
    ASSUME Typed, config' = config, loop = "record", loop' # "record", UNCHANGED <<final, count>>,
           NEW k, k \notin Waits(obs.prov),
           NEW p \in Providers, Balanced(p),
           Waits(p)' = Waits(p) \cup (IF p = obs.prov THEN {k} ELSE {})
    PROVE  Balanced(p)'
<1>1. Held(p)' = 0 /\ Held(p) = IF p = obs.prov THEN 1 ELSE 0
    BY DEF Held
<1>2. Sealed(p)' = Sealed(p) /\ Booked(p)' = Booked(p) /\ count'[p]["observed"] = count[p]["observed"]
    BY DEF Sealed, Booked
<1>3. /\ \A c \in Counters : count[p][c] \in Nat
      /\ Cardinality(Waits(p)) \in Nat /\ Cardinality(Sealed(p)) \in Nat
    BY BalanceNumbers
<1>4. Booked(p) \in Nat
    BY <1>3 DEF Booked, Counters
<1>5. /\ IsFiniteSet(Waits(p)')
      /\ Cardinality(Waits(p)') = IF p = obs.prov THEN Cardinality(Waits(p)) + 1 ELSE Cardinality(Waits(p))
    <2>1. IsFiniteSet(Waits(p))
        BY DEF Balanced
    <2>2. CASE p = obs.prov
        <3> PICK W, Z : W = Waits(p) /\ Z = Waits(p)'
            OBVIOUS
        <3>1. k \notin W /\ IsFiniteSet(W) /\ Z = W \cup {k}
            BY <2>1, <2>2
        <3>2. IsFiniteSet(Z) /\ Cardinality(Z) = Cardinality(W) + 1
            BY <3>1, FS_AddElement
        <3>3. QED
            BY <2>2, <3>2
    <2>3. CASE p # obs.prov
        <3>1. Waits(p)' = Waits(p)
            BY <2>3
        <3>2. QED
            BY <2>1, <2>3, <3>1
    <2>4. QED
        BY <2>2, <2>3
<1> PICK w, s, z : w = Cardinality(Waits(p)) /\ s = Cardinality(Sealed(p)) /\ z = Cardinality(Waits(p)')
    OBVIOUS
<1>6. count[p]["observed"] = Booked(p) + w + s + Held(p)
    BY DEF Balanced
<1>7. count'[p]["observed"] = Booked(p)' + z + s + Held(p)'
    BY <1>1, <1>2, <1>3, <1>4, <1>5, <1>6
<1>8. QED
    BY <1>2, <1>5, <1>7 DEF Balanced

\* An observation that is admitted is booked, or waits in the candidate it joined.
LEMMA BalanceAdmitted ==
    ASSUME Typed, AInv, RecordAdmitted, NEW p \in Providers, Balanced(p)
    PROVE  Balanced(p)'
<1>1. PICK b : pending' = Put(pending, Claimed, b) /\ (Overflowed(b) \/ Repeated(b) \/ Arrived(b))
    BY Admission
<1>2. loop = "record" /\ config' = config /\ final' = final
    BY DEF RecordAdmitted
<1>3. Content \in Contents /\ obs.prov \in Providers
    BY <1>2, OldTyped
<1> DEFINE k == <<Claimed, Content>>
<1>4. \A q : (obs.prov \in DOMAIN OldArr <=> HasArrival(OldBase, Content, obs.prov))
             /\ (HasArrival(OldBase, Content, q) => Content \in DOMAIN OldBase.cands /\ q \in DOMAIN OldArr)
             /\ (q \in DOMAIN OldArr => HasArrival(OldBase, Content, q))
    BY DEF OldArr, HasArrival
<1>5. CASE Overflowed(b)
    <2>1. b.cands = OldBase.cands /\ count' = Add(obs.prov, "overflow") /\ loop' = "idle"
        BY <1>5 DEF Overflowed, Return
    <2>2. \A c : HasArrival(b, c, p) <=> HasArrival(OldBase, c, p)
        BY <2>1 DEF HasArrival
    <2>3. Waits(p)' = Waits(p) \cup (IF FALSE THEN {k} ELSE {})
        BY <1>1, <1>2, <1>3, <2>2, WaitsAfter
    <2>4. Waits(p)' = Waits(p)
        BY <2>3
    <2>5. QED
        BY <1>2, <1>3, <2>1, <2>4, BalanceBooks
<1>6. CASE Repeated(b)
    <2>1. count' = Add(obs.prov, "duplicate") /\ loop' = "idle" /\ Content \in DOMAIN OldBase.cands
        BY <1>6 DEF Repeated, Return
    <2>2. PICK d : b.cands = Put(OldBase.cands, Content, d) /\ d.arr = OldArr
        BY <1>6 DEF Repeated, Joined
    <2>3. \A c : HasArrival(b, c, p) <=> HasArrival(OldBase, c, p)
        <3>1. OldArr = OldBase.cands[Content].arr
            BY <2>1 DEF OldArr
        <3>2. QED
            BY <2>1, <2>2, <3>1 DEF HasArrival, Put
    <2>4. Waits(p)' = Waits(p) \cup (IF FALSE THEN {k} ELSE {})
        BY <1>1, <1>2, <1>3, <2>3, WaitsAfter
    <2>5. Waits(p)' = Waits(p)
        BY <2>4
    <2>6. QED
        BY <1>2, <1>3, <2>1, <2>5, BalanceBooks
<1>7. CASE Arrived(b)
    <2>1. obs.prov \notin DOMAIN OldArr /\ loop' = "admitted" /\ UNCHANGED count
        BY <1>7 DEF Arrived
    <2>2. PICK d : b.cands = Put(OldBase.cands, Content, d) /\ d.arr = Put(OldArr, obs.prov, obs.at)
        BY <1>7 DEF Arrived, Joined
    <2>3. PICK more \in BOOLEAN : more <=> p = obs.prov
        OBVIOUS
    <2>4. \A c : HasArrival(b, c, p) <=> HasArrival(OldBase, c, p) \/ (more /\ c = Content)
        <3>1. SUFFICES ASSUME NEW c
                       PROVE  HasArrival(b, c, p) <=> HasArrival(OldBase, c, p) \/ (more /\ c = Content)
            OBVIOUS
        <3>2. CASE c = Content
            <4>1. b.cands[Content] = d /\ Content \in DOMAIN b.cands
                BY <2>2 DEF Put
            <4>2. DOMAIN d.arr = DOMAIN OldArr \cup {obs.prov}
                BY <2>2 DEF Put
            <4>3. HasArrival(b, c, p) <=> p \in DOMAIN OldArr \/ more
                BY <2>3, <3>2, <4>1, <4>2 DEF HasArrival
            <4>4. HasArrival(OldBase, c, p) <=> p \in DOMAIN OldArr
                BY <1>4, <3>2
            <4>5. QED
                BY <3>2, <4>3, <4>4
        <3>3. CASE c # Content
            BY <2>2, <3>3 DEF HasArrival, Put
        <3>4. QED
            BY <3>2, <3>3
    <2>5. Waits(p)' = Waits(p) \cup (IF more THEN {k} ELSE {})
        BY <1>1, <1>2, <1>3, <2>4, WaitsAfter
    <2>6. k \notin Waits(obs.prov)
        <3>1. k \in Waits(obs.prov) => IsPending /\ HasArrival(pending[Claimed], Content, obs.prov)
            BY DEF Waits, HasArrival, IsPending
        <3>2. IsPending => OldBase = pending[Claimed]
            BY DEF OldBase
        <3>3. QED
            BY <1>4, <2>1, <3>1, <3>2
    <2> HIDE DEF k
    <2>7. Waits(p)' = Waits(p) \cup (IF p = obs.prov THEN {k} ELSE {})
        BY <2>3, <2>5
    <2>8. QED
        BY <1>2, <2>1, <2>6, <2>7, BalanceWaits
<1>8. QED
    BY <1>1, <1>5, <1>6, <1>7

\* The balance is kept.
LEMMA BalancedKept ==
    ASSUME Typed, Typed', AInv, [Next]_vars, NEW p \in Providers, Balanced(p)
    PROVE  Balanced(p)'
<1> DEFINE Booking == {"observed", "matched", "late", "duplicate", "orphaned", "overflow"}
<1>1. CASE UNCHANGED vars
    <2>1. UNCHANGED <<config, loop, obs, pending, final, count>>
        BY <1>1 DEF vars, handlerVars, mapVars
    <2>2. Held(p)' = Held(p)
        BY <2>1 DEF Held
    <2>3. QED
        BY <2>1, <2>2, BalanceStays
<1>2. CASE Receipt
    <2>1. UNCHANGED <<config, loop, obs, pending, final, count>>
        BY <1>2 DEF Receipt, Stamp, Send, Advance, handlerVars, mapVars
    <2>2. Held(p)' = Held(p)
        BY <2>1 DEF Held
    <2>3. QED
        BY <2>1, <2>2, BalanceStays
<1>3. CASE RecordAnomaly
    <2> PICK o : o = Head(queue)
        OBVIOUS
    <2>1. /\ UNCHANGED <<config, loop, obs, pending, final>> /\ count' = Add(o.prov, "malformed")
          /\ queue # <<>>
        BY <1>3 DEF RecordAnomaly, handlerVars, mapVars
    <2>2. Held(p)' = Held(p)
        BY <2>1 DEF Held
    <2>3. o.prov \in Providers
        BY <2>1, QueueTyped DEF Typed, Observation
    <2>4. \A c \in Counters : count'[p][c] = IF p = o.prov /\ c = "malformed" THEN count[p][c] + 1
                                             ELSE count[p][c]
        <3>1. "malformed" \in Counters
            BY DEF Counters
        <3>2. QED
            BY <2>1, <2>3, <3>1, Added DEF Typed
    <2>5. \A c \in Booking : count'[p][c] = count[p][c]
        BY <2>4 DEF Counters
    <2>6. QED
        BY <2>1, <2>2, <2>5, BalanceStays
<1>4. CASE BeginRecord
    BY <1>4, BalanceBegins
<1>5. CASE RecordExpired \/ RecordMakesRoom \/ SettleImmediately \/ SettleExpired
    BY <1>5, Settling, BalanceSettles
<1>6. CASE RecordSealed
    <2> PICK what : what = (IF obs.claim \in DOMAIN settled /\ obs.prov \in settled[obs.claim].matched
                            THEN "duplicate" ELSE "late")
        OBVIOUS
    <2>1. /\ config' = config /\ loop = "record" /\ loop' = "idle" /\ UNCHANGED <<final, pending>>
          /\ count' = Add(obs.prov, what)
        BY <1>6 DEF RecordSealed, Return, mapVars
    <2>2. Waits(p)' = Waits(p)
        BY <2>1, LimitsStay DEF Waits
    <2>3. obs.prov \in Providers
        BY <2>1, OldTyped
    <2>4. what \in {"late", "duplicate", "overflow"}
        OBVIOUS
    <2>5. QED
        BY <2>1, <2>2, <2>3, <2>4, BalanceBooks
<1>7. CASE RecordAdmitted
    BY <1>7, BalanceAdmitted
<1>8. CASE Finalize
    BY <1>8, BalanceJudges
<1>9. CASE EndRecord \/ BeginTick \/ Prune \/ EndTick
    <2>1. /\ UNCHANGED <<config, pending, final, count>> /\ loop # "record" /\ loop' # "record"
        BY <1>9 DEF EndRecord, BeginTick, Prune, EndTick, Return, mapVars
    <2>2. Held(p)' = Held(p)
        BY <2>1 DEF Held
    <2>3. QED
        BY <2>1, <2>2, BalanceStays
<1>10. QED
    BY <1>1, <1>2, <1>3, <1>4, <1>5, <1>6, <1>7, <1>8, <1>9 DEF Next, Record, Tick

\* Every verdict counts each provider once.
LEMMA EvenKept ==
    ASSUME Typed, Typed', AInv, [Next]_vars, Even
    PROVE  Even'
<1>1. Providers' = Providers
    BY ConfigStays, LimitsStay
<1>2. \A p \in Providers : \A c \in Counters : count[p][c] \in Nat
    BY Numbers DEF Typed
<1>3. CASE Finalize
    <2>1. PICK f \in final : \A p \in Providers :
            IF p \in DOMAIN f.arr
            THEN count'[p]["matched"] = count[p]["matched"] + 1
                 /\ count'[p]["missing"] = count[p]["missing"]
            ELSE count'[p]["matched"] = count[p]["matched"]
                 /\ count'[p]["missing"] = count[p]["missing"] + 1
        BY <1>3, FinalizeCounts DEF Typed
    <2>2. \A p \in Providers : count'[p]["matched"] + count'[p]["missing"]
                               = count[p]["matched"] + count[p]["missing"] + 1
        BY <1>2, <2>1 DEF Counters
    <2>3. QED
        BY <1>1, <2>2 DEF Even
<1>4. CASE ~Finalize
    <2>1. \A p \in Providers : count'[p]["matched"] = count[p]["matched"]
                               /\ count'[p]["missing"] = count[p]["missing"]
        <3>1. CASE UNCHANGED count
            BY <3>1
        <3>2. CASE RecordExpired \/ RecordMakesRoom \/ SettleImmediately \/ SettleExpired
            <4>1. PICK base \in DOMAIN pending, evicted \in BOOLEAN : Settles(base, evicted)
                BY <3>2, Settling
            <4>2. Settle(base, evicted)
                BY <4>1 DEF Settles
            <4>3. QED
                BY <4>2, SettleCounts DEF Typed, Counters
        <3>3. ASSUME NEW o \in Providers, NEW what \in Counters \ {"matched", "missing"},
                     count' = Add(o, what)
              PROVE  \A p \in Providers : count'[p]["matched"] = count[p]["matched"]
                                          /\ count'[p]["missing"] = count[p]["missing"]
            BY <3>3, Added DEF Typed, Counters
        <3>4. CASE RecordAnomaly \/ BeginRecord
            <4>1. queue # <<>> /\ \E what \in {"malformed", "observed"} : count' = Add(Head(queue).prov, what)
                BY <3>4 DEF RecordAnomaly, BeginRecord
            <4>2. Head(queue).prov \in Providers
                BY <4>1, QueueTyped DEF Typed, Observation
            <4>3. {"malformed", "observed"} \subseteq Counters \ {"matched", "missing"}
                BY DEF Counters
            <4>4. QED
                BY <3>3, <4>1, <4>2, <4>3
        <3>5. CASE RecordSealed \/ RecordAdmitted
            <4>1. obs.prov \in Providers
                BY <3>5, OldTyped DEF RecordSealed, RecordAdmitted
            <4>2. {"duplicate", "late", "overflow"} \subseteq Counters \ {"matched", "missing"}
                BY DEF Counters
            <4>3. count' = count \/ \E what \in {"duplicate", "late", "overflow"} : count' = Add(obs.prov, what)
                <5>1. CASE RecordSealed
                    BY <5>1 DEF RecordSealed
                <5>2. CASE RecordAdmitted
                    BY <5>2, Admission DEF Overflowed, Repeated, Arrived
                <5>3. QED
                    BY <3>5, <5>1, <5>2
            <4>4. QED
                BY <3>1, <3>3, <4>1, <4>2, <4>3
        <3>6. CASE Receipt \/ EndRecord \/ BeginTick \/ Prune \/ EndTick \/ UNCHANGED vars
            <4>1. UNCHANGED count
                BY <3>6 DEF Receipt, Stamp, Send, Advance, EndRecord, BeginTick, Prune, EndTick, vars
            <4>2. QED
                BY <3>1, <4>1
        <3>7. QED
            BY <1>4, <3>2, <3>4, <3>5, <3>6 DEF Next, Record, Tick
    <2>2. QED
        BY <1>1, <2>1 DEF Even
<1>5. QED
    BY <1>3, <1>4

\* A task holds one observation or none.
LEMMA OneInHand ==
    ASSUME NEW s, s = <<>> \/ \E o \in Observation : s = <<o>>
    PROVE  Len(s) = IF s = <<>> THEN 0 ELSE 1
<1>1. CASE s = <<>>
    BY <1>1
<1>2. ASSUME NEW o \in Observation, s = <<o>>
      PROVE  Len(s) = 1 /\ s # <<>>
    BY <1>2
<1>3. QED
    BY <1>1, <1>2

\* What p stamped that is not in its hand: dropped, rejected or recorded.
Gone(p) == dropped[p] + count[p]["malformed"] + count[p]["observed"]

\* What a provider stamped is in its hand, or gone.
LEMMA HandledIs ==
    ASSUME Typed
    PROVE  \A p \in Providers : /\ Handled[p] = (IF stamped[p] = <<>> THEN 0 ELSE 1) + Gone(p)
                                /\ Gone(p) \in Nat /\ Handled[p] \in Nat
<1> SUFFICES ASSUME NEW p \in Providers
             PROVE  /\ Handled[p] = (IF stamped[p] = <<>> THEN 0 ELSE 1) + Gone(p)
                    /\ Gone(p) \in Nat /\ Handled[p] \in Nat
    OBVIOUS
<1> PICK n : n = Len(stamped[p])
    OBVIOUS
<1>1. Handled[p] = n + dropped[p] + count[p]["malformed"] + count[p]["observed"]
    BY DEF Handled
<1>2. n = IF stamped[p] = <<>> THEN 0 ELSE 1
    BY OneInHand DEF Typed, ReceiptTyped
<1>3. dropped[p] \in Nat
    BY DEF Typed, ReceiptTyped
<1>4. count[p]["malformed"] \in Nat /\ count[p]["observed"] \in Nat
    BY Numbers DEF Typed, Counters
<1>5. n \in {0, 1}
    BY <1>2
<1>6. Gone(p) \in Nat /\ Handled[p] = n + Gone(p)
    BY <1>1, <1>3, <1>4, <1>5 DEF Gone
<1>7. QED
    BY <1>2, <1>5, <1>6

\* An observation moves on, from a hand to the queue or to a counter: none is lost and none is made.
LEMMA ConservedKept ==
    ASSUME Typed, Typed', AInv, [Next]_vars, Conserved
    PROVE  Conserved'
<1>1. /\ Providers' = Providers /\ MaxArrivals' = MaxArrivals /\ IsFiniteSet(Providers)
      /\ MaxArrivals \in Nat
    BY ConfigStays, LimitsStay, Limits DEF AInv, Shape
<1> PICK f, g, n, m : f = Handled /\ g = Handled' /\ n = Len(queue) /\ m = Len(queue')
    OBVIOUS
<1>2. \A p \in Providers : /\ f[p] = (IF stamped[p] = <<>> THEN 0 ELSE 1) + Gone(p)
                            /\ Gone(p) \in Nat /\ f[p] \in Nat
    BY HandledIs
<1>3. \A p \in Providers : /\ g[p] = (IF stamped'[p] = <<>> THEN 0 ELSE 1) + Gone(p)'
                            /\ Gone(p)' \in Nat /\ g[p] \in Nat
    <2>1. (\A p \in Providers : /\ Handled[p] = (IF stamped[p] = <<>> THEN 0 ELSE 1) + Gone(p)
                                /\ Gone(p) \in Nat /\ Handled[p] \in Nat)'
        BY HandledIs, PTL
    <2>2. QED
        BY <1>1, <2>1
<1>4. /\ MaxArrivals - left = n + Total(f, Providers)
      /\ Conserved' <=> MaxArrivals - left' = m + Total(g, Providers)
    BY <1>1 DEF Conserved
<1>5. Total(f, Providers) \in Nat /\ Total(g, Providers) \in Nat /\ left \in Nat /\ n \in Nat
    BY <1>1, <1>2, <1>3, TotalIsNatural DEF Typed, ReceiptTyped
<1>6. ASSUME left' = left, queue' = queue, \A p \in Providers : g[p] = f[p]
      PROVE  Conserved'
    <2>1. Total(f, Providers) = Total(g, Providers)
        BY <1>1, <1>6, TotalsAgree
    <2>2. QED
        BY <1>4, <1>6, <2>1
<1>7. ASSUME left' = left, queue # <<>>, queue' = Tail(queue),
             NEW o \in Providers, g[o] = f[o] + 1, \A p \in Providers : p # o => g[p] = f[p]
      PROVE  Conserved'
    <2>1. Total(g, Providers) = Total(f, Providers) + 1
        BY <1>1, <1>2, <1>7, TotalBumps
    <2>2. m = n - 1
        <3>1. queue \in Seq(Observation)
            BY DEF Typed, ReceiptTyped
        <3>2. QED
            BY <1>7, <3>1, HeadTailProperties
    <2>3. QED
        BY <1>1, <1>4, <1>5, <1>7, <2>1, <2>2
<1>8. ASSUME NEW p \in Providers, Stamp(p)
      PROVE  Conserved'
    <2>1. PICK o : stamped' = [stamped EXCEPT ![p] = <<o>>]
        BY <1>8 DEF Stamp
    <2>2. /\ stamped[p] = <<>> /\ left' = left - 1 /\ UNCHANGED <<queue, dropped, count>>
        BY <1>8 DEF Stamp
    <2>3. \A q \in Providers : q # p => stamped'[q] = stamped[q]
        BY <2>1
    <2>4. stamped'[p] # <<>>
        BY <2>1 DEF AInv, Shape
    <2>5. \A q \in Providers : Gone(q)' = Gone(q)
        BY <2>2 DEF Gone
    <2>6. g[p] = f[p] + 1
        BY <1>2, <1>3, <2>2, <2>4, <2>5
    <2>7. \A q \in Providers : q # p => g[q] = f[q]
        BY <1>2, <1>3, <2>3, <2>5
    <2>8. Total(g, Providers) = Total(f, Providers) + 1
        BY <1>1, <1>2, <2>6, <2>7, TotalBumps
    <2>9. QED
        BY <1>1, <1>4, <1>5, <2>2, <2>8
<1>9. ASSUME NEW p \in Providers, Send(p)
      PROVE  Conserved'
    <2>1. /\ stamped[p] # <<>> /\ stamped' = [stamped EXCEPT ![p] = <<>>] /\ UNCHANGED <<left, count>>
          /\ \/ queue' = Append(queue, Head(stamped[p])) /\ UNCHANGED dropped
             \/ dropped' = [dropped EXCEPT ![p] = @ + 1] /\ UNCHANGED queue
        BY <1>9 DEF Send
    <2>2. PICK o \in Observation : stamped[p] = <<o>>
        BY <2>1 DEF Typed, ReceiptTyped
    <2>3. Head(stamped[p]) \in Observation
        BY <2>2
    <2>4. \A q \in Providers : stamped'[q] = IF q = p THEN <<>> ELSE stamped[q]
        <3>1. \A q \in Providers : q \in DOMAIN stamped
            BY DEF AInv, Shape
        <3>2. QED
            BY <2>1, <3>1
    <2>6. CASE queue' = Append(queue, Head(stamped[p])) /\ UNCHANGED dropped
        <3>0. \A q \in Providers : Gone(q)' = Gone(q)
            BY <2>1, <2>6 DEF Gone
        <3>1. f[p] = g[p] + 1
            BY <1>2, <1>3, <2>1, <2>4, <3>0
        <3>2. \A q \in Providers : q # p => f[q] = g[q]
            BY <1>2, <1>3, <2>4, <3>0
        <3>3. Total(f, Providers) = Total(g, Providers) + 1
            BY <1>1, <1>3, <3>1, <3>2, TotalBumps
        <3>4. m = n + 1
            <4>1. queue \in Seq(Observation)
                BY DEF Typed, ReceiptTyped
            <4>2. QED
                BY <2>3, <2>6, <4>1, AppendProperties
        <3>5. QED
            BY <1>1, <1>4, <1>5, <2>1, <3>3, <3>4
    <2>7. CASE dropped' = [dropped EXCEPT ![p] = @ + 1] /\ UNCHANGED queue
        <3>1. \A q \in Providers : dropped'[q] = IF q = p THEN dropped[q] + 1 ELSE dropped[q]
            BY <2>7 DEF Typed, ReceiptTyped
        <3>2. \A q \in Providers : Gone(q)' = IF q = p THEN Gone(q) + 1 ELSE Gone(q)
            <4>1. \A q \in Providers : /\ dropped[q] \in Nat
                                       /\ count[q]["malformed"] \in Nat /\ count[q]["observed"] \in Nat
                BY Numbers DEF Typed, ReceiptTyped, Counters
            <4>2. ASSUME NEW q \in Providers PROVE Gone(q)' = IF q = p THEN Gone(q) + 1 ELSE Gone(q)
                <5>1. Gone(q) = dropped[q] + count[q]["malformed"] + count[q]["observed"]
                    BY DEF Gone
                <5>2. Gone(q)' = dropped'[q] + count[q]["malformed"] + count[q]["observed"]
                    BY <2>1 DEF Gone
                <5>3. PICK a, b, c \in Nat : /\ a = dropped[q]
                                             /\ b = count[q]["malformed"] /\ c = count[q]["observed"]
                    BY <4>1
                <5>4. dropped'[q] = IF q = p THEN a + 1 ELSE a
                    BY <3>1, <5>3
                <5>5. Gone(q) = a + b + c /\ Gone(q)' = (IF q = p THEN a + 1 ELSE a) + b + c
                    BY <5>1, <5>2, <5>3, <5>4
                <5> PICK x, y : x = Gone(q) /\ y = Gone(q)'
                    OBVIOUS
                <5>6. x = a + b + c /\ y = (IF q = p THEN a + 1 ELSE a) + b + c
                    BY <5>5
                <5>7. y = IF q = p THEN x + 1 ELSE x
                    BY ONLY <5>6, a \in Nat, b \in Nat, c \in Nat
                <5>8. QED
                    BY <5>7
            <4>3. QED
                BY <4>2
        <3>3. \A q \in Providers : g[q] = f[q]
            BY <1>2, <1>3, <2>1, <2>4, <3>2
        <3>4. QED
            BY <1>6, <2>1, <2>7, <3>3
    <2>8. QED
        BY <2>1, <2>6, <2>7
<1>10. CASE RecordAnomaly \/ BeginRecord
    <2> PICK o : o = Head(queue).prov
        OBVIOUS
    <2>1. PICK what \in {"malformed", "observed"} : count' = Add(o, what)
        BY <1>10 DEF RecordAnomaly, BeginRecord
    <2>2. queue # <<>> /\ queue' = Tail(queue) /\ UNCHANGED <<left, stamped, dropped>>
        BY <1>10 DEF RecordAnomaly, BeginRecord
    <2>3. o \in Providers
        BY <2>2, QueueTyped DEF Typed, Observation
    <2>4. \A p \in Providers : \A c \in {"malformed", "observed"} :
            count'[p][c] = IF p = o /\ c = what THEN count[p][c] + 1 ELSE count[p][c]
        <3>1. {"malformed", "observed"} \subseteq Counters
            BY DEF Counters
        <3>2. QED
            BY <2>1, <2>3, <3>1, Added DEF Typed
    <2>5. \A p \in Providers : Gone(p)' = IF p = o THEN Gone(p) + 1 ELSE Gone(p)
        <3>1. \A p \in Providers : /\ dropped[p] \in Nat
                                   /\ count[p]["malformed"] \in Nat /\ count[p]["observed"] \in Nat
            BY Numbers DEF Typed, ReceiptTyped, Counters
        <3>2. ASSUME NEW p \in Providers PROVE Gone(p)' = IF p = o THEN Gone(p) + 1 ELSE Gone(p)
            <4>1. /\ Gone(p) = dropped[p] + count[p]["malformed"] + count[p]["observed"]
                  /\ Gone(p)' = dropped[p] + count'[p]["malformed"] + count'[p]["observed"]
                BY <2>2 DEF Gone
            <4>2. PICK a, b, c \in Nat : /\ a = dropped[p]
                                         /\ b = count[p]["malformed"] /\ c = count[p]["observed"]
                BY <3>1
            <4>3. count'[p]["malformed"] = IF p = o /\ what = "malformed" THEN b + 1 ELSE b
                BY <2>4, <4>2
            <4>4. count'[p]["observed"] = IF p = o /\ what = "observed" THEN c + 1 ELSE c
                BY <2>4, <4>2
            <4> PICK x, y, u, v : /\ x = Gone(p) /\ y = Gone(p)'
                                  /\ u = count'[p]["malformed"] /\ v = count'[p]["observed"]
                OBVIOUS
            <4>5. /\ x = a + b + c /\ y = a + u + v
                  /\ u = (IF p = o /\ what = "malformed" THEN b + 1 ELSE b)
                  /\ v = (IF p = o /\ what = "observed" THEN c + 1 ELSE c)
                BY <4>1, <4>2, <4>3, <4>4
            <4>6. y = IF p = o THEN x + 1 ELSE x
                BY ONLY <2>1, <4>5, a \in Nat, b \in Nat, c \in Nat, what \in {"malformed", "observed"}
            <4>7. QED
                BY <4>6
        <3>3. QED
            BY <3>2
    <2>6. \A p \in Providers : g[p] = IF p = o THEN f[p] + 1 ELSE f[p]
        BY <1>2, <1>3, <2>2, <2>5
    <2>7. QED
        BY <1>7, <2>2, <2>3, <2>6
<1>11. ASSUME UNCHANGED <<left, queue, stamped, dropped>>,
              \A p \in Providers : count'[p]["malformed"] = count[p]["malformed"]
                                   /\ count'[p]["observed"] = count[p]["observed"]
       PROVE  Conserved'
    <2>1. \A p \in Providers : Gone(p)' = Gone(p)
        BY <1>11 DEF Gone
    <2>2. \A p \in Providers : g[p] = f[p]
        BY <1>2, <1>3, <1>11, <2>1
    <2>3. QED
        BY <1>6, <1>11, <2>2
<1>12. CASE RecordExpired \/ RecordMakesRoom \/ SettleImmediately \/ SettleExpired
    <2>1. PICK base \in DOMAIN pending, evicted \in BOOLEAN : Settles(base, evicted)
        BY <1>12, Settling
    <2>2. Settle(base, evicted) /\ UNCHANGED <<left, queue, stamped, dropped>>
        BY <2>1 DEF Settles, receiptVars
    <2>3. QED
        BY <1>11, <2>2, SettleCounts DEF Typed, Counters
<1>13. CASE Finalize
    <2>1. UNCHANGED <<left, queue, stamped, dropped>>
        BY <1>13 DEF Finalize, receiptVars
    <2>2. \A p \in Providers : \A c \in Counters \ {"matched", "missing", "mismatch"} :
            count'[p][c] = count[p][c]
        BY <1>13, FinalizeCounts DEF Typed
    <2>3. QED
        BY <1>11, <2>1, <2>2 DEF Counters
<1>14. CASE RecordSealed \/ RecordAdmitted
    <2>1. obs.prov \in Providers /\ UNCHANGED <<left, queue, stamped, dropped>>
        BY <1>14, OldTyped DEF RecordSealed, RecordAdmitted, receiptVars
    <2>2. {"duplicate", "late", "overflow"} \subseteq Counters
        BY DEF Counters
    <2>3. count' = count \/ \E what \in {"duplicate", "late", "overflow"} : count' = Add(obs.prov, what)
        <3>1. CASE RecordSealed
            BY <3>1 DEF RecordSealed
        <3>2. CASE RecordAdmitted
            BY <3>2, Admission DEF Overflowed, Repeated, Arrived
        <3>3. QED
            BY <1>14, <3>1, <3>2
    <2>4. \A p \in Providers : \A c \in {"malformed", "observed"} : count'[p][c] = count[p][c]
        <3>1. ASSUME NEW what \in {"duplicate", "late", "overflow"}, count' = Add(obs.prov, what)
              PROVE  \A p \in Providers : \A c \in {"malformed", "observed"} : count'[p][c] = count[p][c]
            <4>1. \A p \in Providers : \A c \in Counters :
                    count'[p][c] = IF p = obs.prov /\ c = what THEN count[p][c] + 1 ELSE count[p][c]
                BY <2>1, <2>2, <3>1, Added DEF Typed
            <4>2. QED
                BY <4>1 DEF Counters
        <3>2. QED
            BY <2>3, <3>1
    <2>5. QED
        BY <1>11, <2>1, <2>4
<1>15. CASE Advance \/ EndRecord \/ BeginTick \/ Prune \/ EndTick \/ UNCHANGED vars
    <2>1. UNCHANGED <<left, queue, stamped, dropped, count>>
        BY <1>15 DEF Advance, EndRecord, BeginTick, Prune, EndTick, receiptVars, vars
    <2>2. QED
        BY <1>11, <2>1
<1>16. QED
    BY <1>8, <1>9, <1>10, <1>12, <1>13, <1>14, <1>15 DEF Next, Receipt, Record, Tick

\* At first nothing is stamped, and nothing counted.
LEMMA CountedInit ==
    ASSUME Init, Typed
    PROVE  Counted
<1>1. config \in Configs /\ IsFiniteSet(Providers) /\ MaxArrivals \in Nat
    BY Limits DEF Init
<1>2. \A p \in Providers : \A c \in Counters : count[p][c] = 0
    BY DEF Init
<1>3. \A p \in Providers : stamped[p] = <<>> /\ dropped[p] = 0
    BY DEF Init
<1>4. \A p \in Providers : Gone(p) = 0
    <2>1. \A p \in Providers : count[p]["malformed"] = 0 /\ count[p]["observed"] = 0
        BY <1>2 DEF Counters
    <2>2. QED
        BY <1>3, <2>1 DEF Gone
<1>5. ASSUME NEW p \in Providers
      PROVE  Handled[p] = 0
    <2> PICK n : n = IF stamped[p] = <<>> THEN 0 ELSE 1
        OBVIOUS
    <2>1. n = 0
        BY <1>3
    <2>2. Handled[p] = n + Gone(p)
        BY HandledIs
    <2>3. QED
        BY <1>4, <2>1, <2>2
<1>6. Total(Handled, Providers) = 0
    BY <1>1, <1>5, TotalOfZeros
<1>7. Conserved
    <2>1. left = MaxArrivals /\ Len(queue) = 0
        BY DEF Init
    <2>2. QED
        BY <1>1, <1>6, <2>1 DEF Conserved
<1>8. ASSUME NEW p \in Providers
      PROVE  Balanced(p)
    <2>1. Waits(p) = {} /\ Sealed(p) = {}
        BY DEF Init, Waits, Sealed
    <2>2. IsFiniteSet(Waits(p))
        BY <2>1, FS_EmptySet
    <2>3. Cardinality(Waits(p)) = 0 /\ Cardinality(Sealed(p)) = 0
        BY <2>1, FS_EmptySet, Zenon
    <2>4. Held(p) = 0
        BY DEF Init, Held
    <2>5. Booked(p) = 0 /\ count[p]["observed"] = 0
        BY <1>2 DEF Booked, Counters
    <2>6. QED
        BY <2>2, <2>3, <2>4, <2>5 DEF Balanced
<1>9. Even
    BY <1>2 DEF Even, Counters
<1>10. QED
    BY <1>7, <1>8, <1>9 DEF Counted

\* A step keeps the accounts.
LEMMA CountedKept == AInv /\ Typed /\ Typed' /\ Counted /\ [Next]_vars => Counted'
<1> SUFFICES ASSUME AInv, Typed, Typed', Counted, [Next]_vars PROVE Counted'
    OBVIOUS
<1>1. Conserved'
    BY ConservedKept DEF Counted
<1>2. Even'
    BY EvenKept DEF Counted
<1>3. \A p \in Providers : Balanced(p)'
    BY BalancedKept DEF Counted
<1>4. Providers' = Providers
    BY ConfigStays, LimitsStay
<1>5. \A p \in Providers' : Balanced(p)'
    BY <1>3, <1>4
<1>6. QED
    BY <1>1, <1>2, <1>5 DEF Counted

\* Between two handlers nothing is in hand and no verdict is to come.
LEMMA NothingInHand ==
    ASSUME AInv, loop = "idle", NEW p \in Providers
    PROVE  Cardinality(Sealed(p)) = 0 /\ Held(p) = 0
<1>1. final = {}
    BY DEF AInv, Sealing
<1>2. Sealed(p) = {}
    BY <1>1 DEF Sealed
<1>3. Cardinality(Sealed(p)) = 0
    BY <1>2, FS_EmptySet, Zenon
<1>4. QED
    BY <1>3 DEF Held

\* The accounts are kept: of every provider, what was recorded is booked, waits or is in hand
\* (src/benchmark.rs:545-745, record_market, and 1027-1130, settle and finalize_candidate).
THEOREM AccountsInvariant == Spec => []Counted
<1>1. Init => Counted
    BY CountedInit, TypedInit
<1>2. QED
    BY <1>1, CountedKept, AlwaysTyped, AdmissionInvariant, PTL DEF Spec

\* Every observation is counted in exactly one way: dropped at a full queue, rejected, or
\* recorded and then matched, late, a repeat, orphaned, one too many or still pending; and a
\* verdict counts every provider (src/benchmark.rs, ProviderCounters; src/model.rs,
\* ProbeSender::send).
THEOREM ObservationsCounted == Spec => []EveryObservationCounted
<1>1. AInv /\ Typed /\ Counted => EveryObservationCounted
    <2> SUFFICES ASSUME AInv, Typed, Counted, loop = "idle"
                 PROVE  /\ MaxArrivals - left = Len(queue) + MapThenSumSet(LAMBDA p : Handled[p], Providers)
                        /\ \A p \in Providers :
                            count[p]["observed"] =
                                count[p]["matched"] + count[p]["late"] + count[p]["duplicate"]
                                + count[p]["orphaned"] + count[p]["overflow"] + Cardinality(Waits(p))
                        /\ \A p, q \in Providers :
                            count[p]["matched"] + count[p]["missing"]
                                = count[q]["matched"] + count[q]["missing"]
        BY DEF EveryObservationCounted
    <2>1. Total(Handled, Providers) = MapThenSumSet(LAMBDA p : Handled[p], Providers)
        BY DEF MapThenSumSet, MapThenFoldSet, Total, IsTally, Pick
    <2>2. MaxArrivals - left = Len(queue) + MapThenSumSet(LAMBDA p : Handled[p], Providers)
        BY <2>1 DEF Counted, Conserved
    <2>3. ASSUME NEW p \in Providers
          PROVE  count[p]["observed"] =
                    count[p]["matched"] + count[p]["late"] + count[p]["duplicate"]
                    + count[p]["orphaned"] + count[p]["overflow"] + Cardinality(Waits(p))
        <3>1. Balanced(p)
            BY DEF Counted
        <3>2. /\ \A c \in Counters : count[p][c] \in Nat
              /\ Cardinality(Waits(p)) \in Nat
            BY <3>1, BalanceNumbers
        <3> PICK w, s : w = Cardinality(Waits(p)) /\ s = Cardinality(Sealed(p))
            OBVIOUS
        <3>3. s = 0 /\ Held(p) = 0
            BY NothingInHand
        <3>4. count[p]["observed"] = Booked(p) + w + s + Held(p)
            BY <3>1 DEF Balanced
        <3>5. QED
            BY <3>2, <3>3, <3>4 DEF Booked, Counters
    <2>4. QED
        BY <2>2, <2>3 DEF Counted, Even
<1>2. QED
    BY <1>1, AlwaysTyped, AdmissionInvariant, AccountsInvariant, PTL
=============================================================================
