--------------------------- MODULE InventoryProofs ---------------------------
(***************************************************************************)
(* The inventory watch, for any store, window, host and number of restarts.  *)
(***************************************************************************)
EXTENDS Inventory, FiniteSetTheorems, TLAPS

Changes == [type : {"change"}, key : Keys, digest : Digests \cup {Absent}, seq : Nat,
            snap : Listings \cup {NoSnap}]

Numbered == [seq : Nat, key : Keys, digest : Digests \cup {Absent}]

ITyped ==
    /\ opts \in Setups
    /\ store \in Listings /\ confirmed \in Listings /\ view \in Listings
    /\ nextSeq \in Nat /\ elapsed \in 0..nextSeq
    /\ pending \in Seq(Numbered)
    /\ baseline \in {"Silent", "Report", "Known"} /\ gap \in BOOLEAN
    /\ pc \in {"top", "list", "wait", "drain", "stopped"}
    /\ changed \in BOOLEAN /\ stop \in BOOLEAN
    /\ wakes \in Seq(Wakes) /\ inbox \in Seq(Changes \cup {Gap, Bare})
    /\ position \in Positions

Bounded ==
    /\ changes \in 0..opts.maxChanges /\ drops \in 0..opts.maxDrops
    /\ late \in 0..opts.maxLate
    /\ woken \in 0..opts.maxWakes /\ restarts \in 0..opts.maxRestarts

\* Changes are numbered without a gap, so that a number finds its change.
Base == nextSeq - Len(pending)
InFlight(n) == Base <= n /\ n < nextSeq
At(n) == pending[n - Base + 1]

Consecutive ==
    Len(pending) <= nextSeq /\ \A i \in 1..Len(pending) : pending[i].seq = Base + i - 1

AckAt(i) == wakes[i].type = "ack"
ChangeAt(i) == inbox[i].type = "change"

\* Events and acknowledgements travel in the order of their numbers.
InSequence ==
    /\ \A i \in 1..Len(wakes) : AckAt(i) => wakes[i].seq \in 0..nextSeq - 1
    /\ \A i \in 1..Len(inbox) : ChangeAt(i) => inbox[i].seq < nextSeq
    /\ \A i, j \in 1..Len(wakes) : i < j /\ AckAt(i) /\ AckAt(j) => wakes[i].seq < wakes[j].seq
    /\ \A i, j \in 1..Len(inbox) :
            i < j /\ ChangeAt(i) /\ ChangeAt(j) => inbox[i].seq < inbox[j].seq
    /\ \A i \in 1..Len(wakes), j \in 1..Len(inbox) :
            AckAt(i) /\ ChangeAt(j) => wakes[i].seq < inbox[j].seq

\* What is under way to or from a host that is in time is still pending.
Prompt ==
    late = 0 =>
        /\ \A i \in 1..Len(wakes) :
            AckAt(i) => wakes[i].seq >= elapsed /\ InFlight(wakes[i].seq)
        /\ \A i \in 1..Len(inbox) :
            ChangeAt(i) => /\ inbox[i].seq >= elapsed /\ InFlight(inbox[i].seq)
                           /\ At(inbox[i].seq).key = inbox[i].key
                           /\ At(inbox[i].seq).digest = inbox[i].digest

\* Objects lie in the store.
Within(l) == \A k \in Keys : k \notin opts.keys => l[k] = Absent

InKeys ==
    /\ Within(store) /\ Within(confirmed) /\ Within(view)
    /\ \A i \in 1..Len(pending) : pending[i].key \in opts.keys
    /\ \A i \in 1..Len(inbox) :
        ChangeAt(i) => /\ inbox[i].key \in opts.keys
                       /\ inbox[i].snap # NoSnap =>
                            /\ Within(inbox[i].snap)
                            /\ inbox[i].snap[inbox[i].key] = inbox[i].digest
    /\ position.snap # NoSnap => Within(position.snap)

\* Before its first listing a watch has told nothing.
Fresh ==
    /\ gap => baseline = "Silent"
    /\ baseline # "Known" =>
        /\ inbox = <<>> /\ pending = <<>> /\ \A i \in 1..Len(wakes) : ~AckAt(i)
        /\ baseline = "Silent" => position.snap = NoSnap /\ (opts.existing => position.known)
        /\ baseline = "Report" => ~position.known /\ opts.existing

\* A resource watch keeps no positions; a host without one knows nothing yet.
Hosted ==
    /\ ~opts.eventSource =>
        /\ position = NoPosition /\ pending = <<>>
        /\ \A i \in 1..Len(inbox) : ~ChangeAt(i)
        /\ \A i \in 1..Len(wakes) : ~AckAt(i)
    /\ opts.eventSource => \A i \in 1..Len(inbox) : inbox[i].type # "bare"
    /\ ~position.known => position.snap = NoSnap
    /\ opts.eventSource /\ opts.existing /\ ~position.known => view = Empty

Restarting ==
    pc = "stopped" \/ stop \/ (\E i \in 1..Len(wakes) : wakes[i].type = "stop") => restarts > 0

\* What the host knows of an object is what its last unread acknowledgement
\* confirms, or what is confirmed.
Told == opts.eventSource /\ late = 0 /\ ~opts.quietRemovals /\ (Serial \/ restarts = 0)

Settled(k) ==
    \/ /\ confirmed[k] = view[k]
       /\ \A i \in 1..Len(wakes) : AckAt(i) => At(wakes[i].seq).key # k
    \/ \E i \in 1..Len(wakes) :
        /\ AckAt(i) /\ At(wakes[i].seq).key = k /\ At(wakes[i].seq).digest = view[k]
        /\ \A j \in 1..Len(wakes) : i < j /\ AckAt(j) => At(wakes[j].seq).key # k

Agree == Told /\ baseline # "Silent" => \A k \in Keys : Settled(k)

\* With one change at a time, its snapshot is what the host will know.
SnapExact ==
    opts.maxInFlight = 1 /\ late = 0 /\ ~opts.quietRemovals =>
        \A i \in 1..Len(inbox) :
            ChangeAt(i) /\ inbox[i].snap # NoSnap =>
                inbox[i].snap = [view EXCEPT ![inbox[i].key] = inbox[i].digest]

Engine == ITyped /\ Consecutive /\ InFlightBound /\ NoRepeatInFlight

IInv ==
    /\ Engine /\ Bounded
    /\ InSequence /\ Prompt /\ InKeys /\ Fresh /\ Hosted /\ Restarting
    /\ Agree /\ SnapExact /\ PositionExact

-----------------------------------------------------------------------------
(* What is retained, and what a poll reports. *)

LEMMA WindowSize ==
    ASSUME NEW o \in Setups
    PROVE  o.maxInFlight \in Nat /\ o.maxInFlight >= 1
  <1>1. o \in Setup
    BY InventoryAssumption
  <1>2. PICK n \in 1..1000 : n = o.maxInFlight
    BY <1>1 DEF Setup
  <1>3. n \in Nat /\ n >= 1
    OBVIOUS
  <1> QED
    BY <1>2, <1>3

LEMMA Options ==
    ASSUME opts \in Setups
    PROVE  /\ opts.keys \subseteq Keys /\ opts.digests \subseteq Digests
           /\ opts.maxInFlight \in Nat /\ opts.maxInFlight >= 1
           /\ opts.eventSource \in BOOLEAN /\ opts.existing \in BOOLEAN
           /\ opts.quietRemovals \in BOOLEAN
           /\ opts.maxChanges \in Nat /\ opts.maxDrops \in Nat /\ opts.maxLate \in Nat
           /\ opts.maxWakes \in Nat /\ opts.maxRestarts \in Nat
  <1>1. opts \in Setup
    BY InventoryAssumption
  <1>3. opts.maxInFlight \in Nat /\ opts.maxInFlight >= 1
    BY WindowSize
  <1>4. opts.keys \subseteq Keys /\ opts.digests \subseteq Digests
    BY <1>1 DEF Setup
  <1>5. /\ opts.eventSource \in BOOLEAN /\ opts.existing \in BOOLEAN
        /\ opts.quietRemovals \in BOOLEAN
    BY <1>1 DEF Setup
  <1>6. /\ opts.maxChanges \in Nat /\ opts.maxDrops \in Nat /\ opts.maxLate \in Nat
        /\ opts.maxWakes \in Nat /\ opts.maxRestarts \in Nat
    BY <1>1 DEF Setup
  <1> QED
    BY <1>3, <1>4, <1>5, <1>6

\* What Vec::retain leaves of changes numbered from b on.
LEMMA FromSuffix ==
    ASSUME NEW ps \in Seq(Numbered), NEW b \in Nat, NEW n \in Nat,
           \A i \in 1..Len(ps) : ps[i].seq = b + i - 1
    PROVE  \E m \in 0..Len(ps) :
            /\ From(ps, n) \in Seq(Numbered) /\ Len(From(ps, n)) = Len(ps) - m
            /\ \A i \in 1..Len(ps) - m : From(ps, n)[i] = ps[i + m]
            /\ \A i \in 1..Len(ps) : i <= m <=> ps[i].seq < n
  <1> DEFINE m == IF n <= b THEN 0 ELSE IF n - b >= Len(ps) THEN Len(ps) ELSE n - b
  <1>1. m \in 0..Len(ps) /\ Len(ps) \in Nat
    OBVIOUS
  <1>2. \A i \in 1..Len(ps) : i <= m <=> ps[i].seq < n
    OBVIOUS
  <1> HIDE DEF m
  <1>3. {i \in 1..Len(ps) : ps[i].seq < n} = 1..m
    BY <1>1, <1>2
  <1>4. Cardinality(1..m) = m
    BY <1>1, FS_Interval
  <1>5. From(ps, n) = SubSeq(ps, m + 1, Len(ps))
    BY <1>3, <1>4 DEF From
  <1>6. /\ SubSeq(ps, m + 1, Len(ps)) \in Seq(Numbered)
        /\ Len(SubSeq(ps, m + 1, Len(ps))) = Len(ps) - m
        /\ \A i \in 1..Len(ps) - m : SubSeq(ps, m + 1, Len(ps))[i] = ps[i + m]
    BY <1>1
  <1> QED
    BY <1>1, <1>2, <1>5, <1>6

LEMMA RetainedSuffix ==
    ASSUME Engine
    PROVE  \E m \in 0..Len(pending) :
            /\ Retained \in Seq(Numbered) /\ Len(Retained) = Len(pending) - m
            /\ \A i \in 1..Len(pending) - m : Retained[i] = pending[i + m]
            /\ \A i \in 1..Len(pending) : i <= m <=> pending[i].seq < elapsed
  <1>1. /\ pending \in Seq(Numbered) /\ Base \in Nat /\ elapsed \in Nat
        /\ \A i \in 1..Len(pending) : pending[i].seq = Base + i - 1
    BY DEF Engine, ITyped, Consecutive, Base
  <1> QED
    BY <1>1, FromSuffix DEF Retained

\* A finite set of keys can be listed in its order: the rank of a key is an
\* injection into as many numbers as there are keys, so each number is a rank.
LEMMA ListedOnce ==
    ASSUME NEW S \in SUBSET Keys
    PROVE  /\ \A i \in 1..Cardinality(S) : InOrder(S)[i] \in S
           /\ \A i, j \in 1..Cardinality(S) : InOrder(S)[i] = InOrder(S)[j] => i = j
  <1> DEFINE n == Cardinality(S)
             Upto(k) == {j \in S : j <= k}
             rank == [k \in S |-> Cardinality(Upto(k))]
  <1>1. IsFiniteSet(S) /\ n \in Nat
    BY InventoryAssumption, FS_Subset, FS_CardinalityType
  <1>2. ASSUME NEW k \in S PROVE IsFiniteSet(Upto(k)) /\ rank[k] \in 1..n
    <2>1. Upto(k) \in SUBSET S /\ k \in Upto(k)
      BY InventoryAssumption
    <2>2. IsFiniteSet(Upto(k)) /\ Cardinality(Upto(k)) <= n
      BY <1>1, <2>1, FS_Subset
    <2>3. Cardinality(Upto(k)) \in Nat /\ Cardinality(Upto(k)) # 0
      <3>1. Upto(k) # {}
        BY <2>1
      <3> QED BY <2>2, <3>1, FS_CardinalityType, FS_EmptySet
    <2> QED BY <1>1, <2>2, <2>3
  <1>3. ASSUME NEW k \in S, NEW l \in S, rank[k] = rank[l], k < l PROVE FALSE
    <2>1. Upto(k) \in SUBSET Upto(l) /\ l \in Upto(l) /\ l \notin Upto(k)
      <3>1. k \in Nat /\ l \in Nat /\ k < l /\ S \subseteq Nat
        BY <1>3, InventoryAssumption
      <3>2. \A j \in S : j <= k => j <= l
        BY <3>1
      <3>3. l <= l /\ ~(l <= k)
        BY <3>1
      <3> QED BY <3>2, <3>3, Zenon
    <2>2. Upto(l) = Upto(k)
      BY <1>2, <1>3, <2>1, FS_Subset
    <2> QED BY <2>1, <2>2
  <1>4. ASSUME NEW k \in S, NEW l \in S, rank[k] = rank[l] PROVE k = l
    BY <1>3, <1>4, InventoryAssumption
  <1>5. rank \in Injection(S, 1..n)
    BY <1>2, <1>4 DEF Injection, IsInjective
  <1>6. IsFiniteSet(1..n) /\ Cardinality(1..n) = n
    BY <1>1, FS_Interval
  <1>7. rank \in Surjection(S, 1..n)
    BY <1>5, <1>6, FS_Injection
  <1>8. ASSUME NEW i \in 1..n PROVE \E k \in S : Cardinality(Upto(k)) = i
    BY <1>7 DEF Surjection
  <1>9. ASSUME NEW i \in 1..n
        PROVE  InOrder(S)[i] \in S /\ Cardinality(Upto(InOrder(S)[i])) = i
    BY <1>8, Zenon DEF InOrder
  <1> QED BY <1>9

LEMMA OrderedKeys ==
    ASSUME NEW S \in SUBSET Keys
    PROVE  /\ InOrder(S) \in Seq(Keys) /\ Len(InOrder(S)) = Cardinality(S)
           /\ Cardinality(S) \in Nat
           /\ \A i \in 1..Len(InOrder(S)) : InOrder(S)[i] \in S
           /\ \A i, j \in 1..Len(InOrder(S)) : InOrder(S)[i] = InOrder(S)[j] => i = j
  <1>1. IsFiniteSet(S) /\ Cardinality(S) \in Nat
    BY InventoryAssumption, FS_Subset, FS_CardinalityType
  <1>2. \A i \in 1..Cardinality(S) : InOrder(S)[i] \in S
    BY ListedOnce
  <1>3. InOrder(S) = [i \in 1..Cardinality(S) |-> InOrder(S)[i]]
    BY DEF InOrder
  <1>4. InOrder(S) \in [1..Cardinality(S) -> S]
    BY <1>2, <1>3
  <1>5. InOrder(S) \in Seq(Keys) /\ Len(InOrder(S)) = Cardinality(S)
    BY <1>1, <1>4
  <1> QED
    BY <1>1, <1>2, <1>5, ListedOnce

\* A poll reports objects that differ from what is known, none twice, and no
\* more than there is room for.
LEMMA Reported ==
    ASSUME Engine, NEW l \in Listings
    PROVE  /\ Report(l) \in Seq(Keys)
           /\ \A i \in 1..Len(Report(l)) : Report(l)[i] \in Diff(Retained, l)
           /\ \A i, j \in 1..Len(Report(l)) : Report(l)[i] = Report(l)[j] => i = j
           /\ Cut(l) \in 0..Len(Report(l))
           /\ Len(Retained) + Cut(l) <= opts.maxInFlight
  <1> DEFINE A == Diff(Retained, l) \ Gone(l)
  <1> DEFINE B == IF opts.quietRemovals THEN {} ELSE Gone(l)
  <1>1. A \in SUBSET Keys /\ B \in SUBSET Keys /\ A \cap B = {}
        /\ A \subseteq Diff(Retained, l) /\ B \subseteq Diff(Retained, l)
    BY DEF Diff, Gone
  <1>2. Report(l) = InOrder(A) \o InOrder(B)
    BY DEF Report
  <1> HIDE DEF A, B
  <1>3. /\ InOrder(A) \in Seq(Keys) /\ InOrder(B) \in Seq(Keys)
        /\ \A i \in 1..Len(InOrder(A)) : InOrder(A)[i] \in A
        /\ \A i \in 1..Len(InOrder(B)) : InOrder(B)[i] \in B
        /\ \A i, j \in 1..Len(InOrder(A)) : InOrder(A)[i] = InOrder(A)[j] => i = j
        /\ \A i, j \in 1..Len(InOrder(B)) : InOrder(B)[i] = InOrder(B)[j] => i = j
    BY <1>1, OrderedKeys
  <1>4. /\ Report(l) \in Seq(Keys)
        /\ Len(Report(l)) = Len(InOrder(A)) + Len(InOrder(B))
        /\ \A i \in 1..Len(Report(l)) :
            Report(l)[i] = IF i <= Len(InOrder(A)) THEN InOrder(A)[i]
                           ELSE InOrder(B)[i - Len(InOrder(A))]
    BY <1>2, <1>3
  <1>5. \A i \in 1..Len(Report(l)) : Report(l)[i] \in Diff(Retained, l)
    <2> SUFFICES ASSUME NEW i \in 1..Len(Report(l)) PROVE Report(l)[i] \in Diff(Retained, l)
      OBVIOUS
    <2>1. CASE i <= Len(InOrder(A))
      BY <1>1, <1>3, <1>4, <2>1
    <2>2. CASE i > Len(InOrder(A))
      <3>1. i - Len(InOrder(A)) \in 1..Len(InOrder(B))
        BY <1>3, <1>4, <2>2
      <3> QED
        BY <1>1, <1>3, <1>4, <2>2, <3>1
    <2> QED
      BY <1>3, <2>1, <2>2
  <1>6. \A i, j \in 1..Len(Report(l)) : Report(l)[i] = Report(l)[j] => i = j
    <2> SUFFICES ASSUME NEW i \in 1..Len(Report(l)), NEW j \in 1..Len(Report(l)),
                        Report(l)[i] = Report(l)[j]
                 PROVE  i = j
      OBVIOUS
    <2>1. CASE i <= Len(InOrder(A)) /\ j <= Len(InOrder(A))
      BY <1>3, <1>4, <2>1
    <2>2. CASE i > Len(InOrder(A)) /\ j > Len(InOrder(A))
      <3>1. /\ i - Len(InOrder(A)) \in 1..Len(InOrder(B))
            /\ j - Len(InOrder(A)) \in 1..Len(InOrder(B))
            /\ InOrder(B)[i - Len(InOrder(A))] = InOrder(B)[j - Len(InOrder(A))]
        BY <1>3, <1>4, <2>2
      <3>2. i - Len(InOrder(A)) = j - Len(InOrder(A))
        BY <1>3, <3>1
      <3> QED
        BY <1>3, <3>2
    <2>3. CASE i <= Len(InOrder(A)) /\ j > Len(InOrder(A))
      <3>1. Report(l)[i] \in A /\ Report(l)[j] \in B
        BY <1>3, <1>4, <2>3
      <3> QED
        BY <1>1, <3>1
    <2>4. CASE i > Len(InOrder(A)) /\ j <= Len(InOrder(A))
      <3>1. Report(l)[i] \in B /\ Report(l)[j] \in A
        BY <1>3, <1>4, <2>4, SMTT(30)
      <3> QED
        BY <1>1, <3>1
    <2> QED
      BY <1>3, <2>1, <2>2, <2>3, <2>4
  <1>7. Cut(l) \in 0..Len(Report(l)) /\ Len(Retained) + Cut(l) <= opts.maxInFlight
    <2>1. PICK m \in 0..Len(pending) : Len(Retained) = Len(pending) - m
      BY RetainedSuffix
    <2>2. Len(pending) \in Nat /\ Len(pending) <= opts.maxInFlight /\ opts.maxInFlight \in Nat
      BY Options DEF Engine, ITyped, InFlightBound
    <2>3. Len(Report(l)) \in Nat
      BY <1>4
    <2> QED
      BY <2>1, <2>2, <2>3 DEF Cut, RoomAfter
  <1> QED
    BY <1>4, <1>5, <1>6, <1>7

LEMMA Polled ==
    ASSUME Engine, baseline # "Silent"
    PROVE  LET p == Poll(store)
               r == Report(store)
               c == Cut(store)
           IN  /\ p.confirmed = Remembered(store) /\ p.confirmed \in Listings
               /\ p.nextSeq = nextSeq + c
               /\ p.pending \in Seq(Numbered) /\ Len(p.pending) = Len(Retained) + c
               /\ \A i \in 1..Len(Retained) : p.pending[i] = Retained[i]
               /\ \A i \in 1..c :
                    /\ p.pending[Len(Retained) + i].seq = nextSeq + i - 1
                    /\ p.pending[Len(Retained) + i].key = r[i]
                    /\ p.pending[Len(Retained) + i].digest = store[r[i]]
               /\ p.changes \in Seq(Changes) /\ Len(p.changes) = c
               /\ \A i \in 1..c :
                    /\ p.changes[i].type = "change" /\ p.changes[i].seq = nextSeq + i - 1
                    /\ p.changes[i].key = r[i] /\ p.changes[i].digest = store[r[i]]
                    /\ p.changes[i].snap \in
                        {NoSnap, [Remembered(store) EXCEPT ![r[i]] = store[r[i]]]}
  <1> DEFINE r == Report(store)
  <1> DEFINE c == Cut(store)
  <1> DEFINE new == [i \in 1..c |-> [seq |-> nextSeq + i - 1, key |-> r[i], digest |-> store[r[i]]]]
  <1> DEFINE snap(i) == IF i = c THEN Snapshot(Remembered(store), r[i], store[r[i]]) ELSE NoSnap
  <1> DEFINE told == [i \in 1..c |-> Change(r[i], store[r[i]], nextSeq + i - 1, snap(i))]
  <1>1. store \in Listings /\ confirmed \in Listings /\ nextSeq \in Nat
    BY DEF Engine, ITyped
  <1>2. r \in Seq(Keys) /\ c \in 0..Len(r) /\ c \in Nat /\ \A i \in 1..c : r[i] \in Keys
    BY <1>1, Reported
  <1>3. PICK m \in 0..Len(pending) : Retained \in Seq(Numbered)
    BY RetainedSuffix
  <1>4. Poll(store) = [confirmed |-> Remembered(store), pending |-> Retained \o new,
                       nextSeq |-> nextSeq + c, changes |-> told]
    BY DEF Poll, SeqAfter
  <1> HIDE DEF r, c
  <1>5. Remembered(store) \in Listings
    BY <1>1 DEF Remembered, Listings
  <1>6. new \in Seq(Numbered) /\ Len(new) = c
    <2>1. \A i \in 1..c : [seq |-> nextSeq + i - 1, key |-> r[i], digest |-> store[r[i]]] \in Numbered
      BY <1>1, <1>2 DEF Numbered, Listings
    <2>2. new \in [1..c -> Numbered]
      BY <2>1
    <2> QED
      BY <1>2, <2>2
  <1>7. /\ Retained \o new \in Seq(Numbered) /\ Len(Retained \o new) = Len(Retained) + c
        /\ \A i \in 1..Len(Retained) : (Retained \o new)[i] = Retained[i]
        /\ \A i \in 1..c : (Retained \o new)[Len(Retained) + i] = new[i]
    BY <1>2, <1>3, <1>6
  <1>8. \A i \in 1..c :
            snap(i) \in {NoSnap, [Remembered(store) EXCEPT ![r[i]] = store[r[i]]]}
    BY DEF Snapshot
  <1>9. \A i \in 1..c : snap(i) \in Listings \cup {NoSnap}
    <2>1. \A i \in 1..c : [Remembered(store) EXCEPT ![r[i]] = store[r[i]]] \in Listings
      BY <1>1, <1>2, <1>5 DEF Listings
    <2> QED
      BY <1>8, <2>1
  <1> HIDE DEF snap
  <1>10. told \in Seq(Changes) /\ Len(told) = c
    <2>1. \A i \in 1..c : Change(r[i], store[r[i]], nextSeq + i - 1, snap(i)) \in Changes
      BY <1>1, <1>2, <1>9 DEF Changes, Change, Listings
    <2>2. told \in [1..c -> Changes]
      BY <2>1
    <2> QED
      BY <1>2, <2>2
  <1>11. \A i \in 1..c :
            /\ told[i].type = "change" /\ told[i].seq = nextSeq + i - 1
            /\ told[i].key = r[i] /\ told[i].digest = store[r[i]] /\ told[i].snap = snap(i)
    BY DEF Change
  <1>12. \A i \in 1..c :
            /\ new[i].seq = nextSeq + i - 1 /\ new[i].key = r[i] /\ new[i].digest = store[r[i]]
    OBVIOUS
  <1> HIDE DEF new, told
  <1> QED
    BY <1>4, <1>5, <1>6, <1>7, <1>8, <1>10, <1>11, <1>12 DEF r, c

\* Dropping the first changes of the window keeps what holds of it.
LEMMA SuffixWindow ==
    ASSUME Engine, NEW m \in 0..Len(pending), pending' \in Seq(Numbered),
           Len(pending') = Len(pending) - m,
           \A i \in 1..Len(pending') : pending'[i] = pending[i + m],
           nextSeq' = nextSeq, opts' = opts
    PROVE  Consecutive' /\ InFlightBound' /\ NoRepeatInFlight'
  <1>1. Len(pending) \in Nat /\ nextSeq \in Nat /\ opts.maxInFlight \in Nat /\ m \in Nat
    BY Options DEF Engine, ITyped
  <1>2. Consecutive'
    BY <1>1, SMTT(30) DEF Engine, Consecutive, Base
  <1>3. InFlightBound'
    BY <1>1 DEF Engine, InFlightBound
  <1>4. NoRepeatInFlight'
    <2> SUFFICES ASSUME NEW i \in 1..Len(pending'), NEW j \in 1..Len(pending'), i < j,
                        pending'[i].key = pending'[j].key,
                        \A l \in i + 1 .. j - 1 : pending'[l].key # pending'[i].key
                 PROVE  pending'[i].digest # pending'[j].digest
      BY DEF NoRepeatInFlight
    <2>1. i + m \in 1..Len(pending) /\ j + m \in 1..Len(pending) /\ i + m < j + m
      BY <1>1
    <2>2. ASSUME NEW l \in i + m + 1 .. j + m - 1 PROVE pending[l].key # pending[i + m].key
      <3>1. l - m \in i + 1 .. j - 1 /\ l - m \in 1..Len(pending') /\ (l - m) + m = l
        BY <1>1
      <3> QED
        BY <3>1
    <2>3. pending'[i] = pending[i + m] /\ pending'[j] = pending[j + m]
      OBVIOUS
    <2>4. PICK a \in 1..Len(pending), b \in 1..Len(pending) : a = i + m /\ b = j + m
      BY <2>1
    <2>5. a < b /\ \A l \in a + 1 .. b - 1 : pending[l].key # pending[a].key
      BY <2>1, <2>2, <2>4
    <2>6. pending[a].key = pending[b].key
      BY <2>3, <2>4
    <2>7. pending[a].digest # pending[b].digest
      BY <2>5, <2>6 DEF Engine, NoRepeatInFlight
    <2> QED
      BY <2>3, <2>4, <2>7
  <1> QED
    BY <1>2, <1>3, <1>4

\* A poll keeps the window within its bound, numbered, and without repetition.
LEMMA PolledWindow ==
    ASSUME Engine, baseline # "Silent", pending' = Poll(store).pending,
           nextSeq' = Poll(store).nextSeq, opts' = opts
    PROVE  Consecutive' /\ InFlightBound' /\ NoRepeatInFlight'
  <1> DEFINE kept == Retained
  <1> DEFINE r == Report(store)
  <1> DEFINE c == Cut(store)
  <1>1. PICK m \in 0..Len(pending) :
            /\ kept \in Seq(Numbered) /\ Len(kept) = Len(pending) - m
            /\ \A i \in 1..Len(pending) - m : kept[i] = pending[i + m]
    BY RetainedSuffix
  <1>2. /\ store \in Listings /\ nextSeq \in Nat /\ Len(pending) \in Nat
        /\ opts.maxInFlight \in Nat
    BY Options DEF Engine, ITyped
  <1>3. /\ nextSeq' = nextSeq + c
        /\ pending' \in Seq(Numbered) /\ Len(pending') = Len(kept) + c
        /\ \A i \in 1..Len(kept) : pending'[i] = kept[i]
        /\ \A i \in 1..c :
            /\ pending'[Len(kept) + i].seq = nextSeq + i - 1
            /\ pending'[Len(kept) + i].key = r[i]
            /\ pending'[Len(kept) + i].digest = store[r[i]]
    BY Polled
  <1>4. /\ c \in Nat /\ Len(kept) \in Nat /\ c <= Len(r) /\ Len(kept) + c <= opts.maxInFlight
        /\ \A i \in 1..c : r[i] \in Diff(kept, store)
        /\ \A i, j \in 1..c : r[i] = r[j] => i = j
    <2>1. /\ r \in Seq(Keys) /\ c \in 0..Len(r) /\ Len(kept) + c <= opts.maxInFlight
          /\ \A i \in 1..Len(r) : r[i] \in Diff(kept, store)
          /\ \A i, j \in 1..Len(r) : r[i] = r[j] => i = j
      BY <1>2, Reported
    <2> HIDE DEF kept, r, c
    <2>2. c \in Nat /\ Len(kept) \in Nat /\ c <= Len(r) /\ Len(r) \in Nat
      BY <1>1, <2>1
    <2>3. \A i \in 1..c : i \in 1..Len(r)
      BY <2>2
    <2> QED
      BY <2>1, <2>2, <2>3
  <1> HIDE DEF kept, r, c
  <1>5. Consecutive'
    <2>1. Len(pending) <= nextSeq /\ \A i \in 1..Len(pending) : pending[i].seq = Base + i - 1
      BY DEF Engine, Consecutive
    <2>2. Base' = Base + m
      BY <1>1, <1>2, <1>3, <1>4 DEF Base
    <2>3. ASSUME NEW i \in 1..Len(pending') PROVE pending'[i].seq = Base' + i - 1
      <3>1. CASE i <= Len(kept)
        <4>1. i \in 1..Len(kept) /\ i \in 1..Len(pending) - m /\ i + m \in 1..Len(pending)
          BY <1>1, <1>2, <1>4, <3>1
        <4>2. pending'[i] = pending[i + m] /\ pending[i + m].seq = Base + (i + m) - 1
          BY <1>1, <1>3, <2>1, <4>1
        <4> QED
          BY <1>1, <1>2, <2>2, <4>2 DEF Base
      <3>2. CASE i > Len(kept)
        <4>1. i - Len(kept) \in 1..c /\ Len(kept) + (i - Len(kept)) = i
          BY <1>3, <1>4, <3>2
        <4>2. pending'[i].seq = nextSeq + (i - Len(kept)) - 1
          BY <1>3, <4>1
        <4> QED
          BY <1>1, <1>2, <1>4, <2>2, <4>2 DEF Base
      <3> QED
        BY <1>4, <3>1, <3>2
    <2> QED
      BY <1>1, <1>2, <1>3, <1>4, <2>1, <2>3 DEF Consecutive
  <1>6. InFlightBound'
    BY <1>3, <1>4 DEF InFlightBound
  <1>7. NoRepeatInFlight'
    <2> SUFFICES ASSUME NEW i \in 1..Len(pending'), NEW j \in 1..Len(pending'), i < j,
                        pending'[i].key = pending'[j].key,
                        \A l \in i + 1 .. j - 1 : pending'[l].key # pending'[i].key
                 PROVE  pending'[i].digest # pending'[j].digest
      BY DEF NoRepeatInFlight
    <2>1. CASE j <= Len(kept)
      <3>1. i + m \in 1..Len(pending) /\ j + m \in 1..Len(pending) /\ i + m < j + m
        BY <1>1, <1>2, <2>1
      <3>2. pending'[i] = pending[i + m] /\ pending'[j] = pending[j + m]
        <4>1. /\ i \in 1..Len(kept) /\ i \in 1..Len(pending) - m
              /\ j \in 1..Len(kept) /\ j \in 1..Len(pending) - m
          BY <1>1, <1>2, <1>4, <2>1
        <4> QED
          BY <1>1, <1>3, <4>1
      <3>3. ASSUME NEW l \in i + m + 1 .. j + m - 1 PROVE pending[l].key # pending[i + m].key
        <4>1. /\ l - m \in i + 1 .. j - 1 /\ l - m \in 1..Len(kept) /\ (l - m) + m = l
              /\ l - m \in 1..Len(pending) - m
          BY <1>1, <1>2, <1>4, <2>1
        <4>2. pending'[l - m] = pending[l]
          BY <1>1, <1>3, <4>1
        <4> QED
          BY <3>2, <4>1, <4>2
      <3> QED
        BY <3>1, <3>2, <3>3 DEF Engine, NoRepeatInFlight
    <2>2. CASE j > Len(kept) /\ i <= Len(kept)
      <3>1. j - Len(kept) \in 1..c /\ Len(kept) + (j - Len(kept)) = j
        BY <1>3, <1>4, <2>2
      <3> DEFINE k == r[j - Len(kept)]
      <3>2. pending'[j].key = k /\ pending'[j].digest = store[k] /\ k \in Diff(kept, store)
        BY <1>3, <1>4, <3>1
      <3>3. ~PendingTo(kept, k, store[k])
        BY <3>2 DEF Diff
      <3>4. \A l \in i + 1 .. Len(kept) : kept[l].key # k
        <4>1. ASSUME NEW l \in i + 1 .. Len(kept) PROVE kept[l].key # k
          <5>1. l \in i + 1 .. j - 1 /\ l \in 1..Len(kept)
            BY <1>4, <2>2
          <5> QED
            BY <1>3, <3>2, <5>1
        <4> QED
          BY <4>1
      <3>5. i \in 1..Len(kept) /\ kept[i].key = k /\ pending'[i] = kept[i]
        BY <1>3, <1>4, <2>2, <3>2, SMTT(30)
      <3> QED
        BY <3>2, <3>3, <3>4, <3>5 DEF PendingTo
    <2>3. CASE i > Len(kept)
      <3>1. /\ i - Len(kept) \in 1..c /\ Len(kept) + (i - Len(kept)) = i
            /\ j - Len(kept) \in 1..c /\ Len(kept) + (j - Len(kept)) = j
        BY <1>3, <1>4, <2>3
      <3>2. r[i - Len(kept)] = r[j - Len(kept)]
        BY <1>3, <3>1
      <3>3. i - Len(kept) = j - Len(kept)
        BY <1>4, <3>1, <3>2
      <3> QED
        BY <1>4, <3>3
    <2> QED
      BY <1>4, <2>1, <2>2, <2>3
  <1> QED
    BY <1>5, <1>6, <1>7

-----------------------------------------------------------------------------
(* Steps that touch neither the engine nor what the host knows. *)

LEMMA Initially == Init => IInv
  <1> SUFFICES ASSUME Init PROVE IInv
    OBVIOUS
  <1>1. opts \in Setups /\ opts.keys \subseteq Keys /\ opts.digests \subseteq Digests
    BY Options DEF Init
  <1>2. /\ confirmed = Empty /\ gap = FALSE /\ view = Empty /\ position = NoPosition
        /\ baseline = IF opts.existing THEN "Report" ELSE "Silent"
        /\ pending = <<>> /\ wakes = <<>> /\ inbox = <<>> /\ nextSeq = 0 /\ elapsed = 0
        /\ Empty \in Listings /\ position.known = FALSE /\ position.snap = NoSnap
    BY DEF Init, Resume, NoPosition, Empty, Listings
  <1>3. store \in Listings /\ Within(store)
    BY DEF Init, Within
  <1>4. ITyped
    <2>1. position \in Positions
      BY <1>2 DEF Positions, NoPosition
    <2>2. pc = "top" /\ changed = FALSE /\ stop = FALSE
      BY DEF Init
    <2>3. baseline \in {"Silent", "Report", "Known"}
      BY <1>2
    <2>4. pending \in Seq(Numbered) /\ wakes \in Seq(Wakes) /\ inbox \in Seq(Changes \cup {Gap, Bare})
      BY <1>2
    <2>5. nextSeq = 0 /\ elapsed = 0 /\ gap = FALSE
      BY <1>2
    <2>6. nextSeq \in Nat /\ elapsed \in 0..nextSeq
      BY <2>5
    <2>7. gap \in BOOLEAN
      BY <2>5
    <2> QED
      BY <1>1, <1>2, <1>3, <2>1, <2>2, <2>3, <2>4, <2>6, <2>7 DEF ITyped
  <1>5. Bounded
    BY <1>1, Options DEF Init, Bounded
  <1>6. Consecutive /\ InFlightBound /\ NoRepeatInFlight
    BY <1>1, <1>2, Options DEF Consecutive, InFlightBound, NoRepeatInFlight, Base
  <1>7. InSequence /\ Prompt
    BY <1>2 DEF InSequence, Prompt
  <1>8. InKeys
    BY <1>2, <1>3 DEF InKeys, Within, Empty
  <1>9. Fresh /\ Hosted /\ Restarting
    BY <1>1, <1>2, Options DEF Fresh, Hosted, Restarting, Init
  <1>10. Agree /\ SnapExact /\ PositionExact
    BY <1>2 DEF Agree, Settled, SnapExact, PositionExact
  <1> QED
    BY <1>4, <1>5, <1>6, <1>7, <1>8, <1>9, <1>10 DEF IInv, Engine

\* The engine and the host stay, and the channel gets no acknowledgement.
LEMMA Aside ==
    ASSUME IInv, UNCHANGED <<opts, engine, host, late>>, wakes' \in Seq(Wakes),
           Len(wakes') >= Len(wakes),
           \A i \in 1..Len(wakes) : wakes'[i] = wakes[i],
           \A i \in 1..Len(wakes') : i > Len(wakes) => wakes'[i].type # "ack",
           ITyped', Bounded', Within(store)', Restarting', restarts' >= restarts
    PROVE  IInv'
  <1>1. /\ opts' = opts /\ confirmed' = confirmed /\ pending' = pending /\ nextSeq' = nextSeq
        /\ elapsed' = elapsed /\ baseline' = baseline /\ gap' = gap /\ inbox' = inbox
        /\ view' = view /\ position' = position /\ late' = late
    BY DEF engine, host
  <1>2. wakes \in Seq(Wakes) /\ Len(wakes) \in Nat /\ Len(wakes') \in Nat
    BY DEF IInv, Engine, ITyped
  <1>3. \A i \in 1..Len(wakes') : AckAt(i)' => i \in 1..Len(wakes) /\ wakes'[i] = wakes[i] /\ AckAt(i)
    BY <1>2 DEF AckAt
  <1>4. \A i \in 1..Len(wakes) : /\ i \in 1..Len(wakes') /\ wakes'[i] = wakes[i]
                                 /\ AckAt(i)' <=> AckAt(i)
    BY <1>2 DEF AckAt
  <1>5. /\ Base' = Base
        /\ \A n : /\ InFlight(n)' <=> InFlight(n)
                  /\ At(n)' = At(n)
        /\ \A i : ChangeAt(i)' <=> ChangeAt(i)
        /\ Serial' <=> Serial
    BY <1>1 DEF Base, InFlight, At, ChangeAt, Serial
  <1>6. Engine'
    BY <1>1, <1>5 DEF IInv, Engine, Consecutive, InFlightBound, NoRepeatInFlight
  <1>7. InSequence'
    BY <1>1, <1>3, <1>5 DEF IInv, InSequence
  <1>8. Prompt'
    BY <1>1, <1>3, <1>5 DEF IInv, Prompt
  <1>9. InKeys'
    BY <1>1, <1>5 DEF IInv, InKeys, Within
  <1>10. Fresh' /\ Hosted'
    BY <1>1, <1>3, <1>5 DEF IInv, Fresh, Hosted
  <1>11. Agree'
    <2>1. Told' => Told
      <3>1. restarts \in Nat /\ restarts' \in Nat
        BY <1>1, Options DEF IInv, Bounded, Engine, ITyped
      <3> QED
        BY <1>1, <1>5, <3>1 DEF Told
    <2>2. ASSUME NEW k \in Keys, Settled(k) PROVE Settled(k)'
      <3>1. CASE confirmed[k] = view[k] /\ \A i \in 1..Len(wakes) : AckAt(i) => At(wakes[i].seq).key # k
        BY <1>1, <1>3, <1>5, <3>1 DEF Settled
      <3>2. CASE \E i \in 1..Len(wakes) :
                    /\ AckAt(i) /\ At(wakes[i].seq).key = k /\ At(wakes[i].seq).digest = view[k]
                    /\ \A j \in 1..Len(wakes) : i < j /\ AckAt(j) => At(wakes[j].seq).key # k
        <4>1. PICK i \in 1..Len(wakes) :
                    /\ AckAt(i) /\ At(wakes[i].seq).key = k /\ At(wakes[i].seq).digest = view[k]
                    /\ \A j \in 1..Len(wakes) : i < j /\ AckAt(j) => At(wakes[j].seq).key # k
          BY <3>2
        <4>2. /\ i \in 1..Len(wakes') /\ AckAt(i)' /\ At(wakes[i].seq)'.key = k
              /\ At(wakes[i].seq)'.digest = view'[k]
          BY <1>1, <1>4, <1>5, <4>1
        <4>3. \A j \in 1..Len(wakes') : i < j /\ AckAt(j)' => At(wakes[j].seq)'.key # k
          BY <1>3, <1>5, <4>1
        <4> QED
          BY <4>2, <4>3 DEF Settled
      <3> QED
        BY <2>2, <3>1, <3>2 DEF Settled
    <2> QED
      BY <1>1, <2>1, <2>2 DEF IInv, Agree
  <1>12. SnapExact' /\ PositionExact'
    BY <1>1, <1>5 DEF IInv, SnapExact, PositionExact
  <1> QED
    BY <1>6, <1>7, <1>8, <1>9, <1>10, <1>11, <1>12 DEF IInv

\* The store, and the steps of the thread that do not list or read.
LEMMA LightSteps ==
    ASSUME IInv, StoreChanges \/ Top \/ ListFails \/ Timeout \/ Drained
    PROVE  IInv'
  <1>1. ITyped /\ Bounded /\ Within(store) /\ Restarting /\ opts \in Setups
    BY DEF IInv, Engine, ITyped, InKeys
  <1>2. UNCHANGED <<opts, engine, host, late, wakes, stop, restarts, drops, woken>>
    BY DEF StoreChanges, Top, ListFails, Timeout, Drained, thread, bounds
  <1>3. /\ pc' \in {"top", "list", "wait", "drain", "stopped"} /\ changed' \in BOOLEAN
        /\ pc' = "stopped" => pc = "stopped" \/ stop
    BY <1>1 DEF StoreChanges, Top, ListFails, Timeout, Drained, thread, ITyped
  <1>4. store' \in Listings /\ Within(store)' /\ changes' \in 0..opts.maxChanges
    <2>1. CASE StoreChanges
      <3>1. PICK k \in opts.keys, d \in opts.digests \cup {Absent} :
                store' = [store EXCEPT ![k] = d]
        BY <2>1 DEF StoreChanges
      <3>2. k \in Keys /\ d \in Digests \cup {Absent} /\ opts.maxChanges \in Nat
        BY <1>1, Options
      <3>3. store' \in Listings /\ Within(store)'
        BY <1>1, <1>2, <3>1, <3>2 DEF ITyped, Listings, Within
      <3> QED
        BY <1>1, <2>1, <3>2, <3>3 DEF StoreChanges, Bounded
    <2>2. CASE Top \/ ListFails \/ Timeout \/ Drained
      BY <1>1, <1>2, <2>2 DEF Top, ListFails, Timeout, Drained, bounds, ITyped, Bounded, Within
    <2> QED
      BY <2>1, <2>2
  <1>5. ITyped'
    BY <1>1, <1>2, <1>3, <1>4 DEF ITyped, engine, host
  <1>6. Bounded'
    BY <1>1, <1>2, <1>4 DEF Bounded
  <1>7. Restarting'
    BY <1>1, <1>2, <1>3 DEF Restarting
  <1>8. wakes \in Seq(Wakes) /\ Len(wakes) \in Nat /\ restarts \in Nat
    BY <1>1, Options DEF ITyped, Bounded
  <1> QED
    BY <1>2, <1>4, <1>5, <1>6, <1>7, <1>8, Aside

LEMMA ChannelSteps ==
    ASSUME IInv, Wake \/ Cancel
    PROVE  IInv'
  <1>1. /\ ITyped /\ Bounded /\ Within(store) /\ Restarting /\ opts \in Setups
        /\ wakes \in Seq(Wakes) /\ Len(wakes) \in Nat
    BY DEF IInv, Engine, ITyped, InKeys
  <1>2. UNCHANGED <<opts, engine, host, late, store, pc, changed, drops, changes>>
    BY DEF Wake, Cancel, thread
  <1>3. Changed \in Wakes /\ Stop \in Wakes /\ Changed.type = "changed" /\ Stop.type = "stop"
    BY DEF Changed, Stop, Wakes
  <1>4. PICK w \in Wakes : wakes' = Append(wakes, w) /\ w.type # "ack"
                            /\ (w.type = "stop" => restarts' > 0)
    <2>1. CASE Wake
      BY <1>3, <2>1 DEF Wake
    <2>2. CASE Cancel
      <3>1. restarts \in Nat /\ restarts' = restarts + 1 /\ wakes' = Append(wakes, Stop)
        BY <1>1, <2>2, Options DEF Cancel, Bounded
      <3>2. restarts' > 0
        BY <3>1
      <3> QED
        BY <1>3, <3>1, <3>2
    <2> QED
      BY <2>1, <2>2
  <1>5. /\ wakes' \in Seq(Wakes) /\ Len(wakes') = Len(wakes) + 1
        /\ \A i \in 1..Len(wakes) : wakes'[i] = wakes[i]
        /\ wakes'[Len(wakes) + 1] = w
    BY <1>1, <1>4
  <1>6. \A i \in 1..Len(wakes') : i > Len(wakes) => wakes'[i] = w
    <2>1. \A i \in 1..Len(wakes') : i > Len(wakes) => i = Len(wakes) + 1
      BY <1>1, <1>5
    <2> QED
      BY <1>5, <2>1
  <1>7. stop' \in BOOLEAN /\ (stop' => stop \/ restarts' > 0) /\ restarts' >= restarts
        /\ restarts \in Nat
    <2>1. CASE Wake
      BY <1>1, <2>1, Options DEF Wake, thread, Bounded, ITyped
    <2>2. CASE Cancel
      BY <1>1, <2>2, Options DEF Cancel, Bounded, ITyped
    <2> QED
      BY <2>1, <2>2
  <1>8. ITyped'
    BY <1>1, <1>2, <1>5, <1>7 DEF ITyped, engine, host
  <1>9. Bounded'
    <2>1. CASE Wake
      BY <1>1, <1>2, <2>1, Options DEF Wake, Bounded
    <2>2. CASE Cancel
      BY <1>1, <1>2, <2>2, Options DEF Cancel, Bounded
    <2> QED
      BY <2>1, <2>2
  <1>10. Restarting'
    <2>1. restarts > 0 => restarts' > 0
      BY <1>7, <1>9 DEF Bounded
    <2>2. ASSUME NEW i \in 1..Len(wakes'), wakes'[i].type = "stop" PROVE restarts' > 0
      <3>1. CASE i <= Len(wakes)
        BY <1>1, <1>5, <2>1, <2>2, <3>1 DEF Restarting
      <3>2. CASE i > Len(wakes)
        BY <1>4, <1>6, <2>2, <3>2
      <3> QED
        BY <1>1, <1>5, <3>1, <3>2
    <2> QED
      BY <1>1, <1>2, <1>7, <2>1, <2>2 DEF Restarting
  <1>11. Within(store)'
    BY <1>1, <1>2 DEF Within
  <1> QED
    BY <1>1, <1>2, <1>4, <1>5, <1>6, <1>7, <1>8, <1>9, <1>10, <1>11, Aside

LEMMA ElapseKeeps ==
    ASSUME IInv, Elapse
    PROVE  IInv'
  <1>1. PICK e \in 1..Len(pending) :
            /\ pending[e].seq >= elapsed
            /\ \A j \in 1..Len(pending) : pending[j].seq >= elapsed => pending[e].seq <= pending[j].seq
            /\ \/ ~Underway(pending[e].seq) /\ late' = late
               \/ Underway(pending[e].seq) /\ late < opts.maxLate /\ late' = late + 1
            /\ elapsed' = pending[e].seq + 1
    BY DEF Elapse
  <1>2. UNCHANGED <<opts, store, confirmed, pending, nextSeq, baseline, gap, pc, changed, stop,
                    wakes, inbox, view, position, changes, drops, woken, restarts>>
    BY DEF Elapse, thread, host
  <1>3. /\ ITyped /\ Bounded /\ Consecutive /\ pending \in Seq(Numbered) /\ nextSeq \in Nat
        /\ late \in Nat /\ opts \in Setups
    BY Options DEF IInv, Engine, ITyped, Bounded
  <1>4. pending[e].seq \in Nat /\ pending[e].seq = Base + e - 1 /\ pending[e].seq < nextSeq
    <2>1. pending[e] \in Numbered
      BY <1>3
    <2>2. pending[e].seq \in Nat
      BY <2>1 DEF Numbered
    <2> QED
      BY <1>3, <2>2 DEF Consecutive, Base
  <1>5. elapsed' \in 0..nextSeq /\ late' \in Nat /\ (late' = 0 => late = 0) /\ late' \in 0..opts.maxLate
    <2>1. opts.maxLate \in Nat /\ late \in 0..opts.maxLate
      BY <1>3, Options DEF Bounded
    <2>2. late' = late \/ (late < opts.maxLate /\ late' = late + 1)
      BY <1>1
    <2>3. late' \in Nat /\ (late' = 0 => late = 0) /\ late' \in 0..opts.maxLate
      BY <2>1, <2>2
    <2>4. elapsed' \in 0..nextSeq
      BY <1>1, <1>3, <1>4
    <2> QED
      BY <2>3, <2>4
  <1>6. ITyped' /\ Bounded'
    BY <1>2, <1>3, <1>5 DEF ITyped, Bounded
  <1>7. /\ Base' = Base
        /\ \A n : /\ InFlight(n)' <=> InFlight(n)
                  /\ At(n)' = At(n)
        /\ \A i : ChangeAt(i)' <=> ChangeAt(i)
        /\ \A i : AckAt(i)' <=> AckAt(i)
        /\ Serial' => Serial
    BY <1>2, <1>5 DEF Base, InFlight, At, ChangeAt, AckAt, Serial
  <1>8. Engine'
    BY <1>2, <1>6, <1>7 DEF IInv, Engine, Consecutive, InFlightBound, NoRepeatInFlight
  <1>9. InSequence' /\ InKeys' /\ Fresh' /\ Hosted' /\ Restarting'
    BY <1>2, <1>7 DEF IInv, InSequence, InKeys, Within, Fresh, Hosted, Restarting
  <1>10. SnapExact' /\ PositionExact'
    BY <1>2, <1>5, <1>7 DEF IInv, SnapExact, PositionExact
  <1>11. Agree'
    <2>1. Told' => Told
      BY <1>2, <1>5, <1>7 DEF Told
    <2>2. ASSUME NEW k \in Keys, Settled(k) PROVE Settled(k)'
      BY <1>2, <1>7, <2>2 DEF Settled
    <2> QED
      BY <1>2, <2>1, <2>2 DEF IInv, Agree
  <1>12. Prompt'
    <2> SUFFICES ASSUME late' = 0 PROVE Prompt'
      BY DEF Prompt
    <2>1. late = 0 /\ ~Underway(pending[e].seq)
      BY <1>1, <1>3, <1>5
    <2>2. ASSUME NEW n \in Nat, InFlight(n), n >= elapsed, n # pending[e].seq PROVE n >= elapsed'
      <3>1. n - Base + 1 \in 1..Len(pending) /\ pending[n - Base + 1].seq = n
        BY <1>3, <2>2 DEF Consecutive, InFlight, Base
      <3> QED
        BY <1>1, <1>4, <2>2, <3>1
    <2>3. ASSUME NEW i \in 1..Len(wakes), AckAt(i) PROVE wakes[i].seq >= elapsed'
      <3>1. wakes[i] \in Wakes /\ wakes[i].seq \in Nat /\ wakes[i].type = "ack"
        BY <1>3, <2>3 DEF ITyped, IInv, InSequence, AckAt
      <3>2. wakes[i] = Ack(wakes[i].seq)
        BY <3>1 DEF Wakes, Ack
      <3>3. wakes[i].seq # pending[e].seq
        BY <2>1, <3>2 DEF Underway
      <3>4. wakes[i].seq >= elapsed /\ InFlight(wakes[i].seq)
        BY <2>1, <2>3 DEF IInv, Prompt
      <3> QED
        BY <2>2, <3>1, <3>3, <3>4
    <2>4. ASSUME NEW i \in 1..Len(inbox), ChangeAt(i) PROVE inbox[i].seq >= elapsed'
      <3>1. inbox[i] \in Changes \cup {Gap, Bare} /\ inbox[i].type = "change"
        BY <1>3, <2>4 DEF ITyped, ChangeAt
      <3>2. Gap.type = "gap" /\ Bare.type = "bare"
        BY DEF Gap, Bare
      <3>3. inbox[i].seq \in Nat
        BY <3>1, <3>2 DEF Changes
      <3>4. inbox[i].seq # pending[e].seq
        BY <2>1, <3>1 DEF Underway
      <3>5. inbox[i].seq >= elapsed /\ InFlight(inbox[i].seq)
        BY <2>1, <2>4 DEF IInv, Prompt
      <3> QED
        BY <2>2, <3>3, <3>4, <3>5
    <2> QED
      BY <1>2, <1>7, <2>1, <2>3, <2>4 DEF IInv, Prompt
  <1> QED
    BY <1>6, <1>8, <1>9, <1>10, <1>11, <1>12 DEF IInv

\* An event leaves the inbox.
LEMMA InboxTail ==
    ASSUME IInv, inbox # <<>>, inbox' = Tail(inbox)
    PROVE  /\ Len(inbox) \in Nat /\ Len(inbox) >= 1 /\ Head(inbox) = inbox[1]
           /\ inbox' \in Seq(Changes \cup {Gap, Bare}) /\ Len(inbox') = Len(inbox) - 1
           /\ \A i \in 1..Len(inbox') : i + 1 \in 1..Len(inbox) /\ inbox'[i] = inbox[i + 1]
           /\ \A i \in 1..Len(inbox') : ChangeAt(i)' <=> ChangeAt(i + 1)
  <1>1. inbox \in Seq(Changes \cup {Gap, Bare})
    BY DEF IInv, Engine, ITyped
  <1>2. /\ Len(inbox) \in Nat /\ Len(inbox) >= 1 /\ Head(inbox) = inbox[1]
        /\ inbox' \in Seq(Changes \cup {Gap, Bare}) /\ Len(inbox') = Len(inbox) - 1
        /\ \A i \in 1..Len(inbox') : i + 1 \in 1..Len(inbox) /\ inbox'[i] = inbox[i + 1]
    BY <1>1
  <1> QED
    BY <1>2 DEF ChangeAt

\* What is said of the events still under way is said of the rest of them.
LEMMA InboxRest ==
    ASSUME IInv, inbox # <<>>, inbox' = Tail(inbox),
           UNCHANGED <<opts, engine, store, late>>
    PROVE  /\ \A i, j \in 1..Len(inbox') :
                i < j /\ ChangeAt(i)' /\ ChangeAt(j)' => inbox'[i].seq < inbox'[j].seq
           /\ \A i \in 1..Len(inbox') : ChangeAt(i)' =>
                /\ inbox'[i].seq < nextSeq'
                /\ inbox'[i].key \in opts'.keys
                /\ inbox'[i].snap # NoSnap =>
                    /\ (Within(inbox[i].snap))'
                    /\ inbox'[i].snap[inbox'[i].key] = inbox'[i].digest
                /\ late' = 0 =>
                    /\ inbox'[i].seq >= elapsed' /\ (InFlight(inbox[i].seq))'
                    /\ (At(inbox[i].seq))'.key = inbox'[i].key
                    /\ (At(inbox[i].seq))'.digest = inbox'[i].digest
           /\ \A i \in 1..Len(inbox') : ~opts.eventSource => ~ChangeAt(i)'
           /\ \A i \in 1..Len(inbox') : opts.eventSource => inbox'[i].type # "bare"
           /\ baseline' = "Known"
  <1>1. /\ opts' = opts /\ nextSeq' = nextSeq /\ elapsed' = elapsed /\ pending' = pending
        /\ baseline' = baseline /\ late' = late
    BY DEF engine
  <1>2. /\ \A i \in 1..Len(inbox') : i + 1 \in 1..Len(inbox) /\ inbox'[i] = inbox[i + 1]
        /\ \A i \in 1..Len(inbox') : ChangeAt(i)' <=> ChangeAt(i + 1)
    BY InboxTail
  <1>3. \A i, j \in 1..Len(inbox') :
            i < j /\ ChangeAt(i)' /\ ChangeAt(j)' => inbox'[i].seq < inbox'[j].seq
    BY <1>2 DEF IInv, InSequence
  <1>4. ASSUME NEW i \in 1..Len(inbox'), ChangeAt(i)'
        PROVE  /\ inbox'[i].seq < nextSeq'
               /\ inbox'[i].key \in opts'.keys
               /\ inbox'[i].snap # NoSnap =>
                    /\ (Within(inbox[i].snap))'
                    /\ inbox'[i].snap[inbox'[i].key] = inbox'[i].digest
               /\ late' = 0 =>
                    /\ inbox'[i].seq >= elapsed' /\ (InFlight(inbox[i].seq))'
                    /\ (At(inbox[i].seq))'.key = inbox'[i].key
                    /\ (At(inbox[i].seq))'.digest = inbox'[i].digest
    <2>1. i + 1 \in 1..Len(inbox) /\ ChangeAt(i + 1) /\ inbox'[i] = inbox[i + 1]
      BY <1>2, <1>4
    <2>2. inbox[i + 1].seq < nextSeq
      BY <2>1 DEF IInv, InSequence
    <2>3. /\ inbox[i + 1].key \in opts.keys
          /\ inbox[i + 1].snap # NoSnap =>
                /\ Within(inbox[i + 1].snap)
                /\ inbox[i + 1].snap[inbox[i + 1].key] = inbox[i + 1].digest
      BY <2>1 DEF IInv, InKeys
    <2>4. late = 0 =>
            /\ inbox[i + 1].seq >= elapsed /\ InFlight(inbox[i + 1].seq)
            /\ At(inbox[i + 1].seq).key = inbox[i + 1].key
            /\ At(inbox[i + 1].seq).digest = inbox[i + 1].digest
      BY <2>1 DEF IInv, Prompt
    <2> QED
      BY <1>1, <2>1, <2>2, <2>3, <2>4 DEF Within, InFlight, At, Base
  <1>5. /\ \A i \in 1..Len(inbox') : ~opts.eventSource => ~ChangeAt(i)'
        /\ \A i \in 1..Len(inbox') : opts.eventSource => inbox'[i].type # "bare"
    BY <1>2 DEF IInv, Hosted
  <1>6. baseline = "Known"
    BY DEF IInv, Fresh
  <1> QED
    BY <1>1, <1>3, <1>4, <1>5, <1>6

\* An event the host learns nothing from.
LEMMA EventLeaves ==
    ASSUME IInv, inbox # <<>>, inbox' = Tail(inbox), Bounded',
           UNCHANGED <<opts, store, engine, thread, wakes, view, position, late, restarts>>
    PROVE  IInv'
  <1>1. UNCHANGED <<opts, store, engine, pc, changed, stop, wakes, view, position, late, restarts>>
    BY DEF thread
  <1>2. /\ confirmed' = confirmed /\ pending' = pending /\ nextSeq' = nextSeq
        /\ elapsed' = elapsed /\ baseline' = baseline /\ gap' = gap
    BY <1>1 DEF engine
  <1>3. ITyped'
    <2>1. inbox' \in Seq(Changes \cup {Gap, Bare})
      BY <1>1, InboxTail
    <2> QED
      BY <1>1, <1>2, <2>1 DEF IInv, Engine, ITyped
  <1>4. /\ Base' = Base
        /\ \A n : /\ InFlight(n)' <=> InFlight(n)
                  /\ At(n)' = At(n)
        /\ \A i : AckAt(i)' <=> AckAt(i)
        /\ Serial' <=> Serial
    BY <1>1, <1>2 DEF Base, InFlight, At, AckAt, Serial
  <1>5. Engine'
    BY <1>1, <1>2, <1>3, <1>4, SMTT(30) DEF IInv, Engine, Consecutive, InFlightBound, NoRepeatInFlight
  <1>6. InSequence'
    <2>1. \A i \in 1..Len(wakes'), j \in 1..Len(inbox') :
            AckAt(i)' /\ ChangeAt(j)' => wakes'[i].seq < inbox'[j].seq
      BY <1>1, <1>4, InboxTail DEF IInv, InSequence
    <2> QED
      BY <1>1, <1>2, <1>4, <2>1, InboxRest DEF IInv, InSequence
  <1>7. Prompt'
    BY <1>1, <1>2, <1>4, InboxRest DEF IInv, Prompt
  <1>8. InKeys'
    <2>1. Within(store)' /\ Within(confirmed)' /\ Within(view)'
          /\ (position'.snap # NoSnap => Within(position.snap)')
      BY <1>1, <1>2 DEF IInv, InKeys, Within
    <2> QED
      BY <1>1, <1>2, <2>1, InboxRest DEF IInv, InKeys
  <1>9. Fresh' /\ Hosted' /\ Restarting'
    BY <1>1, <1>2, <1>4, InboxRest DEF IInv, Fresh, Hosted, Restarting
  <1>10. Agree'
    <2>1. Told' => Told
      BY <1>1, <1>4 DEF Told
    <2>2. ASSUME NEW k \in Keys, Settled(k) PROVE Settled(k)'
      BY <1>1, <1>2, <1>4, <2>2 DEF Settled
    <2> QED
      BY <1>2, <2>1, <2>2 DEF IInv, Agree
  <1>11. PositionExact'
    BY <1>1, <1>4 DEF IInv, PositionExact
  <1>12. SnapExact'
    <2> SUFFICES ASSUME opts.maxInFlight = 1, late = 0, ~opts.quietRemovals,
                        NEW i \in 1..Len(inbox'), ChangeAt(i)', inbox'[i].snap # NoSnap
                 PROVE  inbox'[i].snap = [view EXCEPT ![inbox'[i].key] = inbox'[i].digest]
      BY <1>1 DEF SnapExact
    <2>1. i + 1 \in 1..Len(inbox) /\ inbox'[i] = inbox[i + 1] /\ ChangeAt(i + 1)
      BY InboxTail
    <2>2. inbox[i + 1].snap = [view EXCEPT ![inbox[i + 1].key] = inbox[i + 1].digest]
      BY <2>1 DEF IInv, SnapExact
    <2> QED
      BY <2>1, <2>2
  <1> QED
    BY <1>3, <1>5, <1>6, <1>7, <1>8, <1>9, <1>10, <1>11, <1>12 DEF IInv

LEMMA DropKeeps ==
    ASSUME IInv, Drop
    PROVE  IInv'
  <1>1. Bounded'
    BY Options DEF Drop, IInv, Engine, ITyped, Bounded
  <1> QED
    BY <1>1, EventLeaves DEF Drop

\* A resource watch's host reads the resource again.
LEMMA BareStored ==
    ASSUME IInv, Store, Head(inbox).type = "bare"
    PROVE  IInv'
  <1>1. /\ inbox # <<>> /\ inbox' = Tail(inbox) /\ view' = store
        /\ UNCHANGED <<opts, store, engine, pc, changed, stop, position, wakes, changes, drops,
                       late, woken, restarts>>
    BY DEF Store, thread, bounds
  <1>2. /\ confirmed' = confirmed /\ pending' = pending /\ nextSeq' = nextSeq
        /\ elapsed' = elapsed /\ baseline' = baseline /\ gap' = gap
    BY <1>1 DEF engine
  <1>3. ~opts.eventSource /\ position = NoPosition /\ pending = <<>>
        /\ (\A i \in 1..Len(inbox) : ~ChangeAt(i)) /\ (\A i \in 1..Len(wakes) : ~AckAt(i))
    <2>1. 1 \in 1..Len(inbox) /\ Head(inbox) = inbox[1]
      BY <1>1, InboxTail
    <2> QED
      BY <2>1 DEF IInv, Hosted
  <1>4. \A i \in 1..Len(inbox') : ~ChangeAt(i)'
    BY <1>1, <1>3, InboxTail
  <1>5. \A i \in 1..Len(wakes') : ~AckAt(i)'
    BY <1>1, <1>3 DEF AckAt
  <1>6. ITyped' /\ Bounded'
    <2>1. inbox' \in Seq(Changes \cup {Gap, Bare})
      BY <1>1, InboxTail
    <2> QED
      BY <1>1, <1>2, <2>1 DEF IInv, Engine, ITyped, Bounded
  <1>7. Engine'
    <2>1. Len(pending) = 0 /\ nextSeq \in Nat /\ opts.maxInFlight \in Nat
      BY <1>3, Options DEF IInv, Engine, ITyped
    <2>2. Len(pending') = 0 /\ nextSeq' \in Nat /\ opts'.maxInFlight \in Nat
      BY <1>1, <1>2, <2>1
    <2> QED
      BY <1>6, <2>2 DEF Engine, Consecutive, InFlightBound, NoRepeatInFlight
  <1>8. InSequence' /\ Prompt'
    BY <1>4, <1>5 DEF InSequence, Prompt
  <1>9. InKeys'
    BY <1>1, <1>2, <1>4 DEF IInv, InKeys, Within
  <1>10. baseline = "Known"
    BY <1>1 DEF IInv, Fresh
  <1>11. Fresh' /\ Hosted' /\ Restarting'
    BY <1>1, <1>2, <1>3, <1>4, <1>5, <1>10 DEF IInv, Fresh, Hosted, Restarting
  <1>12. Agree' /\ SnapExact' /\ PositionExact'
    <2>1. position'.snap = NoSnap
      BY <1>1, <1>3 DEF NoPosition
    <2> QED
      BY <1>1, <1>3, <1>4, <2>1 DEF Agree, Told, SnapExact, PositionExact
  <1> QED
    BY <1>6, <1>7, <1>8, <1>9, <1>11, <1>12 DEF IInv

\* A change is stored with its position and acknowledged.
LEMMA ChangeStored ==
    ASSUME IInv, Store, Head(inbox).type = "change"
    PROVE  IInv'
  <1>1. PICK e : e = Head(inbox)
    OBVIOUS
  <1>2. /\ inbox # <<>> /\ inbox' = Tail(inbox) /\ view' = [view EXCEPT ![e.key] = e.digest]
        /\ position' = [known |-> TRUE, snap |-> e.snap]
        /\ wakes' = Append(wakes, Ack(e.seq))
        /\ UNCHANGED <<opts, store, engine, pc, changed, stop, changes, drops, late, woken,
                       restarts>>
    BY <1>1 DEF Store, thread, bounds
  <1>3. /\ confirmed' = confirmed /\ pending' = pending /\ nextSeq' = nextSeq
        /\ elapsed' = elapsed /\ baseline' = baseline /\ gap' = gap
    BY <1>2 DEF engine
  <1>4. 1 \in 1..Len(inbox) /\ e = inbox[1] /\ ChangeAt(1) /\ Len(inbox) \in Nat
    BY <1>1, <1>2, InboxTail DEF ChangeAt
  <1>5. e \in Changes /\ e.type = "change"
    <2>1. e \in Changes \cup {Gap, Bare} /\ e.type = "change"
      BY <1>4 DEF IInv, Engine, ITyped, ChangeAt
    <2>2. Gap.type = "gap" /\ Bare.type = "bare"
      BY DEF Gap, Bare
    <2> QED
      BY <2>1, <2>2
  <1>6. /\ e.key \in Keys /\ e.digest \in Digests \cup {Absent} /\ e.seq \in Nat
        /\ e.snap \in Listings \cup {NoSnap} /\ e.seq < nextSeq /\ e.key \in opts.keys
        /\ e.snap # NoSnap => Within(e.snap) /\ e.snap[e.key] = e.digest
        /\ opts.eventSource
        /\ late = 0 => /\ e.seq >= elapsed /\ InFlight(e.seq)
                       /\ At(e.seq).key = e.key /\ At(e.seq).digest = e.digest
    <2>1. /\ e.key \in Keys /\ e.digest \in Digests \cup {Absent} /\ e.seq \in Nat
          /\ e.snap \in Listings \cup {NoSnap}
      BY <1>5 DEF Changes
    <2>2. e.seq < nextSeq
      BY <1>4 DEF IInv, InSequence
    <2>3. e.key \in opts.keys /\ (e.snap # NoSnap => Within(e.snap) /\ e.snap[e.key] = e.digest)
      BY <1>4 DEF IInv, InKeys
    <2>4. opts.eventSource
      BY <1>4 DEF IInv, Hosted
    <2>5. late = 0 => /\ e.seq >= elapsed /\ InFlight(e.seq)
                      /\ At(e.seq).key = e.key /\ At(e.seq).digest = e.digest
      BY <1>4 DEF IInv, Prompt
    <2> QED
      BY <2>1, <2>2, <2>3, <2>4, <2>5
  <1>7. /\ wakes \in Seq(Wakes) /\ Len(wakes) \in Nat /\ wakes' \in Seq(Wakes)
        /\ Len(wakes') = Len(wakes) + 1
        /\ \A i \in 1..Len(wakes) : wakes'[i] = wakes[i]
        /\ wakes'[Len(wakes) + 1].type = "ack" /\ wakes'[Len(wakes) + 1].seq = e.seq
    <2>1. wakes \in Seq(Wakes) /\ Ack(e.seq) \in Wakes
      BY <1>6 DEF IInv, Engine, ITyped, Ack, Wakes
    <2>2. Ack(e.seq).type = "ack" /\ Ack(e.seq).seq = e.seq
      BY DEF Ack
    <2> QED
      BY <1>2, <2>1, <2>2
  <1>8. \A i \in 1..Len(wakes') :
            \/ i \in 1..Len(wakes) /\ wakes'[i] = wakes[i] /\ (AckAt(i)' <=> AckAt(i))
            \/ i = Len(wakes) + 1
    BY <1>7 DEF AckAt
  <1>9. /\ Base' = Base
        /\ \A n : /\ InFlight(n)' <=> InFlight(n)
                  /\ At(n)' = At(n)
        /\ Serial' <=> Serial
    BY <1>2, <1>3 DEF Base, InFlight, At, Serial
  <1>10. view \in Listings /\ view' \in Listings /\ position' \in Positions
         /\ \A k \in Keys : view'[k] = IF k = e.key THEN e.digest ELSE view[k]
    BY <1>2, <1>6 DEF IInv, Engine, ITyped, Listings, Positions
  <1>11. ITyped' /\ Bounded'
    <2>1. inbox' \in Seq(Changes \cup {Gap, Bare})
      BY <1>2, InboxTail
    <2> QED
      BY <1>2, <1>3, <1>7, <1>10, <2>1 DEF IInv, Engine, ITyped, Bounded
  <1>12. Engine'
    BY <1>2, <1>3, <1>11 DEF IInv, Engine, Consecutive, InFlightBound, NoRepeatInFlight, Base
  <1>13. \A j \in 1..Len(inbox') : /\ j + 1 \in 1..Len(inbox) /\ 1 < j + 1
                                   /\ inbox'[j] = inbox[j + 1]
                                   /\ ChangeAt(j)' <=> ChangeAt(j + 1)
    BY <1>2, <1>4, InboxTail
  <1>14. \A j \in 1..Len(inbox') : ChangeAt(j)' => e.seq < inbox'[j].seq
    BY <1>4, <1>13 DEF IInv, InSequence
  <1>15. InSequence'
    <2>1. ASSUME NEW i \in 1..Len(wakes'), AckAt(i)'
          PROVE  /\ wakes'[i].seq \in 0..nextSeq' - 1
                 /\ i <= Len(wakes) => wakes'[i].seq < e.seq
                 /\ i <= Len(wakes) => i \in 1..Len(wakes) /\ AckAt(i) /\ wakes'[i] = wakes[i]
      <3>1. CASE i \in 1..Len(wakes) /\ wakes'[i] = wakes[i] /\ AckAt(i)
        BY <1>3, <1>4, <3>1 DEF IInv, InSequence
      <3>2. CASE i = Len(wakes) + 1
        BY <1>3, <1>6, <1>7, <3>2 DEF IInv, Engine, ITyped
      <3> QED
        BY <1>8, <2>1, <3>1, <3>2
    <2>2. \A i, j \in 1..Len(wakes') : i < j /\ AckAt(i)' /\ AckAt(j)' => wakes'[i].seq < wakes'[j].seq
      <3> SUFFICES ASSUME NEW i \in 1..Len(wakes'), NEW j \in 1..Len(wakes'), i < j,
                          AckAt(i)', AckAt(j)'
                   PROVE  wakes'[i].seq < wakes'[j].seq
        OBVIOUS
      <3>1. i <= Len(wakes) /\ i \in 1..Len(wakes) /\ AckAt(i) /\ wakes'[i] = wakes[i]
        BY <1>7, <2>1
      <3>2. CASE j <= Len(wakes)
        BY <2>1, <3>1, <3>2 DEF IInv, InSequence
      <3>3. CASE j = Len(wakes) + 1
        BY <1>7, <2>1, <3>1, <3>3
      <3> QED
        BY <1>7, <3>2, <3>3
    <2>3. \A i \in 1..Len(wakes'), j \in 1..Len(inbox') :
            AckAt(i)' /\ ChangeAt(j)' => wakes'[i].seq < inbox'[j].seq
      <3> SUFFICES ASSUME NEW i \in 1..Len(wakes'), NEW j \in 1..Len(inbox'),
                          AckAt(i)', ChangeAt(j)'
                   PROVE  wakes'[i].seq < inbox'[j].seq
        OBVIOUS
      <3>1. CASE i <= Len(wakes)
        BY <1>13, <2>1, <3>1 DEF IInv, InSequence
      <3>2. CASE i = Len(wakes) + 1
        BY <1>7, <1>14, <3>2
      <3> QED
        BY <1>7, <3>1, <3>2
    <2> QED
      BY <1>2, <2>1, <2>2, <2>3, InboxRest DEF InSequence
  <1>16. Prompt'
    <2> SUFFICES ASSUME late' = 0 PROVE Prompt'
      BY DEF Prompt
    <2>1. ASSUME NEW i \in 1..Len(wakes'), AckAt(i)'
          PROVE  wakes'[i].seq >= elapsed' /\ InFlight(wakes[i].seq)'
      <3>1. CASE i \in 1..Len(wakes) /\ wakes'[i] = wakes[i] /\ AckAt(i)
        BY <1>2, <1>3, <1>9, <3>1 DEF IInv, Prompt
      <3>2. CASE i = Len(wakes) + 1
        BY <1>2, <1>3, <1>6, <1>7, <1>9, <3>2
      <3> QED
        BY <1>8, <2>1, <3>1, <3>2
    <2> QED
      BY <1>2, <2>1, InboxRest DEF Prompt
  <1>17. InKeys'
    <2>1. Within(store)' /\ Within(confirmed)'
      BY <1>2, <1>3 DEF IInv, InKeys, Within
    <2>2. Within(view)'
      BY <1>2, <1>6, <1>10 DEF IInv, InKeys, Within
    <2>3. position'.snap # NoSnap => Within(position.snap)'
      BY <1>2, <1>6 DEF Within
    <2> QED
      BY <1>2, <1>3, <2>1, <2>2, <2>3, InboxRest DEF IInv, InKeys
  <1>18. Fresh' /\ Hosted' /\ Restarting'
    <2>1. baseline = "Known" /\ ~gap
      BY <1>2 DEF IInv, Fresh
    <2>2. Hosted'
      BY <1>2, <1>6, InboxRest DEF Hosted
    <2>3. Restarting'
      BY <1>2, <1>7, <1>8 DEF IInv, Restarting
    <2> QED
      BY <1>3, <2>1, <2>2, <2>3 DEF Fresh
  <1>19. Agree'
    <2> SUFFICES ASSUME Told', baseline' # "Silent", NEW k \in Keys PROVE Settled(k)'
      BY DEF Agree
    <2>1. Told /\ late = 0 /\ Settled(k)
      BY <1>2, <1>3, <1>9 DEF Told, IInv, Agree
    <2>2. CASE k = e.key
      <3>1. PICK n \in Nat : n = Len(wakes')
        BY <1>7
      <3>2. n \in 1..Len(wakes') /\ AckAt(n)' /\ wakes'[n].seq = e.seq
        BY <1>7, <3>1 DEF AckAt
      <3>3. At(wakes[n].seq)' = At(e.seq)
        BY <1>3, <3>2 DEF At, Base
      <3>4. \A j \in 1..Len(wakes') : ~(n < j)
        BY <3>1
      <3>5. At(wakes[n].seq)'.key = k /\ At(wakes[n].seq)'.digest = view'[k]
        BY <1>6, <1>10, <2>1, <2>2, <3>3
      <3> QED
        BY <3>2, <3>4, <3>5 DEF Settled
    <2>3. CASE k # e.key
      <3>1. view'[k] = view[k] /\ confirmed'[k] = confirmed[k]
        BY <1>3, <1>10, <2>3
      <3>2. \A i \in 1..Len(wakes') : AckAt(i)' =>
                \/ /\ i \in 1..Len(wakes) /\ AckAt(i)
                   /\ At(wakes[i].seq)' = At(wakes[i].seq)
                \/ i = Len(wakes) + 1 /\ (At(wakes[i].seq)').key # k
        BY <1>3, <1>6, <1>7, <1>8, <2>1, <2>3 DEF At, Base
      <3>3. \A i \in 1..Len(wakes) : /\ i \in 1..Len(wakes')
                                     /\ AckAt(i)' <=> AckAt(i)
                                     /\ At(wakes[i].seq)' = At(wakes[i].seq)
        BY <1>3, <1>7 DEF AckAt, At, Base
      <3> QED
        BY <2>1, <3>1, <3>2, <3>3 DEF Settled
    <2> QED
      BY <2>2, <2>3
  <1>20. SnapExact'
    <2> SUFFICES ASSUME opts'.maxInFlight = 1, late' = 0, NEW j \in 1..Len(inbox'), ChangeAt(j)'
                 PROVE  FALSE
      BY DEF SnapExact
    <2>1. /\ InFlight(e.seq) /\ InFlight(inbox[j + 1].seq) /\ e.seq < inbox[j + 1].seq
      BY <1>2, <1>6, <1>13, <1>14 DEF IInv, Prompt
    <2>2. Len(pending) \in Nat /\ Len(pending) <= 1 /\ nextSeq \in Nat /\ e.seq \in Nat
      BY <1>2, <1>6 DEF IInv, Engine, ITyped, InFlightBound
    <2>3. inbox[j + 1] \in Changes
      <3>1. inbox[j + 1] \in Changes \cup {Gap, Bare} /\ inbox[j + 1].type = "change"
        BY <1>13 DEF IInv, Engine, ITyped, ChangeAt
      <3>2. Gap.type = "gap" /\ Bare.type = "bare"
        BY DEF Gap, Bare
      <3> QED
        BY <3>1, <3>2
    <2>4. inbox[j + 1].seq \in Nat
      BY <2>3 DEF Changes
    <2> QED
      BY <2>1, <2>2, <2>4 DEF InFlight, Base
  <1>21. PositionExact'
    <2> SUFFICES ASSUME Serial, e.snap # NoSnap PROVE e.snap = view'
      BY <1>2, <1>9 DEF PositionExact
    <2>1. CASE Cardinality(opts.keys) = 1
      <3>1. opts.keys \subseteq Keys /\ IsFiniteSet(opts.keys)
        <4>1. opts.keys \subseteq Keys
          BY Options DEF IInv, Engine, ITyped
        <4> QED
          BY <4>1, InventoryAssumption, FS_Subset
      <3>2. \E x : opts.keys = {x}
        BY <2>1, <3>1, FS_Singleton
      <3>3. opts.keys = {e.key}
        BY <1>6, <3>2
      <3>4. \A k \in Keys : e.snap[k] = view'[k]
        BY <1>6, <1>10, <3>3 DEF IInv, InKeys, Within
      <3> QED
        BY <1>6, <1>10, <3>4 DEF Listings
    <2>2. CASE opts.maxInFlight = 1 /\ late = 0 /\ ~opts.quietRemovals
      BY <1>2, <1>4, <2>2 DEF IInv, SnapExact
    <2> QED
      BY <2>1, <2>2 DEF Serial
  <1> QED
    BY <1>11, <1>12, <1>15, <1>16, <1>17, <1>18, <1>19, <1>20, <1>21 DEF IInv

LEMMA StoreKeeps ==
    ASSUME IInv, Store
    PROVE  IInv'
  <1>1. CASE Head(inbox).type = "gap"
    <2>1. /\ inbox # <<>> /\ inbox' = Tail(inbox)
          /\ UNCHANGED <<opts, store, engine, thread, wakes, view, position, bounds>>
      BY <1>1 DEF Store
    <2>2. Bounded' /\ late' = late /\ restarts' = restarts
      BY <2>1 DEF IInv, Bounded, bounds
    <2> QED
      BY <2>1, <2>2, EventLeaves
  <1> QED
    BY <1>1, BareStored, ChangeStored DEF Store

\* A message leaves the channel.
LEMMA WakesTail ==
    ASSUME IInv, wakes # <<>>, wakes' = Tail(wakes)
    PROVE  /\ Len(wakes) \in Nat /\ 1 \in 1..Len(wakes) /\ Head(wakes) = wakes[1]
           /\ wakes' \in Seq(Wakes) /\ Len(wakes') = Len(wakes) - 1
           /\ \A i \in 1..Len(wakes') : i + 1 \in 1..Len(wakes) /\ 1 < i + 1
                                        /\ wakes'[i] = wakes[i + 1]
           /\ \A i \in 1..Len(wakes') : AckAt(i)' <=> AckAt(i + 1)
  <1>1. wakes \in Seq(Wakes)
    BY DEF IInv, Engine, ITyped
  <1>2. /\ Len(wakes) \in Nat /\ 1 \in 1..Len(wakes) /\ Head(wakes) = wakes[1]
        /\ wakes' \in Seq(Wakes) /\ Len(wakes') = Len(wakes) - 1
        /\ \A i \in 1..Len(wakes') : i + 1 \in 1..Len(wakes) /\ 1 < i + 1
                                     /\ wakes'[i] = wakes[i + 1]
    BY <1>1
  <1> QED
    BY <1>2 DEF AckAt

\* A message that is no acknowledgement, or one that came too late.
LEMMA WakeLeaves ==
    ASSUME IInv, wakes # <<>>, wakes' = Tail(wakes), ITyped', Restarting',
           UNCHANGED <<opts, store, engine, host, bounds>>,
           Head(wakes).type # "ack" \/ late # 0
    PROVE  IInv'
  <1>1. /\ confirmed' = confirmed /\ pending' = pending /\ nextSeq' = nextSeq
        /\ elapsed' = elapsed /\ baseline' = baseline /\ gap' = gap
        /\ inbox' = inbox /\ view' = view /\ position' = position /\ opts' = opts
        /\ store' = store /\ late' = late /\ restarts' = restarts
    BY DEF engine, host, bounds
  <1>2. Bounded'
    BY DEF IInv, Bounded, bounds
  <1>3. /\ Base' = Base
        /\ \A n : /\ InFlight(n)' <=> InFlight(n)
                  /\ At(n)' = At(n)
        /\ \A i : ChangeAt(i)' <=> ChangeAt(i)
        /\ Serial' <=> Serial
    BY <1>1 DEF Base, InFlight, At, ChangeAt, Serial
  <1>4. \A i \in 1..Len(wakes') : /\ i + 1 \in 1..Len(wakes) /\ wakes'[i] = wakes[i + 1]
                                  /\ AckAt(i)' <=> AckAt(i + 1)
    BY WakesTail
  <1>5. Engine'
    BY <1>1, <1>3 DEF IInv, Engine, Consecutive, InFlightBound, NoRepeatInFlight
  <1>6. InSequence'
    <2>1. /\ \A i \in 1..Len(wakes') : AckAt(i)' => wakes'[i].seq \in 0..nextSeq' - 1
          /\ \A i, j \in 1..Len(wakes') :
                i < j /\ AckAt(i)' /\ AckAt(j)' => wakes'[i].seq < wakes'[j].seq
      BY <1>1, <1>4 DEF IInv, InSequence
    <2>2. \A i \in 1..Len(wakes'), j \in 1..Len(inbox') :
            AckAt(i)' /\ ChangeAt(j)' => wakes'[i].seq < inbox'[j].seq
      BY <1>1, <1>3, <1>4 DEF IInv, InSequence
    <2> QED
      BY <1>1, <1>3, <2>1, <2>2 DEF IInv, InSequence
  <1>7. Prompt'
    BY <1>1, <1>3, <1>4 DEF IInv, Prompt
  <1>8. InKeys'
    BY <1>1, <1>3 DEF IInv, InKeys, Within
  <1>9. Fresh' /\ Hosted'
    BY <1>1, <1>3, <1>4 DEF IInv, Fresh, Hosted
  <1>10. SnapExact' /\ PositionExact'
    BY <1>1, <1>3 DEF IInv, SnapExact, PositionExact
  <1>11. Agree'
    <2> SUFFICES ASSUME Told', baseline' # "Silent", NEW k \in Keys PROVE Settled(k)'
      BY DEF Agree
    <2>1. Told /\ late = 0 /\ Settled(k)
      BY <1>1, <1>3 DEF Told, IInv, Agree
    <2>2. ~AckAt(1)
      BY <2>1, WakesTail DEF AckAt
    <2>3. CASE confirmed[k] = view[k] /\ \A i \in 1..Len(wakes) : AckAt(i) => At(wakes[i].seq).key # k
      BY <1>1, <1>3, <1>4, <2>3 DEF Settled
    <2>4. CASE \E i \in 1..Len(wakes) :
                /\ AckAt(i) /\ At(wakes[i].seq).key = k /\ At(wakes[i].seq).digest = view[k]
                /\ \A j \in 1..Len(wakes) : i < j /\ AckAt(j) => At(wakes[j].seq).key # k
      <3>1. PICK i \in 1..Len(wakes) :
                /\ AckAt(i) /\ At(wakes[i].seq).key = k /\ At(wakes[i].seq).digest = view[k]
                /\ \A j \in 1..Len(wakes) : i < j /\ AckAt(j) => At(wakes[j].seq).key # k
        BY <2>4
      <3>2. PICK n \in 1..Len(wakes') : i = n + 1
        <4>1. i # 1 /\ i - 1 \in 1..Len(wakes') /\ i = (i - 1) + 1
          BY <2>2, <3>1, WakesTail
        <4> QED
          BY <4>1
      <3>3. AckAt(n)' /\ At(wakes[n].seq)'.key = k /\ At(wakes[n].seq)'.digest = view'[k]
        BY <1>1, <1>3, <1>4, <3>1, <3>2
      <3>4. \A j \in 1..Len(wakes') : n < j /\ AckAt(j)' => At(wakes[j].seq)'.key # k
        BY <1>3, <1>4, <3>1, <3>2, SMTT(30)
      <3> QED
        BY <3>3, <3>4 DEF Settled
    <2> QED
      BY <2>1, <2>3, <2>4 DEF Settled
  <1> QED
    BY <1>2, <1>5, <1>6, <1>7, <1>8, <1>9, <1>10, <1>11 DEF IInv

\* What an acknowledgement of a pending change leaves of the window.
LEMMA AckedWindow ==
    ASSUME Engine, NEW x \in 1..Len(pending)
    PROVE  LET a == Acknowledged(confirmed, pending, pending[x].seq) IN
           /\ a.confirmed = [confirmed EXCEPT ![pending[x].key] = pending[x].digest]
           /\ a.pending \in Seq(Numbered) /\ Len(a.pending) = Len(pending) - x
           /\ \A i \in 1..Len(pending) - x : a.pending[i] = pending[i + x]
  <1> DEFINE seq == pending[x].seq
  <1> DEFINE at == {i \in 1..Len(pending) : pending[i].seq = seq}
  <1>1. /\ pending \in Seq(Numbered) /\ nextSeq \in Nat /\ Len(pending) \in Nat /\ Base \in Nat
        /\ \A i \in 1..Len(pending) : pending[i].seq = Base + i - 1
    BY DEF Engine, ITyped, Consecutive, Base
  <1>2. seq = Base + x - 1 /\ seq \in Nat /\ seq + 1 \in Nat
    BY <1>1
  <1>3. at = {x}
    BY <1>1, <1>2
  <1>4. at # {} /\ (CHOOSE i \in at : TRUE) = x
    BY <1>3
  <1> HIDE DEF at
  <1>5. Acknowledged(confirmed, pending, seq) =
            [confirmed |-> [confirmed EXCEPT ![pending[x].key] = pending[x].digest],
             pending |-> From(pending, seq + 1)]
    BY <1>4 DEF Acknowledged, at
  <1>6. PICK m \in 0..Len(pending) :
            /\ From(pending, seq + 1) \in Seq(Numbered)
            /\ Len(From(pending, seq + 1)) = Len(pending) - m
            /\ \A i \in 1..Len(pending) - m : From(pending, seq + 1)[i] = pending[i + m]
            /\ \A i \in 1..Len(pending) : i <= m <=> pending[i].seq < seq + 1
    BY <1>1, <1>2, FromSuffix
  <1>7. \A i \in 1..Len(pending) : i <= m <=> i <= x
    BY <1>1, <1>2, <1>6
  <1>8. m = x
    <2>1. x <= m
      BY <1>7
    <2>2. m \in 1..Len(pending)
      BY <1>1, <2>1
    <2> QED
      BY <1>7, <2>1, <2>2
  <1> QED
    BY <1>5, <1>6, <1>8

\* The acknowledgement of a pending change is read.
LEMMA AckRead ==
    ASSUME IInv, wakes # <<>>, wakes' = Tail(wakes), Head(wakes).type = "ack",
           NEW x \in 1..Len(pending), pending[x].seq = Head(wakes).seq,
           confirmed' = Acknowledged(confirmed, pending, Head(wakes).seq).confirmed,
           pending' = Acknowledged(confirmed, pending, Head(wakes).seq).pending,
           UNCHANGED <<opts, store, nextSeq, elapsed, baseline, gap, stop, host, bounds>>,
           pc' \in {"drain", "stopped"}, changed' \in BOOLEAN, Restarting'
    PROVE  IInv'
  <1>1. /\ inbox' = inbox /\ view' = view /\ position' = position /\ opts' = opts
        /\ store' = store /\ late' = late /\ restarts' = restarts
        /\ nextSeq' = nextSeq /\ elapsed' = elapsed /\ baseline' = baseline
        /\ gap' = gap /\ stop' = stop
    BY DEF host, bounds
  <1>2. PICK p \in Numbered : p = pending[x]
    BY DEF IInv, Engine, ITyped
  <1>3. /\ p.seq \in Nat /\ p.key \in Keys /\ p.digest \in Digests \cup {Absent}
        /\ p.key \in opts.keys
    BY <1>2 DEF Numbered, IInv, InKeys
  <1>4. /\ confirmed' = [confirmed EXCEPT ![p.key] = p.digest]
        /\ pending' \in Seq(Numbered) /\ Len(pending') = Len(pending) - x
        /\ \A i \in 1..Len(pending) - x : pending'[i] = pending[i + x]
    BY <1>2, AckedWindow DEF IInv
  <1>5. /\ nextSeq \in Nat /\ Len(pending) \in Nat /\ Len(pending) <= nextSeq
        /\ p.seq = Base + x - 1 /\ Base' = Base + x /\ Base = nextSeq - Len(pending)
        /\ Base \in Nat
    <2>1. nextSeq \in Nat /\ Len(pending) \in Nat /\ Len(pending) <= nextSeq
      BY DEF IInv, Engine, ITyped, Consecutive
    <2>2. Base = nextSeq - Len(pending) /\ Base \in Nat
      BY <2>1 DEF Base
    <2>3. Base' = nextSeq' - Len(pending')
      BY DEF Base
    <2>4. p.seq = Base + x - 1
      BY <1>2 DEF IInv, Engine, Consecutive
    <2> QED
      BY <1>1, <1>4, <2>1, <2>2, <2>3, <2>4
  <1>6. /\ confirmed \in Listings /\ confirmed' \in Listings
        /\ \A k \in Keys : confirmed'[k] = IF k = p.key THEN p.digest ELSE confirmed[k]
    BY <1>3, <1>4 DEF IInv, Engine, ITyped, Listings
  <1>7. /\ 1 \in 1..Len(wakes) /\ Head(wakes) = wakes[1] /\ AckAt(1) /\ wakes[1].seq = p.seq
        /\ wakes' \in Seq(Wakes) /\ Len(wakes) \in Nat /\ Len(wakes') = Len(wakes) - 1
    BY <1>2, WakesTail DEF AckAt
  <1>8. \A i \in 1..Len(wakes') : /\ i + 1 \in 1..Len(wakes) /\ wakes'[i] = wakes[i + 1]
                                  /\ AckAt(i)' <=> AckAt(i + 1)
                                  /\ AckAt(i)' => p.seq < wakes'[i].seq /\ wakes'[i].seq \in Nat
    <2>1. \A i \in 1..Len(wakes') : /\ i + 1 \in 1..Len(wakes) /\ wakes'[i] = wakes[i + 1]
                                    /\ AckAt(i)' <=> AckAt(i + 1) /\ 1 < i + 1
      BY WakesTail
    <2>2. \A j \in 1..Len(wakes) : 1 < j /\ AckAt(j) => p.seq < wakes[j].seq /\ wakes[j].seq \in Nat
      BY <1>5, <1>7 DEF IInv, InSequence
    <2> QED
      BY <2>1, <2>2
  <1>9. \A i \in 1..Len(inbox) : ChangeAt(i) => p.seq < inbox[i].seq /\ inbox[i].seq \in Nat
    <2>1. ASSUME NEW i \in 1..Len(inbox), ChangeAt(i) PROVE inbox[i].seq \in Nat
      <3>1. inbox[i] \in Changes \cup {Gap, Bare} /\ inbox[i].type = "change"
        BY <2>1 DEF IInv, Engine, ITyped, ChangeAt
      <3>2. Gap.type = "gap" /\ Bare.type = "bare"
        BY DEF Gap, Bare
      <3> QED
        BY <3>1, <3>2 DEF Changes
    <2> QED
      BY <1>7, <2>1 DEF IInv, InSequence
  <1>10. \A i : ChangeAt(i)' <=> ChangeAt(i)
    BY <1>1 DEF ChangeAt
  <1>11. \A n \in Nat : n > p.seq /\ InFlight(n) => InFlight(n)' /\ At(n)' = At(n)
    <2> SUFFICES ASSUME NEW n \in Nat, n > p.seq, InFlight(n)
                 PROVE  InFlight(n)' /\ At(n)' = At(n)
      OBVIOUS
    <2>1. InFlight(n)'
      BY <1>1, <1>5 DEF InFlight
    <2>2. /\ n - Base' + 1 \in 1..Len(pending) - x
          /\ (n - Base' + 1) + x = n - Base + 1
      <3>1. n < nextSeq
        BY DEF InFlight
      <3> QED
        BY <1>5, <3>1
    <2>3. pending'[n - Base' + 1] = pending[n - Base + 1]
      BY <1>4, <2>2
    <2> QED
      BY <2>1, <2>3 DEF At
  <1>12. ITyped' /\ Bounded'
    <2>1. Bounded'
      BY DEF IInv, Bounded, bounds
    <2>2. pc' \in {"top", "list", "wait", "drain", "stopped"}
      OBVIOUS
    <2> QED
      BY <1>1, <1>4, <1>6, <1>7, <2>1, <2>2 DEF IInv, Engine, ITyped
  <1>13. Engine'
    <2>1. x \in 0..Len(pending) /\ Len(pending') \in Nat
      BY <1>4, <1>5
    <2>2. \A i \in 1..Len(pending') : pending'[i] = pending[i + x]
      BY <1>4
    <2>3. Consecutive' /\ InFlightBound' /\ NoRepeatInFlight'
      BY <1>1, <1>4, <2>1, <2>2, SuffixWindow DEF IInv
    <2> QED
      BY <1>12, <2>3 DEF Engine
  <1>14. InSequence'
    <2>1. /\ \A i \in 1..Len(wakes') : AckAt(i)' => wakes'[i].seq \in 0..nextSeq' - 1
          /\ \A i, j \in 1..Len(wakes') :
                i < j /\ AckAt(i)' /\ AckAt(j)' => wakes'[i].seq < wakes'[j].seq
      BY <1>1, <1>8 DEF IInv, InSequence
    <2>2. \A i \in 1..Len(wakes'), j \in 1..Len(inbox') :
            AckAt(i)' /\ ChangeAt(j)' => wakes'[i].seq < inbox'[j].seq
      BY <1>1, <1>8, <1>10 DEF IInv, InSequence
    <2> QED
      BY <1>1, <1>10, <2>1, <2>2 DEF IInv, InSequence
  <1>15. Prompt'
    <2> SUFFICES ASSUME late = 0 PROVE Prompt'
      BY <1>1 DEF Prompt
    <2>1. ASSUME NEW i \in 1..Len(wakes'), AckAt(i)'
          PROVE  wakes'[i].seq >= elapsed' /\ InFlight(wakes[i].seq)'
      <3>1. wakes[i + 1].seq >= elapsed /\ InFlight(wakes[i + 1].seq)
        BY <1>8, <2>1 DEF IInv, Prompt
      <3> QED
        BY <1>1, <1>8, <1>11, <2>1, <3>1
    <2>2. ASSUME NEW i \in 1..Len(inbox), ChangeAt(i)
          PROVE  /\ inbox[i].seq >= elapsed /\ InFlight(inbox[i].seq)'
                 /\ At(inbox[i].seq)'.key = inbox[i].key
                 /\ At(inbox[i].seq)'.digest = inbox[i].digest
      <3>1. /\ inbox[i].seq >= elapsed /\ InFlight(inbox[i].seq)
            /\ At(inbox[i].seq).key = inbox[i].key
            /\ At(inbox[i].seq).digest = inbox[i].digest
        BY <2>2 DEF IInv, Prompt
      <3> QED
        BY <1>1, <1>9, <1>11, <2>2, <3>1
    <2> QED
      BY <1>1, <1>10, <2>1, <2>2 DEF Prompt
  <1>16. InKeys'
    <2>1. Within(store)' /\ Within(view)'
          /\ (position'.snap # NoSnap => Within(position.snap)')
      BY <1>1 DEF IInv, InKeys, Within
    <2>2. Within(confirmed)'
      BY <1>1, <1>3, <1>6 DEF IInv, InKeys, Within
    <2>3. \A i \in 1..Len(pending') : pending'[i].key \in opts'.keys
      <3>1. \A i \in 1..Len(pending') : i \in 1..Len(pending) - x /\ i + x \in 1..Len(pending)
        BY <1>4, <1>5, SMTT(30)
      <3> QED
        BY <1>1, <1>4, <3>1 DEF IInv, InKeys
    <2>4. \A i \in 1..Len(inbox') :
            ChangeAt(i)' => /\ inbox'[i].key \in opts'.keys
                            /\ inbox'[i].snap # NoSnap =>
                                /\ Within(inbox[i].snap)'
                                /\ inbox'[i].snap[inbox'[i].key] = inbox'[i].digest
      BY <1>1, <1>10 DEF IInv, InKeys, Within
    <2> QED
      BY <2>1, <2>2, <2>3, <2>4 DEF InKeys
  <1>17. Fresh' /\ Hosted'
    <2>1. baseline = "Known" /\ ~gap /\ opts.eventSource
      BY <1>7 DEF IInv, Fresh, Hosted
    <2> QED
      BY <1>1, <1>10, <2>1 DEF IInv, Fresh, Hosted
  <1>18. SnapExact' /\ PositionExact'
    <2>1. Serial' <=> Serial
      BY <1>1 DEF Serial
    <2> QED
      BY <1>1, <1>10, <2>1 DEF IInv, SnapExact, PositionExact
  <1>19. Agree'
    <2> SUFFICES ASSUME Told', baseline' # "Silent", NEW k \in Keys PROVE Settled(k)'
      BY DEF Agree
    <2>1. Told /\ late = 0 /\ Settled(k)
      BY <1>1 DEF Told, Serial, IInv, Agree
    <2>2. \A i \in 1..Len(wakes') :
            AckAt(i)' => At(wakes[i].seq)' = At(wakes[i + 1].seq)
      <3>1. \A i \in 1..Len(wakes') : AckAt(i)' => InFlight(wakes[i + 1].seq)
        BY <1>8, <2>1 DEF IInv, Prompt
      <3> QED
        BY <1>8, <1>11, <3>1
    <2>3. At(wakes[1].seq) = p
      <3>1. wakes[1].seq - Base + 1 = x
        BY <1>5, <1>7, SMTT(30)
      <3> QED
        BY <1>2, <3>1 DEF At
    <2>4. CASE confirmed[k] = view[k] /\ \A i \in 1..Len(wakes) : AckAt(i) => At(wakes[i].seq).key # k
      <3>1. p.key # k
        BY <1>7, <2>3, <2>4
      <3>2. confirmed'[k] = view'[k]
        BY <1>1, <1>6, <2>4, <3>1
      <3>3. \A i \in 1..Len(wakes') : AckAt(i)' => At(wakes[i].seq)'.key # k
        BY <1>8, <2>2, <2>4
      <3> QED
        BY <3>2, <3>3 DEF Settled
    <2>5. CASE \E i \in 1..Len(wakes) :
                /\ AckAt(i) /\ At(wakes[i].seq).key = k /\ At(wakes[i].seq).digest = view[k]
                /\ \A j \in 1..Len(wakes) : i < j /\ AckAt(j) => At(wakes[j].seq).key # k
      <3>1. PICK i \in 1..Len(wakes) :
                /\ AckAt(i) /\ At(wakes[i].seq).key = k /\ At(wakes[i].seq).digest = view[k]
                /\ \A j \in 1..Len(wakes) : i < j /\ AckAt(j) => At(wakes[j].seq).key # k
        BY <2>5
      <3>2. CASE i = 1
        <4>1. confirmed'[k] = view'[k]
          BY <1>1, <1>6, <2>3, <3>1, <3>2
        <4>2. \A j \in 1..Len(wakes') : AckAt(j)' => At(wakes[j].seq)'.key # k
          <5>1. \A j \in 1..Len(wakes') : 1 < j + 1
            OBVIOUS
          <5> QED
            BY <1>8, <2>2, <3>1, <3>2, <5>1
        <4> QED
          BY <4>1, <4>2 DEF Settled
      <3>3. CASE i # 1
        <4>1. PICK n \in 1..Len(wakes') : i = n + 1
          <5>1. i - 1 \in 1..Len(wakes') /\ i = (i - 1) + 1
            BY <1>7, <3>3
          <5> QED
            BY <5>1
        <4>2. AckAt(n)' /\ At(wakes[n].seq)'.key = k /\ At(wakes[n].seq)'.digest = view'[k]
          BY <1>1, <1>8, <2>2, <3>1, <4>1
        <4>3. \A j \in 1..Len(wakes') : n < j /\ AckAt(j)' => At(wakes[j].seq)'.key # k
          BY <1>8, <2>2, <3>1, <4>1, SMTT(30)
        <4> QED
          BY <4>2, <4>3 DEF Settled
      <3> QED
        BY <3>2, <3>3
    <2> QED
      BY <2>1, <2>4, <2>5 DEF Settled
  <1> QED
    BY <1>12, <1>13, <1>14, <1>15, <1>16, <1>17, <1>18, <1>19 DEF IInv

LEMMA RecvKeeps ==
    ASSUME IInv, Recv
    PROVE  IInv'
  <1> DEFINE w == Head(wakes)
  <1>1. /\ wakes # <<>> /\ wakes' = Tail(wakes)
        /\ UNCHANGED <<opts, store, nextSeq, elapsed, baseline, gap, stop, host, bounds>>
        /\ pc' = IF w.type = "stop" THEN "stopped" ELSE "drain"
        /\ changed' = (w.type = "changed" \/ (pc = "drain" /\ changed))
        /\ w.type = "ack" =>
            /\ confirmed' = Acknowledged(confirmed, pending, w.seq).confirmed
            /\ pending' = Acknowledged(confirmed, pending, w.seq).pending
        /\ w.type # "ack" => confirmed' = confirmed /\ pending' = pending
    BY DEF Recv
  <1>2. pc' \in {"drain", "stopped"} /\ changed' \in BOOLEAN
    BY <1>1
  <1>3. Restarting'
    <2>1. /\ Head(wakes) = wakes[1] /\ 1 \in 1..Len(wakes)
          /\ \A i \in 1..Len(wakes') : i + 1 \in 1..Len(wakes) /\ wakes'[i] = wakes[i + 1]
      BY <1>1, WakesTail
    <2>2. pc' = "stopped" => wakes[1].type = "stop"
      BY <1>1, <2>1
    <2>3. stop' = stop /\ restarts' = restarts
      BY <1>1 DEF bounds
    <2> QED
      BY <2>1, <2>2, <2>3 DEF IInv, Restarting
  <1>4. CASE w.type = "ack" /\ \E x \in 1..Len(pending) : pending[x].seq = w.seq
    <2>1. PICK x \in 1..Len(pending) : pending[x].seq = w.seq
      BY <1>4
    <2> QED
      BY <1>1, <1>2, <1>3, <1>4, <2>1, AckRead
  <1>5. CASE ~(w.type = "ack" /\ \E x \in 1..Len(pending) : pending[x].seq = w.seq)
    <2>1. confirmed' = confirmed /\ pending' = pending
      <3>1. CASE w.type = "ack"
        <4>1. Acknowledged(confirmed, pending, w.seq) = [confirmed |-> confirmed, pending |-> pending]
          BY <1>5, <3>1 DEF Acknowledged
        <4> QED
          BY <1>1, <3>1, <4>1
      <3> QED
        BY <1>1, <3>1
    <2>2. UNCHANGED <<opts, store, engine, host, bounds>>
      BY <1>1, <2>1 DEF engine
    <2>3. w.type # "ack" \/ late # 0
      <3> SUFFICES ASSUME w.type = "ack", late = 0 PROVE FALSE
        OBVIOUS
      <3>1. w = wakes[1] /\ 1 \in 1..Len(wakes) /\ AckAt(1)
        BY <1>1, WakesTail DEF AckAt
      <3>2. InFlight(w.seq) /\ w.seq \in Nat
        <4>1. wakes[1].seq \in 0..nextSeq - 1 /\ InFlight(wakes[1].seq)
          BY <3>1 DEF IInv, InSequence, Prompt
        <4>2. nextSeq \in Nat
          BY DEF IInv, Engine, ITyped
        <4> QED
          BY <3>1, <4>1, <4>2
      <3>3. /\ nextSeq \in Nat /\ Len(pending) \in Nat
            /\ \A i \in 1..Len(pending) : pending[i].seq = nextSeq - Len(pending) + i - 1
        BY DEF IInv, Engine, ITyped, Consecutive, Base
      <3>4. w.seq - (nextSeq - Len(pending)) + 1 \in 1..Len(pending)
        BY <3>2, <3>3 DEF InFlight, Base
      <3>5. pending[w.seq - (nextSeq - Len(pending)) + 1].seq = w.seq
        BY <3>2, <3>3, <3>4
      <3> QED
        BY <1>5, <3>4, <3>5
    <2>4. ITyped'
      <3>1. wakes' \in Seq(Wakes)
        BY <1>1, WakesTail
      <3>2. pc' \in {"top", "list", "wait", "drain", "stopped"}
        BY <1>2
      <3> QED
        BY <1>1, <1>2, <2>1, <3>1, <3>2 DEF IInv, Engine, ITyped, host
    <2> QED
      BY <1>1, <1>3, <2>2, <2>3, <2>4, WakeLeaves
  <1> QED
    BY <1>4, <1>5

-----------------------------------------------------------------------------
(* A restart, and a listing. *)

\* With nothing in flight there is nothing to keep in order.
LEMMA NothingInFlight ==
    ASSUME ITyped', pending' = <<>>
    PROVE  Engine'
  <1>1. nextSeq' \in Nat /\ opts'.maxInFlight \in Nat
    <2>1. opts' \in Setups /\ nextSeq' \in Nat
      BY DEF ITyped
    <2> QED
      BY <2>1, WindowSize
  <1>2. Len(pending') = 0
    OBVIOUS
  <1> QED
    BY <1>1, <1>2 DEF Engine, Consecutive, InFlightBound, NoRepeatInFlight

\* A watch that starts from what the host knows resumes with it confirmed.
LEMMA RespawnKeeps ==
    ASSUME IInv, Respawn
    PROVE  IInv'
  <1>1. /\ pending' = <<>> /\ nextSeq' = 0 /\ elapsed' = 0
        /\ pc' = "top" /\ changed' = FALSE /\ stop' = FALSE
        /\ wakes' = <<>> /\ inbox' = <<>> /\ opts' = opts /\ store' = store
        /\ view' = view /\ position' = position
        /\ UNCHANGED <<changes, drops, late, woken, restarts>>
    BY DEF Respawn, bounds
  <1>2. /\ confirmed' = Resume(position).confirmed /\ baseline' = Resume(position).baseline
        /\ gap' = Resume(position).gap
    BY DEF Respawn
  <1>3. \/ /\ ~position.known /\ confirmed' = Empty /\ gap' = FALSE
           /\ baseline' = IF opts.existing THEN "Report" ELSE "Silent"
        \/ /\ position.known /\ position.snap # NoSnap /\ confirmed' = position.snap
           /\ baseline' = "Known" /\ gap' = FALSE
        \/ /\ position.known /\ position.snap = NoSnap /\ confirmed' = Empty
           /\ baseline' = "Silent" /\ gap' = TRUE
    BY <1>2 DEF Resume
  <1>4. Empty \in Listings /\ \A k \in Keys : Empty[k] = Absent
    BY DEF Empty, Listings
  <1>5. position \in Positions /\ view \in Listings /\ ITyped
    BY DEF IInv, Engine, ITyped
  <1>6. position.snap \in Listings \cup {NoSnap}
    BY <1>5 DEF Positions
  <1>7. ITyped'
    <2>1. confirmed' \in Listings /\ baseline' \in {"Silent", "Report", "Known"} /\ gap' \in BOOLEAN
      BY <1>3, <1>4, <1>6
    <2>2. nextSeq' \in Nat /\ elapsed' \in 0..nextSeq'
      BY <1>1
    <2>3. pending' \in Seq(Numbered) /\ wakes' \in Seq(Wakes) /\ inbox' \in Seq(Changes \cup {Gap, Bare})
      BY <1>1
    <2>4. pc' \in {"top", "list", "wait", "drain", "stopped"} /\ changed' \in BOOLEAN /\ stop' \in BOOLEAN
      BY <1>1
    <2> QED
      BY <1>1, <1>5, <2>1, <2>2, <2>3, <2>4 DEF ITyped
  <1>8. Engine'
    BY <1>1, <1>7, NothingInFlight
  <1>9. Bounded'
    BY <1>1 DEF IInv, Bounded
  <1>10. InSequence' /\ Prompt'
    BY <1>1 DEF InSequence, Prompt
  <1>11. InKeys'
    <2>1. Within(store)' /\ Within(view)' /\ (position'.snap # NoSnap => Within(position.snap)')
      BY <1>1 DEF IInv, InKeys, Within
    <2>2. Within(confirmed)'
      BY <1>1, <1>3, <1>4 DEF IInv, InKeys, Within
    <2> QED
      BY <1>1, <2>1, <2>2 DEF InKeys
  <1>12. Fresh'
    BY <1>1, <1>3 DEF IInv, Fresh, Hosted
  <1>13. Hosted' /\ Restarting'
    BY <1>1 DEF IInv, Hosted, Restarting
  <1>14. Serial' <=> Serial
    BY <1>1 DEF Serial
  <1>15. Agree'
    <2> SUFFICES ASSUME Told', baseline' # "Silent" PROVE confirmed' = view
      BY <1>1 DEF Agree, Settled
    <2>1. restarts > 0 /\ restarts \in Nat
      BY Options DEF IInv, Restarting, Respawn, Bounded, Engine, ITyped
    <2>2. Serial /\ opts.eventSource
      BY <1>1, <1>14, <2>1 DEF Told
    <2> QED
      BY <1>3, <2>2 DEF IInv, PositionExact, Hosted
  <1>16. SnapExact' /\ PositionExact'
    BY <1>1, <1>14 DEF IInv, SnapExact, PositionExact
  <1> QED
    BY <1>8, <1>9, <1>10, <1>11, <1>12, <1>13, <1>15, <1>16 DEF IInv

\* The first listing of a watch that starts in silence is what the host is given.
LEMMA ListSilent ==
    ASSUME IInv, ListOk, baseline = "Silent"
    PROVE  IInv'
  <1>1. /\ inbox = <<>> /\ pending = <<>> /\ position.snap = NoSnap
        /\ \A i \in 1..Len(wakes) : ~AckAt(i)
        /\ opts.existing => position.known
    BY DEF IInv, Fresh
  <1>2. /\ pc' = "wait" /\ view' = store /\ baseline' = "Known" /\ gap' = FALSE
        /\ UNCHANGED <<opts, store, elapsed, changed, stop, wakes, position, changes, drops,
                       late, woken, restarts>>
    BY DEF ListOk, bounds
  <1>3. Retained = <<>>
    <2>1. PICK m \in 0..Len(pending) : Retained \in Seq(Numbered) /\ Len(Retained) = Len(pending) - m
      BY RetainedSuffix DEF IInv
    <2>2. Len(pending) = 0
      BY <1>1
    <2>3. m = 0
      BY <2>2
    <2>4. Len(Retained) = 0
      BY <2>1, <2>2, <2>3
    <2> QED
      BY <2>1, <2>4
  <1>4. Poll(store) = [confirmed |-> store, pending |-> <<>>, nextSeq |-> nextSeq, changes |-> <<>>]
    BY <1>3 DEF Poll
  <1>5. store \in Listings
    BY DEF IInv, Engine, ITyped
  <1>6. SelfAcknowledged(Poll(store), <<>>) = [confirmed |-> store, pending |-> <<>>]
    <2>1. [k \in Keys |-> IF \E i \in 1..Len(<<>>) : <<>>[i].key = k THEN store[k] ELSE store[k]] = store
      BY <1>5 DEF Listings
    <2> QED
      BY <1>4, <2>1 DEF SelfAcknowledged
  <1>7. confirmed' = store /\ pending' = <<>> /\ nextSeq' = nextSeq
    BY <1>4, <1>6 DEF ListOk
  <1>8. inbox' = <<>> \/ (inbox' = <<Gap>> /\ opts.eventSource)
    <2>1. /\ <<>> \o <<>> = <<>> /\ <<>> \o (<<>> \o <<>>) = <<>>
          /\ <<>> \o (<<Gap>> \o <<>>) = <<Gap>>
      OBVIOUS
    <2>2. CASE ~opts.eventSource
      <3>1. inbox' = <<>> \o <<>>
        BY <1>1, <1>4, <2>2 DEF ListOk
      <3> QED
        BY <2>1, <3>1, Zenon
    <2>3. CASE opts.eventSource /\ ~gap
      <3>1. inbox' = <<>> \o (<<>> \o <<>>)
        BY <1>1, <1>4, <2>3 DEF ListOk
      <3> QED
        BY <2>1, <3>1, Zenon
    <2>4. CASE opts.eventSource /\ gap
      <3>1. inbox' = <<>> \o (<<Gap>> \o <<>>)
        BY <1>1, <1>4, <2>4 DEF ListOk
      <3> QED
        BY <2>1, <2>4, <3>1, Zenon
    <2> QED
      BY <2>2, <2>3, <2>4
  <1>9. Gap.type = "gap"
    BY DEF Gap
  <1>10. \A i \in 1..Len(inbox') : inbox'[i].type = "gap" /\ opts.eventSource
    BY <1>8, <1>9
  <1>11. ITyped'
    <2>1. inbox' \in Seq(Changes \cup {Gap, Bare}) /\ pending' \in Seq(Numbered)
      <3>1. PICK S : S = Changes \cup {Gap, Bare}
        OBVIOUS
      <3>2. Gap \in S
        BY <3>1
      <3>3. <<Gap>> \in Seq(S) /\ <<>> \in Seq(S)
        BY <3>2
      <3>4. inbox' \in Seq(S)
        BY <1>8, <3>3
      <3> QED
        BY <1>7, <3>1, <3>4
    <2>2. pc' \in {"top", "list", "wait", "drain", "stopped"} /\ gap' \in BOOLEAN
          /\ baseline' \in {"Silent", "Report", "Known"}
      BY <1>2
    <2> QED
      BY <1>2, <1>5, <1>7, <2>1, <2>2 DEF IInv, Engine, ITyped
  <1>12. Engine'
    BY <1>7, <1>11, NothingInFlight
  <1>13. Bounded'
    BY <1>2 DEF IInv, Bounded
  <1>14. /\ \A i \in 1..Len(inbox') : ~ChangeAt(i)'
         /\ \A i \in 1..Len(wakes') : ~AckAt(i)'
    BY <1>1, <1>2, <1>10 DEF ChangeAt, AckAt
  <1>15. InSequence' /\ Prompt'
    BY <1>14 DEF InSequence, Prompt
  <1>16. InKeys'
    <2>1. Within(store)' /\ Within(confirmed)' /\ Within(view)'
      BY <1>2, <1>7 DEF IInv, InKeys, Within
    <2>2. position'.snap = NoSnap
      BY <1>1, <1>2
    <2> QED
      BY <1>7, <1>14, <2>1, <2>2 DEF InKeys
  <1>17. Fresh' /\ Hosted' /\ Restarting'
    <2>1. Hosted'
      BY <1>1, <1>2, <1>7, <1>10, <1>14 DEF IInv, Hosted
    <2>2. Restarting'
      BY <1>2 DEF IInv, Restarting
    <2> QED
      BY <1>2, <2>1, <2>2 DEF Fresh
  <1>18. Agree' /\ SnapExact' /\ PositionExact'
    BY <1>1, <1>2, <1>7, <1>14 DEF Agree, Settled, SnapExact, PositionExact
  <1> QED
    BY <1>12, <1>13, <1>15, <1>16, <1>17, <1>18 DEF IInv

\* A resource watch acknowledges its changes itself.
LEMMA ListResource ==
    ASSUME IInv, ListOk, baseline # "Silent", ~opts.eventSource
    PROVE  IInv'
  <1>1. /\ pending = <<>> /\ position = NoPosition
        /\ \A i \in 1..Len(inbox) : ~ChangeAt(i)
        /\ \A i \in 1..Len(wakes) : ~AckAt(i)
    BY DEF IInv, Hosted
  <1>2. /\ pc' = "wait" /\ view' = view /\ baseline' = "Known" /\ gap' = FALSE
        /\ UNCHANGED <<opts, store, elapsed, changed, stop, wakes, position, changes, drops,
                       late, woken, restarts>>
    BY DEF ListOk, bounds
  <1>3. PICK own : own = Poll(store).changes
    OBVIOUS
  <1>4. PICK c \in Nat : c = Cut(store)
    BY Reported DEF IInv, Engine, ITyped
  <1>5. Len(Retained) = 0
    <2>1. PICK m \in 0..Len(pending) : Retained \in Seq(Numbered) /\ Len(Retained) = Len(pending) - m
      BY RetainedSuffix DEF IInv
    <2>2. Len(pending) = 0
      BY <1>1
    <2>3. m = 0
      BY <2>2
    <2> QED
      BY <2>1, <2>2, <2>3
  <1>6. /\ Poll(store).confirmed = Remembered(store) /\ Poll(store).nextSeq = nextSeq + c
        /\ Poll(store).pending \in Seq(Numbered) /\ Len(Poll(store).pending) = c
        /\ own \in Seq(Changes) /\ Len(own) = c
    <2>1. /\ Poll(store).confirmed = Remembered(store)
          /\ Poll(store).nextSeq = nextSeq + Cut(store)
          /\ Poll(store).pending \in Seq(Numbered)
          /\ Len(Poll(store).pending) = Len(Retained) + Cut(store)
          /\ Poll(store).changes \in Seq(Changes) /\ Len(Poll(store).changes) = Cut(store)
      BY Polled DEF IInv
    <2> QED
      BY <1>3, <1>4, <1>5, <2>1
  <1>7. /\ confirmed' = SelfAcknowledged(Poll(store), own).confirmed
        /\ pending' = SelfAcknowledged(Poll(store), own).pending
        /\ nextSeq' = nextSeq + c
        /\ inbox' = inbox \o (IF own = <<>> THEN <<>> ELSE <<Bare>>)
    BY <1>3, <1>6 DEF ListOk
  <1>8. pending' = <<>>
    <2>1. pending' = IF own = <<>> THEN Poll(store).pending ELSE <<>>
      BY <1>7 DEF SelfAcknowledged
    <2>2. own = <<>> => Len(Poll(store).pending) = 0
      BY <1>6
    <2> QED
      BY <1>6, <2>1, <2>2
  <1>9. confirmed' = [k \in Keys |-> IF \E i \in 1..Len(own) : own[i].key = k THEN store[k]
                                     ELSE Remembered(store)[k]]
    BY <1>6, <1>7 DEF SelfAcknowledged
  <1>10. store \in Listings /\ confirmed \in Listings /\ nextSeq \in Nat /\ elapsed \in 0..nextSeq
    BY DEF IInv, Engine, ITyped
  <1>11. \A k \in Keys : Remembered(store)[k] \in {Absent, confirmed[k]}
    BY DEF Remembered
  <1>12. \A k \in Keys : confirmed'[k] \in {Absent, confirmed[k], store[k]}
    BY <1>9, <1>11
  <1>13. confirmed' \in Listings
    <2>1. \A k \in Keys : confirmed'[k] \in Digests \cup {Absent}
      BY <1>10, <1>12 DEF Listings
    <2> QED
      BY <1>9, <2>1 DEF Listings
  <1>14. /\ inbox' \in Seq(Changes \cup {Gap, Bare})
         /\ \A i \in 1..Len(inbox') : (i \in 1..Len(inbox) /\ inbox'[i] = inbox[i]) \/ inbox'[i] = Bare
    <2>1. inbox \in Seq(Changes \cup {Gap, Bare}) /\ Len(inbox) \in Nat
      BY DEF IInv, Engine, ITyped
    <2>2. CASE inbox' = inbox \o <<>>
      BY <2>1, <2>2
    <2>3. CASE inbox' = inbox \o <<Bare>>
      <3>1. /\ inbox' \in Seq(Changes \cup {Gap, Bare}) /\ Len(inbox') = Len(inbox) + 1
            /\ \A i \in 1..Len(inbox) : inbox'[i] = inbox[i]
            /\ inbox'[Len(inbox) + 1] = Bare
        BY <2>1, <2>3
      <3>2. \A i \in 1..Len(inbox') : i \in 1..Len(inbox) \/ i = Len(inbox) + 1
        BY <2>1, <3>1
      <3> QED
        BY <3>1, <3>2
    <2> QED
      BY <1>7, <2>2, <2>3
  <1>15. /\ \A i \in 1..Len(inbox') : ~ChangeAt(i)'
         /\ \A i \in 1..Len(wakes') : ~AckAt(i)'
    <2>1. Bare.type = "bare"
      BY DEF Bare
    <2> QED
      BY <1>1, <1>2, <1>14, <2>1 DEF ChangeAt, AckAt
  <1>16. ITyped'
    <2>1. nextSeq' \in Nat /\ elapsed' \in 0..nextSeq'
      BY <1>2, <1>7, <1>10
    <2>2. pc' \in {"top", "list", "wait", "drain", "stopped"} /\ gap' \in BOOLEAN
          /\ baseline' \in {"Silent", "Report", "Known"}
      BY <1>2
    <2>3. pending' \in Seq(Numbered)
      BY <1>8
    <2> QED
      BY <1>2, <1>13, <1>14, <2>1, <2>2, <2>3 DEF IInv, Engine, ITyped
  <1>17. Engine'
    BY <1>8, <1>16, NothingInFlight
  <1>18. Bounded'
    BY <1>2 DEF IInv, Bounded
  <1>19. InSequence' /\ Prompt'
    BY <1>15 DEF InSequence, Prompt
  <1>20. position'.snap = NoSnap /\ position' = NoPosition
    BY <1>1, <1>2 DEF NoPosition
  <1>21. InKeys'
    <2>1. Within(store)' /\ Within(view)'
      BY <1>2 DEF IInv, InKeys, Within
    <2>2. Within(confirmed)'
      BY <1>2, <1>12 DEF IInv, InKeys, Within
    <2> QED
      BY <1>8, <1>15, <1>20, <2>1, <2>2 DEF InKeys
  <1>22. Fresh' /\ Hosted' /\ Restarting'
    <2>1. Hosted'
      BY <1>2, <1>8, <1>15, <1>20 DEF Hosted
    <2>2. Restarting'
      BY <1>2 DEF IInv, Restarting
    <2> QED
      BY <1>2, <2>1, <2>2 DEF Fresh
  <1>23. Agree' /\ SnapExact' /\ PositionExact'
    BY <1>2, <1>15, <1>20 DEF Agree, Told, SnapExact, PositionExact
  <1> QED
    BY <1>17, <1>18, <1>19, <1>21, <1>22, <1>23 DEF IInv

\* An event source emits what the poll reports, behind what is under way.
LEMMA ListEvents ==
    ASSUME IInv, ListOk, baseline # "Silent", opts.eventSource
    PROVE  IInv'
  <1>1. /\ pc' = "wait" /\ view' = view /\ baseline' = "Known" /\ gap' = FALSE /\ ~gap
        /\ UNCHANGED <<opts, store, elapsed, changed, stop, wakes, position, changes, drops,
                       late, woken, restarts>>
    BY DEF ListOk, bounds, IInv, Fresh
  <1>2. PICK own, kept, r, c : /\ own = Poll(store).changes /\ kept = Retained
                               /\ r = Report(store) /\ c = Cut(store)
    OBVIOUS
  <1>3. /\ confirmed' = Poll(store).confirmed /\ pending' = Poll(store).pending
        /\ nextSeq' = Poll(store).nextSeq /\ inbox' = inbox \o (<<>> \o own)
    BY <1>1, <1>2 DEF ListOk
  <1>4. /\ store \in Listings /\ confirmed \in Listings /\ nextSeq \in Nat /\ elapsed \in 0..nextSeq
        /\ elapsed \in Nat /\ pending \in Seq(Numbered) /\ Len(pending) \in Nat
        /\ inbox \in Seq(Changes \cup {Gap, Bare}) /\ Len(inbox) \in Nat
        /\ opts.maxInFlight \in Nat /\ Len(pending) <= nextSeq
    BY Options DEF IInv, Engine, ITyped, Consecutive
  <1>5. /\ confirmed' = Remembered(store) /\ confirmed' \in Listings
        /\ nextSeq' = nextSeq + c
        /\ pending' \in Seq(Numbered) /\ Len(pending') = Len(kept) + c
        /\ \A i \in 1..Len(kept) : pending'[i] = kept[i]
        /\ \A i \in 1..c : /\ pending'[Len(kept) + i].seq = nextSeq + i - 1
                           /\ pending'[Len(kept) + i].key = r[i]
                           /\ pending'[Len(kept) + i].digest = store[r[i]]
    BY <1>2, <1>3, Polled DEF IInv
  <1>6. /\ own \in Seq(Changes) /\ Len(own) = c
        /\ \A i \in 1..c : /\ own[i].type = "change" /\ own[i].seq = nextSeq + i - 1
                           /\ own[i].key = r[i] /\ own[i].digest = store[r[i]]
                           /\ own[i].snap \in
                                {NoSnap, [Remembered(store) EXCEPT ![r[i]] = store[r[i]]]}
    BY <1>2, Polled DEF IInv
  <1>7. PICK m \in 0..Len(pending) :
            /\ kept \in Seq(Numbered) /\ Len(kept) = Len(pending) - m
            /\ \A i \in 1..Len(pending) - m : kept[i] = pending[i + m]
            /\ \A i \in 1..Len(pending) : i <= m <=> pending[i].seq < elapsed
    BY <1>2, RetainedSuffix DEF IInv
  <1>8. /\ c \in Nat /\ Len(kept) \in Nat /\ Len(kept) + c <= opts.maxInFlight
        /\ \A i \in 1..c : r[i] \in Keys /\ r[i] \in Diff(kept, store)
    <2>1. /\ r \in Seq(Keys) /\ c \in 0..Len(r) /\ Len(kept) + c <= opts.maxInFlight
          /\ \A i \in 1..Len(r) : r[i] \in Diff(kept, store)
      BY <1>2, <1>4, Reported DEF IInv
    <2>2. c \in Nat /\ Len(kept) \in Nat /\ c <= Len(r) /\ Len(r) \in Nat
      BY <1>7, <2>1
    <2>3. \A i \in 1..c : i \in 1..Len(r)
      BY <2>2
    <2> QED
      BY <2>1, <2>2, <2>3
  <1>9. /\ Base = nextSeq - Len(pending) /\ Base \in Nat /\ Base' = Base + m
        /\ Base' = nextSeq - Len(kept) /\ Len(kept) = Len(pending) - m
        /\ nextSeq \in Nat /\ nextSeq' = nextSeq + c /\ c \in Nat /\ Len(kept) \in Nat
        /\ Len(pending) \in Nat
    <2>1. Base = nextSeq - Len(pending) /\ Base' = nextSeq' - Len(pending')
      BY DEF Base
    <2>2. nextSeq' = nextSeq + c /\ Len(pending') = Len(kept) + c
      BY <1>5
    <2>3. Len(kept) = Len(pending) - m
      BY <1>7
    <2>4. /\ nextSeq \in Nat /\ Len(pending) \in Nat /\ Len(pending) <= nextSeq
          /\ c \in Nat /\ Len(kept) \in Nat
      BY <1>4, <1>8
    <2> QED
      BY <2>1, <2>2, <2>3, <2>4
  <1>10. \A n \in Nat : n >= elapsed /\ InFlight(n) => InFlight(n)' /\ At(n)' = At(n)
    <2> SUFFICES ASSUME NEW n \in Nat, n >= elapsed, InFlight(n)
                 PROVE  InFlight(n)' /\ At(n)' = At(n)
      OBVIOUS
    <2>1. Base <= n /\ n < nextSeq
      BY DEF InFlight
    <2>2. PICK y \in 1..Len(pending) : y = n - Base + 1
      <3>1. n - Base + 1 \in 1..Len(pending)
        BY <1>9, <2>1
      <3> QED
        BY <3>1
    <2>3. pending[y].seq = n
      <3>1. pending[y].seq = Base + y - 1
        BY DEF IInv, Engine, Consecutive
      <3> QED
        BY <1>9, <2>2, <3>1
    <2>4. ~(y <= m)
      BY <1>4, <1>7, <2>3
    <2>5. /\ y - m \in 1..Len(kept) /\ y - m \in 1..Len(pending) - m
          /\ n - Base' + 1 = y - m /\ (y - m) + m = y
      BY <1>9, <2>2, <2>4
    <2>6. pending'[n - Base' + 1] = pending[n - Base + 1]
      BY <1>5, <1>7, <2>2, <2>5
    <2>7. InFlight(n)'
      <3>1. Base' <= n /\ n < nextSeq'
        BY <1>9, <2>1, <2>2, <2>4
      <3> QED
        BY <3>1 DEF InFlight
    <2> QED
      BY <2>6, <2>7 DEF At
  <1>11. \A i \in 1..c : \A n \in Nat : n = nextSeq + i - 1 =>
            InFlight(n)' /\ At(n)'.key = r[i] /\ At(n)'.digest = store[r[i]]
    <2> SUFFICES ASSUME NEW i \in 1..c, NEW n \in Nat, n = nextSeq + i - 1
                 PROVE  InFlight(n)' /\ At(n)'.key = r[i] /\ At(n)'.digest = store[r[i]]
      OBVIOUS
    <2>1. Base' <= n /\ n < nextSeq' /\ n - Base' + 1 = Len(kept) + i
      BY <1>9
    <2>2. InFlight(n)'
      BY <2>1 DEF InFlight
    <2>3. pending'[n - Base' + 1].key = r[i] /\ pending'[n - Base' + 1].digest = store[r[i]]
      BY <1>5, <2>1
    <2> QED
      BY <2>2, <2>3 DEF At
  <1>12. /\ inbox' \in Seq(Changes \cup {Gap, Bare}) /\ Len(inbox') = Len(inbox) + c
         /\ \A i \in 1..Len(inbox) : inbox'[i] = inbox[i]
         /\ \A i \in 1..c : inbox'[Len(inbox) + i] = own[i]
    <2>1. PICK S : S = Changes \cup {Gap, Bare}
      OBVIOUS
    <2>2. inbox \in Seq(S) /\ own \in Seq(S)
      <3>1. \A i \in 1..Len(own) : own[i] \in S
        BY <1>6, <2>1
      <3> QED
        BY <1>4, <1>6, <2>1, <3>1
    <2>3. <<>> \o own = own
      BY <2>2
    <2>4. inbox' = inbox \o own
      BY <1>3, <2>3
    <2>5. /\ inbox' \in Seq(S) /\ Len(inbox') = Len(inbox) + Len(own)
          /\ \A i \in 1..Len(inbox) : inbox'[i] = inbox[i]
          /\ \A i \in 1..Len(own) : inbox'[Len(inbox) + i] = own[i]
      BY <2>2, <2>4
    <2> QED
      BY <1>6, <2>1, <2>5
  <1>13. \A i \in 1..Len(inbox') :
            \/ i \in 1..Len(inbox) /\ inbox'[i] = inbox[i] /\ (ChangeAt(i)' <=> ChangeAt(i))
            \/ i - Len(inbox) \in 1..c /\ inbox'[i] = own[i - Len(inbox)]
    <2> SUFFICES ASSUME NEW i \in 1..Len(inbox')
                 PROVE  \/ i \in 1..Len(inbox) /\ inbox'[i] = inbox[i] /\ (ChangeAt(i)' <=> ChangeAt(i))
                        \/ i - Len(inbox) \in 1..c /\ inbox'[i] = own[i - Len(inbox)]
      OBVIOUS
    <2>1. CASE i <= Len(inbox)
      BY <1>4, <1>12, <2>1 DEF ChangeAt
    <2>2. CASE i > Len(inbox)
      <3>1. i - Len(inbox) \in 1..c /\ Len(inbox) + (i - Len(inbox)) = i
        BY <1>4, <1>8, <1>12, <2>2
      <3> QED
        BY <1>12, <3>1
    <2> QED
      BY <1>4, <1>12, <2>1, <2>2
  <1>14. \A i \in 1..Len(inbox) : ChangeAt(i) => inbox[i].seq \in Nat
    <2> SUFFICES ASSUME NEW i \in 1..Len(inbox), ChangeAt(i) PROVE inbox[i].seq \in Nat
      OBVIOUS
    <2>1. inbox[i] \in Changes \cup {Gap, Bare} /\ inbox[i].type = "change"
      BY <1>4 DEF ChangeAt
    <2>2. Gap.type = "gap" /\ Bare.type = "bare"
      BY DEF Gap, Bare
    <2> QED
      BY <2>1, <2>2 DEF Changes
  <1>15. \A i : AckAt(i)' <=> AckAt(i)
    BY <1>1 DEF AckAt
  <1>16. ITyped' /\ Bounded'
    <2>1. nextSeq' \in Nat /\ elapsed' \in 0..nextSeq'
      BY <1>1, <1>4, <1>5, <1>8
    <2>2. pc' \in {"top", "list", "wait", "drain", "stopped"} /\ gap' \in BOOLEAN
          /\ baseline' \in {"Silent", "Report", "Known"}
      BY <1>1
    <2>3. Bounded'
      BY <1>1 DEF IInv, Bounded
    <2> QED
      BY <1>1, <1>5, <1>12, <2>1, <2>2, <2>3 DEF IInv, Engine, ITyped
  <1>17. Engine'
    <2>1. Consecutive' /\ InFlightBound' /\ NoRepeatInFlight'
      BY <1>1, <1>3, PolledWindow DEF IInv
    <2> QED
      BY <1>16, <2>1 DEF Engine
  <1>18. InSequence'
    <2>1. \A i \in 1..Len(wakes') : AckAt(i)' => wakes'[i].seq \in 0..nextSeq' - 1
      <3>1. \A i \in 1..Len(wakes) : AckAt(i) => wakes[i].seq \in 0..nextSeq - 1
        BY DEF IInv, InSequence
      <3>2. \A n \in 0..nextSeq - 1 : n \in 0..nextSeq' - 1
        BY <1>4, <1>5, <1>8
      <3> QED
        BY <1>1, <1>15, <3>1, <3>2
    <2>2. \A i, j \in 1..Len(wakes') : i < j /\ AckAt(i)' /\ AckAt(j)' => wakes'[i].seq < wakes'[j].seq
      BY <1>1, <1>15 DEF IInv, InSequence
    <2>3. ASSUME NEW i \in 1..Len(inbox'), ChangeAt(i)'
          PROVE  /\ inbox'[i].seq < nextSeq' /\ inbox'[i].seq \in Nat
                 /\ i <= Len(inbox) => /\ i \in 1..Len(inbox) /\ ChangeAt(i) /\ inbox'[i] = inbox[i]
                                       /\ inbox[i].seq < nextSeq
                 /\ i > Len(inbox) => inbox'[i].seq = nextSeq + (i - Len(inbox)) - 1
      <3>1. CASE i \in 1..Len(inbox) /\ inbox'[i] = inbox[i] /\ ChangeAt(i)
        <4>1. inbox[i].seq < nextSeq /\ inbox[i].seq \in Nat
          BY <1>14, <3>1 DEF IInv, InSequence
        <4> QED
          BY <1>4, <1>5, <1>8, <3>1, <4>1, SMTT(30)
      <3>2. CASE i - Len(inbox) \in 1..c /\ inbox'[i] = own[i - Len(inbox)]
        <4>1. inbox'[i].seq = nextSeq + (i - Len(inbox)) - 1
          BY <1>6, <3>2
        <4> QED
          BY <1>4, <1>5, <1>8, <3>2, <4>1, SMTT(30)
      <3> QED
        BY <1>13, <2>3, <3>1, <3>2
    <2>4. \A i, j \in 1..Len(inbox') :
            i < j /\ ChangeAt(i)' /\ ChangeAt(j)' => inbox'[i].seq < inbox'[j].seq
      <3> SUFFICES ASSUME NEW i \in 1..Len(inbox'), NEW j \in 1..Len(inbox'), i < j,
                          ChangeAt(i)', ChangeAt(j)'
                   PROVE  inbox'[i].seq < inbox'[j].seq
        OBVIOUS
      <3>1. CASE j <= Len(inbox)
        <4>1. i <= Len(inbox)
          BY <1>4, <3>1
        <4> QED
          BY <2>3, <3>1, <4>1 DEF IInv, InSequence
      <3>2. CASE j > Len(inbox)
        <4>1. inbox'[j].seq = nextSeq + (j - Len(inbox)) - 1
          BY <2>3, <3>2
        <4>2. CASE i <= Len(inbox)
          <5>1. inbox'[i].seq < nextSeq /\ inbox'[i].seq \in Nat
            BY <2>3, <4>2
          <5> QED
            BY <1>4, <3>2, <4>1, <5>1
        <4>3. CASE i > Len(inbox)
          <5>1. inbox'[i].seq = nextSeq + (i - Len(inbox)) - 1
            BY <2>3, <4>3
          <5> QED
            BY <1>4, <4>1, <5>1
        <4> QED
          BY <1>4, <4>2, <4>3
      <3> QED
        BY <1>4, <3>1, <3>2
    <2>5. \A i \in 1..Len(wakes'), j \in 1..Len(inbox') :
            AckAt(i)' /\ ChangeAt(j)' => wakes'[i].seq < inbox'[j].seq
      <3> SUFFICES ASSUME NEW i \in 1..Len(wakes), NEW j \in 1..Len(inbox'), AckAt(i), ChangeAt(j)'
                   PROVE  wakes[i].seq < inbox'[j].seq
        BY <1>1, <1>15
      <3>1. CASE j <= Len(inbox)
        BY <2>3, <3>1 DEF IInv, InSequence
      <3>2. CASE j > Len(inbox)
        <4>1. inbox'[j].seq = nextSeq + (j - Len(inbox)) - 1
          BY <2>3, <3>2
        <4>2. wakes[i].seq \in 0..nextSeq - 1
          BY DEF IInv, InSequence
        <4> QED
          BY <1>4, <3>2, <4>1, <4>2, SMTT(30)
      <3> QED
        BY <1>4, <3>1, <3>2
    <2> QED
      BY <2>1, <2>2, <2>3, <2>4, <2>5 DEF InSequence
  <1>19. late = 0 => \A i \in 1..Len(wakes) : AckAt(i) =>
            /\ wakes[i].seq \in Nat /\ wakes[i].seq >= elapsed /\ InFlight(wakes[i].seq)
    <2> SUFFICES ASSUME late = 0, NEW i \in 1..Len(wakes), AckAt(i)
                 PROVE  wakes[i].seq \in Nat /\ wakes[i].seq >= elapsed /\ InFlight(wakes[i].seq)
      OBVIOUS
    <2>1. wakes[i].seq \in 0..nextSeq - 1
      BY DEF IInv, InSequence
    <2>2. wakes[i].seq >= elapsed /\ InFlight(wakes[i].seq)
      BY DEF IInv, Prompt
    <2> QED
      BY <1>4, <2>1, <2>2
  <1>20. Prompt'
    <2> SUFFICES ASSUME late = 0 PROVE Prompt'
      BY <1>1 DEF Prompt
    <2>1. ASSUME NEW i \in 1..Len(wakes'), AckAt(i)'
          PROVE  wakes'[i].seq >= elapsed' /\ InFlight(wakes[i].seq)'
      BY <1>1, <1>10, <1>15, <1>19, <2>1
    <2>2. ASSUME NEW i \in 1..Len(inbox'), ChangeAt(i)'
          PROVE  /\ inbox'[i].seq >= elapsed' /\ InFlight(inbox[i].seq)'
                 /\ At(inbox[i].seq)'.key = inbox'[i].key
                 /\ At(inbox[i].seq)'.digest = inbox'[i].digest
      <3>1. CASE i \in 1..Len(inbox) /\ inbox'[i] = inbox[i] /\ ChangeAt(i)
        <4>1. /\ inbox[i].seq >= elapsed /\ InFlight(inbox[i].seq) /\ inbox[i].seq \in Nat
              /\ At(inbox[i].seq).key = inbox[i].key
              /\ At(inbox[i].seq).digest = inbox[i].digest
          BY <1>14, <3>1 DEF IInv, Prompt
        <4> QED
          BY <1>1, <1>10, <3>1, <4>1
      <3>2. CASE i - Len(inbox) \in 1..c /\ inbox'[i] = own[i - Len(inbox)]
        <4>1. PICK y \in 1..c : y = i - Len(inbox)
          BY <3>2
        <4>2. /\ inbox'[i].seq = nextSeq + y - 1 /\ inbox'[i].key = r[y]
              /\ inbox'[i].digest = store[r[y]]
          BY <1>6, <3>2, <4>1
        <4>3. inbox'[i].seq \in Nat /\ inbox'[i].seq >= elapsed
          BY <1>4, <4>2
        <4>4. /\ InFlight(inbox[i].seq)' /\ At(inbox[i].seq)'.key = r[y]
              /\ At(inbox[i].seq)'.digest = store[r[y]]
          BY <1>11, <4>2, <4>3
        <4> QED
          BY <1>1, <4>2, <4>3, <4>4
      <3> QED
        BY <1>13, <2>2, <3>1, <3>2
    <2> QED
      BY <2>1, <2>2 DEF Prompt
  <1>21. InKeys'
    <2>1. Within(store)' /\ Within(view)' /\ (position'.snap # NoSnap => Within(position.snap)')
      BY <1>1 DEF IInv, InKeys, Within
    <2>2. \A k \in Keys : Remembered(store)[k] \in {Absent, confirmed[k]}
      BY DEF Remembered
    <2>3. Within(confirmed)'
      BY <1>1, <1>5, <2>2 DEF IInv, InKeys, Within
    <2>4. \A i \in 1..c : r[i] \in opts.keys
      BY <1>8 DEF Diff, IInv, InKeys, Within
    <2>5. ASSUME NEW i \in 1..Len(pending') PROVE pending'[i].key \in opts'.keys
      <3>1. CASE i <= Len(kept)
        <4>1. i \in 1..Len(kept) /\ i \in 1..Len(pending) - m /\ i + m \in 1..Len(pending)
          BY <1>4, <1>7, <1>8, <3>1
        <4>2. pending'[i] = pending[i + m]
          BY <1>5, <1>7, <4>1
        <4> QED
          BY <1>1, <4>1, <4>2 DEF IInv, InKeys
      <3>2. CASE i > Len(kept)
        <4>1. i - Len(kept) \in 1..c /\ Len(kept) + (i - Len(kept)) = i
          BY <1>5, <1>8, <3>2
        <4>2. pending'[i].key = r[i - Len(kept)]
          BY <1>5, <4>1
        <4> QED
          BY <1>1, <2>4, <4>1, <4>2
      <3> QED
        BY <1>8, <3>1, <3>2
    <2>6. ASSUME NEW i \in 1..c, own[i].snap # NoSnap
          PROVE  /\ \A k \in Keys : k \notin opts.keys => own[i].snap[k] = Absent
                 /\ own[i].snap[r[i]] = store[r[i]]
      <3>1. own[i].snap = [Remembered(store) EXCEPT ![r[i]] = store[r[i]]] /\ r[i] \in Keys
        BY <1>6, <1>8, <2>6
      <3>2. Remembered(store) \in [Keys -> Digests \cup {Absent}]
        BY <1>5 DEF Listings
      <3>3. \A k \in Keys : k \notin opts.keys => Remembered(store)[k] = Absent
        BY <2>2 DEF IInv, InKeys, Within
      <3>4. \A k \in Keys : own[i].snap[k] = IF k = r[i] THEN store[r[i]] ELSE Remembered(store)[k]
        BY <3>1, <3>2
      <3> QED
        BY <2>4, <3>1, <3>3, <3>4
    <2>7. ASSUME NEW i \in 1..Len(inbox'), ChangeAt(i)'
          PROVE  /\ inbox'[i].key \in opts'.keys
                 /\ inbox'[i].snap # NoSnap =>
                        /\ Within(inbox[i].snap)'
                        /\ inbox'[i].snap[inbox'[i].key] = inbox'[i].digest
      <3>1. CASE i \in 1..Len(inbox) /\ inbox'[i] = inbox[i] /\ ChangeAt(i)
        BY <1>1, <3>1 DEF IInv, InKeys, Within
      <3>2. CASE i - Len(inbox) \in 1..c /\ inbox'[i] = own[i - Len(inbox)]
        <4>1. PICK y \in 1..c : y = i - Len(inbox) /\ inbox'[i] = own[y]
          BY <3>2
        <4>2. own[y].key = r[y] /\ own[y].digest = store[r[y]] /\ r[y] \in opts.keys
          BY <1>6, <2>4
        <4> QED
          BY <1>1, <2>6, <4>1, <4>2 DEF Within
      <3> QED
        BY <1>13, <2>7, <3>1, <3>2
    <2> QED
      BY <2>1, <2>3, <2>5, <2>7 DEF InKeys
  <1>22. Fresh' /\ Hosted' /\ Restarting'
    <2>1. \A i \in 1..Len(inbox') : inbox'[i].type # "bare"
      BY <1>6, <1>13 DEF IInv, Hosted
    <2>2. Hosted'
      BY <1>1, <2>1 DEF IInv, Hosted
    <2>3. Restarting'
      BY <1>1 DEF IInv, Restarting
    <2> QED
      BY <1>1, <2>2, <2>3 DEF Fresh
  <1>23. ~opts.quietRemovals => confirmed' = confirmed
    BY <1>4, <1>5 DEF Remembered, Listings
  <1>24. Serial' <=> Serial
    BY <1>1 DEF Serial
  <1>25. Agree'
    <2> SUFFICES ASSUME Told', NEW k \in Keys PROVE Settled(k)'
      BY DEF Agree
    <2>1. Told /\ late = 0 /\ ~opts.quietRemovals /\ Settled(k)
      BY <1>1, <1>24 DEF Told, IInv, Agree
    <2>2. \A i \in 1..Len(wakes) : AckAt(i) => At(wakes[i].seq)' = At(wakes[i].seq)
      BY <1>1, <1>10, <1>19, <2>1
    <2>3. confirmed' = confirmed /\ view' = view /\ wakes' = wakes
      BY <1>1, <1>23, <2>1
    <2> QED
      BY <1>15, <2>1, <2>2, <2>3 DEF Settled
  <1>26. SnapExact'
    <2> SUFFICES ASSUME opts.maxInFlight = 1, late = 0, ~opts.quietRemovals,
                        NEW i \in 1..Len(inbox'), ChangeAt(i)', inbox'[i].snap # NoSnap
                 PROVE  inbox'[i].snap = [view EXCEPT ![inbox'[i].key] = inbox'[i].digest]
      BY <1>1 DEF SnapExact
    <2>1. CASE i \in 1..Len(inbox) /\ inbox'[i] = inbox[i] /\ ChangeAt(i)
      BY <2>1 DEF IInv, SnapExact
    <2>2. CASE i - Len(inbox) \in 1..c /\ inbox'[i] = own[i - Len(inbox)]
      <3>1. PICK y \in 1..c : y = i - Len(inbox) /\ inbox'[i] = own[y]
        BY <2>2
      <3>2. Len(kept) = 0 /\ m = Len(pending)
        BY <1>4, <1>7, <1>8, <3>1, SMTT(30)
      <3>3. \A j \in 1..Len(wakes) : ~AckAt(j)
        <4> SUFFICES ASSUME NEW j \in 1..Len(wakes), AckAt(j) PROVE FALSE
          OBVIOUS
        <4>1. PICK n \in Nat : n = wakes[j].seq /\ n >= elapsed /\ InFlight(n)
          BY <1>19
        <4>2. n - Base + 1 \in 1..Len(pending)
          <5>1. Base <= n /\ n < nextSeq
            BY <4>1 DEF InFlight
          <5> QED
            BY <1>9, <5>1
        <4>3. pending[n - Base + 1].seq = Base + (n - Base + 1) - 1
          BY <4>2 DEF IInv, Engine, Consecutive
        <4>4. pending[n - Base + 1].seq < elapsed
          BY <1>4, <1>7, <3>2, <4>2
        <4> QED
          <5>1. elapsed \in Nat /\ n >= elapsed
            BY <1>4, <4>1
          <5> QED
            BY <1>9, <4>3, <4>4, <5>1
      <3>4. \A k \in Keys : confirmed[k] = view[k]
        <4>1. Told
          BY DEF Told, Serial
        <4>2. \A k \in Keys : Settled(k)
          BY <4>1 DEF IInv, Agree
        <4> QED
          BY <3>3, <4>2 DEF Settled
      <3>5. confirmed = view
        BY <1>4, <3>4 DEF IInv, Engine, ITyped, Listings
      <3>6. Remembered(store) = view
        BY <1>5, <1>23, <3>5
      <3> QED
        BY <1>6, <3>1, <3>6
    <2> QED
      BY <1>13, <2>1, <2>2
  <1>27. PositionExact'
    BY <1>1, <1>24 DEF IInv, PositionExact
  <1> QED
    BY <1>16, <1>17, <1>18, <1>20, <1>21, <1>22, <1>25, <1>26, <1>27 DEF IInv

-----------------------------------------------------------------------------
(* The theorems. *)

LEMMA StepKeeps == IInv /\ [Next]_vars => IInv'
  <1> SUFFICES ASSUME IInv, [Next]_vars PROVE IInv'
    OBVIOUS
  <1>1. CASE StoreChanges \/ Top \/ ListFails \/ Timeout \/ Drained
    BY <1>1, LightSteps
  <1>2. CASE Wake \/ Cancel
    BY <1>2, ChannelSteps
  <1>3. CASE ListOk
    <2>1. opts.eventSource \in BOOLEAN
      BY Options DEF IInv, Engine, ITyped
    <2> QED
      BY <1>3, <2>1, ListSilent, ListEvents, ListResource
  <1>4. CASE Recv
    BY <1>4, RecvKeeps
  <1>5. CASE Elapse
    BY <1>5, ElapseKeeps
  <1>6. CASE Store
    BY <1>6, StoreKeeps
  <1>7. CASE Drop
    BY <1>7, DropKeeps
  <1>8. CASE Respawn
    BY <1>8, RespawnKeeps
  <1>9. CASE UNCHANGED vars
    <2>1. UNCHANGED <<opts, store, engine, thread, wakes, host, bounds>>
      BY <1>9 DEF vars
    <2>2. UNCHANGED <<opts, engine, host, late, wakes, store, restarts>>
      BY <2>1 DEF bounds
    <2>3. ITyped' /\ Bounded' /\ Within(store)' /\ Restarting'
      BY <2>1 DEF IInv, Engine, ITyped, Bounded, InKeys, Within, Restarting, engine, thread,
                  host, bounds
    <2>4. wakes \in Seq(Wakes) /\ Len(wakes) \in Nat /\ restarts \in Nat
      BY Options DEF IInv, Engine, ITyped, Bounded
    <2> QED
      BY <2>2, <2>3, <2>4, Aside
  <1> QED
    BY <1>1, <1>2, <1>3, <1>4, <1>5, <1>6, <1>7, <1>8, <1>9 DEF Next, Thread

\* The inductive invariant of the inventory watch (spawn_inventory_watch_hooked,
\* src/inventory.rs): events and acknowledgements travel in the order of their
\* numbers, a number finds its change, and each object is settled.
THEOREM InventoryInvariant == Spec => []IInv
  BY Initially, StepKeeps, PTL DEF Spec

\* Every variable of the watch keeps its type, and a pending change has a number
\* next_seq has passed (Inventory::poll).
THEOREM InventoryTyped == Spec => []TypeOK
  <1>1. IInv => TypeOK
    <2> SUFFICES ASSUME IInv PROVE TypeOK
      OBVIOUS
    <2>1. ITyped /\ Bounded /\ Consecutive
      BY DEF IInv, Engine
    <2>2. ASSUME NEW i \in 1..Len(pending) PROVE pending[i] \in Pendings
      <3>1. pending[i] \in Numbered /\ nextSeq \in Nat /\ Len(pending) \in Nat
        BY <2>1 DEF ITyped
      <3>2. pending[i].seq = nextSeq - Len(pending) + i - 1
        BY <2>1 DEF Consecutive, Base
      <3>3. pending[i].seq \in 0..nextSeq - 1
        <4>1. pending[i].seq \in Nat
          BY <3>1 DEF Numbered
        <4> QED
          BY <3>1, <3>2, <4>1
      <3> QED
        BY <3>1, <3>3 DEF Numbered, Pendings
    <2>3. \A i \in 1..Len(wakes) : wakes[i] \in Wakes
      BY <2>1 DEF ITyped
    <2>4. \A i \in 1..Len(inbox) : inbox[i].type \in {"change", "gap", "bare"}
      <3>1. \A e \in Changes \cup {Gap, Bare} : e.type \in {"change", "gap", "bare"}
        BY DEF Changes, Gap, Bare
      <3> QED
        BY <2>1, <3>1 DEF ITyped
    <2> QED
      BY <2>1, <2>2, <2>3, <2>4 DEF ITyped, Bounded, TypeOK
  <1> QED
    BY <1>1, InventoryInvariant, PTL

\* Inventory::poll never takes the window past max_in_flight.
THEOREM WindowBounded == Spec => []InFlightBound
  <1>1. IInv => InFlightBound
    BY DEF IInv, Engine
  <1> QED
    BY <1>1, InventoryInvariant, PTL

\* Inventory::poll does not report a change that is in flight already.
THEOREM NoneRepeated == Spec => []NoRepeatInFlight
  <1>1. IInv => NoRepeatInFlight
    BY DEF IInv, Engine
  <1> QED
    BY <1>1, InventoryInvariant, PTL

\* Inventory::acknowledged confirms what the host has stored.
THEOREM Confirmed == Spec => []ConfirmedAsStored
  <1>1. IInv => ConfirmedAsStored
    <2> SUFFICES ASSUME IInv, Told, baseline = "Known", ~AcksUnread PROVE confirmed = view
      BY DEF ConfirmedAsStored, Told
    <2>1. \A k \in Keys : confirmed[k] = view[k]
      BY DEF IInv, Agree, Settled, AcksUnread, AckAt
    <2> QED
      BY <2>1 DEF IInv, Engine, ITyped, Listings
  <1> QED
    BY <1>1, InventoryInvariant, PTL

\* Inventory::snapshot puts into a position what the host will know.
THEOREM PositionsExact == Spec => []PositionExact
  <1>1. IInv => PositionExact
    BY DEF IInv
  <1> QED
    BY <1>1, InventoryInvariant, PTL

=============================================================================
