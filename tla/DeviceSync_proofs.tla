------------------------- MODULE DeviceSync_proofs -------------------------
(***************************************************************************)
(* What holds of the replicas whatever the devices, the changes and the    *)
(* number of calls that overlap: nothing is lost or skipped, a change is   *)
(* applied once, and devices that are up to date agree.                    *)
(*                                                                         *)
(* ApplyAll and Unsent are recursive functions.  That they are defined on  *)
(* every sequence, and what they return, is proved by an induction over    *)
(* the natural numbers that is stated for sets (SetInduction), so that it  *)
(* takes no operator as a parameter.                                       *)
(***************************************************************************)
EXTENDS DeviceSync, FiniteSetTheorems, WellFoundedInduction, TLAPS

LEMMA LeastExists ==
  ASSUME NEW T \in SUBSET Nat, T # {}
  PROVE  \E x \in T : \A y \in T : x =< y
  <1> DEFINE R == {ss \in Nat \X Nat : ss[1] < ss[2]}
  <1>1. IsWellFoundedOn(R, Nat)
    BY NatLessThanWellFounded DEF OpToRel
  <1>2. PICK x \in T : \A y \in T : <<y, x>> \notin R
    <2> HIDE DEF R
    <2> QED  BY <1>1, WFMin
  <1>3. \A y \in T : y < x => <<y, x>> \in R
    OBVIOUS
  <1> HIDE DEF R
  <1>4. \A y \in T : y \in Nat /\ x \in Nat /\ ~(y < x)
    BY <1>2, <1>3
  <1> QED  BY <1>4

LEMMA SetInduction ==
  ASSUME NEW S, 0 \in S, \A n \in Nat : n \in S => n + 1 \in S
  PROVE  Nat \subseteq S
  <1> DEFINE T == Nat \ S
  <1>1. SUFFICES ASSUME T # {} PROVE FALSE
    OBVIOUS
  <1>2. PICK x \in T : \A y \in T : x =< y
    BY <1>1, LeastExists
  <1>3. x # 0 /\ x - 1 \in Nat /\ x - 1 \in T
    BY <1>2
  <1> QED  BY <1>2, <1>3

----------------------------------------------------------------------------
(* apply() and the changes of a batch. *)

\* The record is what the last writers of the changes in H have made of it.
RecordOf(record, H) ==
    /\ record = [f \in Field |-> record[f]]
    /\ \A f \in Field :
           \/ record[f] = Unset /\ \A c \in H : f \notin Change[c].fields
           \/ \E c \in H :
                  /\ f \in Change[c].fields
                  /\ record[f] = [clock |-> Change[c].clock, value |-> c]
                  /\ \A e \in H : f \in Change[e].fields => Change[e].clock =< Change[c].clock

LEMMA ApplyRecords ==
  ASSUME NEW H \in SUBSET DOMAIN Change, NEW c \in DOMAIN Change, NEW record,
         RecordOf(record, H)
  PROVE  RecordOf(Apply(record, c), H \cup {c})
  <1> DEFINE next == Apply(record, c)
  <1>1. next = [f \in Field |-> next[f]]
    BY DEF Apply
  <1>2. ASSUME NEW f \in Field, f \notin Change[c].fields
        PROVE  next[f] = record[f]
    BY <1>2 DEF Apply
  <1>3. ASSUME NEW f \in Field, f \in Change[c].fields, Wins(c, record[f])
        PROVE  next[f] = [clock |-> Change[c].clock, value |-> c]
    BY <1>3 DEF Apply
  <1>4. ASSUME NEW f \in Field, f \in Change[c].fields, ~Wins(c, record[f])
        PROVE  next[f] = record[f]
    BY <1>4 DEF Apply
  <1> HIDE DEF next
  <1>5. ASSUME NEW f \in Field
        PROVE  \/ next[f] = Unset /\ \A e \in H \cup {c} : f \notin Change[e].fields
               \/ \E w \in H \cup {c} :
                      /\ f \in Change[w].fields
                      /\ next[f] = [clock |-> Change[w].clock, value |-> w]
                      /\ \A e \in H \cup {c} :
                             f \in Change[e].fields => Change[e].clock =< Change[w].clock
    <2>1. CASE f \notin Change[c].fields
      BY <1>2, <2>1 DEF RecordOf
    <2>2. CASE f \in Change[c].fields /\ Wins(c, record[f])
      <3>1. \A e \in H : f \in Change[e].fields => Change[e].clock =< Change[c].clock
        BY <2>2, ClocksAreNatural DEF RecordOf, Wins
      <3> QED  BY <1>3, <2>2, <3>1, ClocksAreNatural
    <2>3. CASE f \in Change[c].fields /\ ~Wins(c, record[f])
      <3>1. record[f] # Unset
        BY <2>3, ClocksAreNatural DEF Wins, Unset
      <3>2. PICK w \in H : /\ f \in Change[w].fields
                           /\ record[f] = [clock |-> Change[w].clock, value |-> w]
                           /\ \A e \in H : f \in Change[e].fields =>
                                               Change[e].clock =< Change[w].clock
        BY <3>1 DEF RecordOf
      <3>3. Change[c].clock =< Change[w].clock
        BY <2>3, <3>2, ClocksAreNatural DEF Wins
      <3> QED  BY <1>4, <2>3, <3>2, <3>3
    <2> QED  BY <2>1, <2>2, <2>3
  <1> QED  BY <1>1, <1>5 DEF RecordOf, next

LEMMA AfterExists ==
  ASSUME NEW record, NEW batch, NEW N \in Nat
  PROVE  \E after : after = [n \in 0..N |-> IF n = 0 THEN record
                                            ELSE Apply(after[n - 1], batch[n])]
  <1> DEFINE Is(g, m) == g = [n \in 0..m |-> IF n = 0 THEN record
                                             ELSE Apply(g[n - 1], batch[n])]
             S == {m \in Nat : \E g : Is(g, m)}
  <1>1. 0 \in S
    <2> DEFINE g == [n \in 0..0 |-> record]
    <2>1. Is(g, 0)
      OBVIOUS
    <2> HIDE DEF g
    <2> QED  BY <2>1
  <1>2. ASSUME NEW m \in Nat, m \in S PROVE m + 1 \in S
    <2>1. PICK g : Is(g, m)
      BY <1>2
    <2> DEFINE last == Apply(g[m], batch[m + 1])
               h == [n \in 0..(m + 1) |-> IF n = m + 1 THEN last ELSE g[n]]
    <2> HIDE DEF last
    <2>2. \A n \in 0..m : h[n] = g[n]
      OBVIOUS
    <2>3. \A n \in 0..(m + 1) : h[n] = IF n = 0 THEN record ELSE Apply(h[n - 1], batch[n])
      <3> TAKE n \in 0..(m + 1)
      <3>1. CASE n = m + 1
        <4>1. h[n] = last /\ h[n - 1] = g[m] /\ n # 0
          BY <3>1, <2>2
        <4> QED  BY <4>1, <3>1 DEF last
      <3>2. CASE n # m + 1
        <4>1. n \in 0..m /\ h[n] = g[n]
          BY <3>2
        <4>2. g[n] = IF n = 0 THEN record ELSE Apply(g[n - 1], batch[n])
          BY <2>1, <4>1
        <4>3. n # 0 => h[n - 1] = g[n - 1]
          BY <4>1, <2>2
        <4> HIDE DEF h
        <4> QED  BY <4>1, <4>2, <4>3
      <3> QED  BY <3>1, <3>2
    <2>4. h = [n \in 0..(m + 1) |-> h[n]]
      OBVIOUS
    <2> HIDE DEF h
    <2>5. Is(h, m + 1)
      BY <2>3, <2>4
    <2> QED  BY <2>5
  <1> HIDE DEF S
  <1>3. Nat \subseteq S
    BY <1>1, <1>2, SetInduction
  <1> QED  BY <1>3 DEF S

LEMMA ApplyAllRecords ==
  ASSUME NEW H \in SUBSET DOMAIN Change, NEW batch \in Seq(DOMAIN Change), NEW record,
         RecordOf(record, H)
  PROVE  RecordOf(ApplyAll(record, batch), H \cup ToSet(batch))
  <1> DEFINE after == CHOOSE after : after = [n \in 0..Len(batch) |->
                          IF n = 0 THEN record ELSE Apply(after[n - 1], batch[n])]
             Seen(n) == H \cup {batch[i] : i \in 1..n}
             S == {n \in Nat : n =< Len(batch) => RecordOf(after[n], Seen(n))}
  <1>1. after = [n \in 0..Len(batch) |->
                     IF n = 0 THEN record ELSE Apply(after[n - 1], batch[n])]
    BY AfterExists
  <1>2. ApplyAll(record, batch) = after[Len(batch)]
    BY DEF ApplyAll
  <1> HIDE DEF after
  <1>3. 0 \in S
    <2>1. after[0] = record /\ Seen(0) = H
      BY <1>1
    <2> QED  BY <2>1
  <1>4. ASSUME NEW n \in Nat, n \in S PROVE n + 1 \in S
    <2>1. SUFFICES ASSUME n + 1 =< Len(batch)
                   PROVE  RecordOf(after[n + 1], Seen(n + 1))
      OBVIOUS
    <2>2. after[n + 1] = Apply(after[n], batch[n + 1])
      BY <1>1, <2>1
    <2>3. RecordOf(after[n], Seen(n))
      BY <1>4, <2>1
    <2>4. Seen(n) \subseteq DOMAIN Change /\ batch[n + 1] \in DOMAIN Change
      BY <2>1
    <2>5. Seen(n + 1) = Seen(n) \cup {batch[n + 1]}
      OBVIOUS
    <2> HIDE DEF Seen
    <2> QED  BY <2>2, <2>3, <2>4, <2>5, ApplyRecords
  <1> HIDE DEF S
  <1>5. Len(batch) \in S
    BY <1>3, <1>4, SetInduction
  <1>6. RecordOf(after[Len(batch)], Seen(Len(batch)))
    BY <1>5 DEF S
  <1>7. Seen(Len(batch)) = H \cup ToSet(batch)
    BY DEF ToSet
  <1> HIDE DEF Seen
  <1> QED  BY <1>2, <1>6, <1>7

----------------------------------------------------------------------------
(* flush() takes out of the queue what it has sent, and nothing else. *)

LEMMA ToSetOfSequence ==
  ASSUME NEW C
  PROVE  /\ <<>> \in Seq(C) /\ ToSet(<<>>) = {}
         /\ \A s \in Seq(C) : ToSet(s) = {s[i] : i \in 1..Len(s)} /\ ToSet(s) \subseteq C
         /\ \A s \in Seq(C), c \in C : /\ Append(s, c) \in Seq(C)
                                       /\ ToSet(Append(s, c)) = ToSet(s) \cup {c}
         /\ \A s, t \in Seq(C) : /\ s \o t \in Seq(C)
                                 /\ ToSet(s \o t) = ToSet(s) \cup ToSet(t)
  <1>1. <<>> \in Seq(C) /\ ToSet(<<>>) = {}
    BY DEF ToSet
  <1>2. \A s \in Seq(C) : ToSet(s) = {s[i] : i \in 1..Len(s)} /\ ToSet(s) \subseteq C
    BY DEF ToSet
  <1>3. ASSUME NEW s \in Seq(C), NEW c \in C
        PROVE  Append(s, c) \in Seq(C) /\ ToSet(Append(s, c)) = ToSet(s) \cup {c}
    <2> DEFINE t == Append(s, c)
    <2>1. /\ t \in Seq(C) /\ Len(t) = Len(s) + 1 /\ t[Len(s) + 1] = c
          /\ \A i \in 1..Len(s) : t[i] = s[i]
      OBVIOUS
    <2> HIDE DEF t
    <2>2. {t[i] : i \in 1..Len(t)} = {s[i] : i \in 1..Len(s)} \cup {c}
      BY <2>1
    <2> QED  BY <1>2, <2>1, <2>2 DEF t
  <1>4. ASSUME NEW s \in Seq(C), NEW t \in Seq(C)
        PROVE  s \o t \in Seq(C) /\ ToSet(s \o t) = ToSet(s) \cup ToSet(t)
    <2> DEFINE u == s \o t
    <2>1. /\ u \in Seq(C) /\ Len(u) = Len(s) + Len(t) /\ Len(s) \in Nat /\ Len(t) \in Nat
          /\ \A i \in 1..Len(s) : u[i] = s[i]
          /\ \A i \in 1..Len(t) : u[Len(s) + i] = t[i]
      OBVIOUS
    <2> HIDE DEF u
    <2>2. \A i \in 1..Len(u) : u[i] \in {s[j] : j \in 1..Len(s)} \cup {t[j] : j \in 1..Len(t)}
      <3> TAKE i \in 1..Len(u)
      <3>1. CASE i =< Len(s)
        BY <2>1, <3>1
      <3>2. CASE i > Len(s)
        <4>1. i - Len(s) \in 1..Len(t) /\ Len(s) + (i - Len(s)) = i
          BY <2>1, <3>2
        <4>2. u[Len(s) + (i - Len(s))] = t[i - Len(s)]
          BY <2>1, <4>1
        <4> QED  BY <4>1, <4>2
      <3> QED  BY <3>1, <3>2
    <2>3. \A i \in 1..Len(s) : i \in 1..Len(u)
      BY <2>1
    <2>4. \A i \in 1..Len(t) : Len(s) + i \in 1..Len(u)
      BY <2>1
    <2>5. {u[i] : i \in 1..Len(u)} = {s[j] : j \in 1..Len(s)} \cup {t[j] : j \in 1..Len(t)}
      <3>1. \A j \in 1..Len(s) : s[j] \in {u[i] : i \in 1..Len(u)}
        BY <2>1, <2>3
      <3>2. \A j \in 1..Len(t) : t[j] \in {u[i] : i \in 1..Len(u)}
        BY <2>1, <2>4
      <3> QED  BY <2>2, <3>1, <3>2
    <2> QED  BY <1>2, <2>1, <2>5 DEF u
  <1> QED  BY <1>1, <1>2, <1>3, <1>4

IsKept(kept, queue, sent, N) ==
    kept = [n \in 0..N |-> IF n = 0 THEN <<>>
                           ELSE IF queue[n] \in ToSet(sent) THEN kept[n - 1]
                           ELSE Append(kept[n - 1], queue[n])]

LEMMA KeptExists ==
  ASSUME NEW queue, NEW sent, NEW N \in Nat
  PROVE  \E kept : IsKept(kept, queue, sent, N)
  <1> DEFINE Keep(s, c) == IF c \in ToSet(sent) THEN s ELSE Append(s, c)
             Is(g, m) == g = [n \in 0..m |-> IF n = 0 THEN <<>> ELSE Keep(g[n - 1], queue[n])]
             S == {m \in Nat : \E g : Is(g, m)}
  <1> HIDE DEF Keep
  <1>1. 0 \in S
    <2> DEFINE g == [n \in 0..0 |-> <<>>]
    <2>1. Is(g, 0)
      OBVIOUS
    <2> HIDE DEF g
    <2> QED  BY <2>1
  <1>2. ASSUME NEW m \in Nat, m \in S PROVE m + 1 \in S
    <2>1. PICK g : Is(g, m)
      BY <1>2
    <2> DEFINE last == Keep(g[m], queue[m + 1])
               h == [n \in 0..(m + 1) |-> IF n = m + 1 THEN last ELSE g[n]]
    <2> HIDE DEF last
    <2>2. \A n \in 0..m : h[n] = g[n]
      OBVIOUS
    <2>3. \A n \in 0..(m + 1) : h[n] = IF n = 0 THEN <<>> ELSE Keep(h[n - 1], queue[n])
      <3> TAKE n \in 0..(m + 1)
      <3>1. CASE n = m + 1
        <4>1. h[n] = last /\ h[n - 1] = g[m] /\ n # 0
          BY <3>1, <2>2
        <4> QED  BY <4>1, <3>1 DEF last
      <3>2. CASE n # m + 1
        <4>1. n \in 0..m /\ h[n] = g[n]
          BY <3>2
        <4>2. g[n] = IF n = 0 THEN <<>> ELSE Keep(g[n - 1], queue[n])
          BY <2>1, <4>1
        <4>3. n # 0 => h[n - 1] = g[n - 1]
          BY <4>1, <2>2
        <4> HIDE DEF h
        <4> QED  BY <4>1, <4>2, <4>3
      <3> QED  BY <3>1, <3>2
    <2>4. h = [n \in 0..(m + 1) |-> h[n]]
      OBVIOUS
    <2> HIDE DEF h
    <2>5. Is(h, m + 1)
      BY <2>3, <2>4
    <2> QED  BY <2>5
  <1> HIDE DEF S
  <1>3. Nat \subseteq S
    BY <1>1, <1>2, SetInduction
  <1> QED  BY <1>3 DEF S, Keep, IsKept

LEMMA UnsentIsTheRest ==
  ASSUME NEW C, NEW d \in Device, NEW sent, pending[d] \in Seq(C)
  PROVE  /\ Unsent(d, sent) \in Seq(C)
         /\ ToSet(Unsent(d, sent)) = ToSet(pending[d]) \ ToSet(sent)
  <1> DEFINE queue == pending[d]
             kept == CHOOSE kept : IsKept(kept, queue, sent, Len(queue))
             Rest(n) == {queue[i] : i \in 1..n} \ ToSet(sent)
             S == {n \in Nat : n =< Len(queue) => /\ kept[n] \in Seq(C)
                                                  /\ ToSet(kept[n]) = Rest(n)}
  <1>0. Len(queue) \in Nat
    OBVIOUS
  <1>1. \A n \in 0..Len(queue) : kept[n] = IF n = 0 THEN <<>>
                                          ELSE IF queue[n] \in ToSet(sent) THEN kept[n - 1]
                                          ELSE Append(kept[n - 1], queue[n])
    <2>1. IsKept(kept, queue, sent, Len(queue))
      <3> HIDE DEF queue
      <3> QED  BY <1>0, KeptExists
    <2> HIDE DEF kept, queue
    <2> QED  BY <2>1 DEF IsKept
  <1>2. Unsent(d, sent) = kept[Len(queue)]
    BY DEF Unsent, IsKept
  <1>3. queue \in Seq(C)
    OBVIOUS
  <1> HIDE DEF kept, queue
  <1>4. 0 \in S
    <2>1. kept[0] = <<>>
      BY <1>1, <1>3
    <2>2. Rest(0) = {}
      OBVIOUS
    <2>3. <<>> \in Seq(C) /\ ToSet(<<>>) = {}
      BY ToSetOfSequence
    <2> HIDE DEF Rest
    <2> QED  BY <2>1, <2>2, <2>3
  <1>5. ASSUME NEW n \in Nat, n \in S PROVE n + 1 \in S
    <2>1. SUFFICES ASSUME n + 1 =< Len(queue)
                   PROVE  kept[n + 1] \in Seq(C) /\ ToSet(kept[n + 1]) = Rest(n + 1)
      OBVIOUS
    <2>2. kept[n] \in Seq(C) /\ ToSet(kept[n]) = Rest(n) /\ queue[n + 1] \in C
      BY <1>3, <1>5, <2>1
    <2>3. kept[n + 1] = IF queue[n + 1] \in ToSet(sent) THEN kept[n]
                        ELSE Append(kept[n], queue[n + 1])
      BY <1>1, <1>3, <2>1
    <2>4. {queue[i] : i \in 1..(n + 1)} = {queue[i] : i \in 1..n} \cup {queue[n + 1]}
      OBVIOUS
    <2>5. CASE queue[n + 1] \in ToSet(sent)
      BY <2>2, <2>3, <2>4, <2>5
    <2>6. CASE queue[n + 1] \notin ToSet(sent)
      <3>1. /\ Append(kept[n], queue[n + 1]) \in Seq(C)
            /\ ToSet(Append(kept[n], queue[n + 1])) = ToSet(kept[n]) \cup {queue[n + 1]}
        BY <2>2, ToSetOfSequence
      <3> QED  BY <2>2, <2>3, <2>4, <2>6, <3>1
    <2> QED  BY <2>5, <2>6
  <1> HIDE DEF S
  <1>6. Len(queue) \in S
    BY <1>3, <1>4, <1>5, SetInduction
  <1>7. kept[Len(queue)] \in Seq(C) /\ ToSet(kept[Len(queue)]) = Rest(Len(queue))
    BY <1>3, <1>6 DEF S
  <1>8. Rest(Len(queue)) = ToSet(queue) \ ToSet(sent)
    BY <1>3 DEF ToSet
  <1> QED  BY <1>2, <1>7, <1>8 DEF queue
----------------------------------------------------------------------------
(* The inductive invariant. *)

SyncTypes ==
    /\ made \subseteq DOMAIN Change
    /\ log \in Seq(DOMAIN Change)
    /\ checkpoint \in [Device -> Nat]
    /\ applied \in [Device -> Seq(DOMAIN Change)]
    /\ pending \in [Device -> Seq(DOMAIN Change)]
    /\ records = [d \in Device |-> records[d]]
    /\ pulls \in [Device -> [Call -> [since : Int, next : Int]]]
    /\ pushes \in [Device -> [Call -> [changes : Seq(DOMAIN Change), stored : BOOLEAN]]]

\* A pull has asked for a position the device has reached, and its answer, if it
\* has one, ends in the log.
PullsFollow ==
    \A d \in Device, k \in Call : pulls[d][k] # NoPull =>
        /\ pulls[d][k].since \in 0..checkpoint[d]
        /\ pulls[d][k].next = -1 \/ pulls[d][k].next \in pulls[d][k].since..Len(log)

\* A device pushes changes of its own, and a push that is stored is in the log.
PushesOwn ==
    /\ ToSet(log) \subseteq made
    /\ \A d \in Device : ToSet(pending[d]) \subseteq {c \in made : Change[c].by = d}
    /\ \A d \in Device, k \in Call :
           /\ ToSet(pushes[d][k].changes) \subseteq {c \in made : Change[c].by = d}
           /\ pushes[d][k].stored => ToSet(pushes[d][k].changes) \subseteq ToSet(log)

AppliedFromLog ==
    \A d \in Device : /\ checkpoint[d] =< Len(log)
                      /\ ToSet(applied[d]) \subseteq ToSet(log)
                      /\ IsInjective(applied[d])

\* NothingSkipped and NothingLost, with the sets of what the sequences hold.
AppliedUpTo ==
    \A d \in Device : \A i \in 1..checkpoint[d] :
        Change[log[i]].partition \in Granted[d] => log[i] \in ToSet(applied[d])

QueuedOrStored ==
    \A c \in made : Change[c].by \in Device /\ c \in ToSet(pending[Change[c].by]) \cup ToSet(log)

\* What a device has heard of: what it has applied, and its own changes.
Heard(d) == ToSet(applied[d]) \cup {c \in made : Change[c].by = d}

RecordsFollow == \A d \in Device : RecordOf(records[d], Heard(d))

SyncInv ==
    /\ SyncTypes /\ PullsFollow /\ PushesOwn /\ AppliedFromLog
    /\ AppliedUpTo /\ QueuedOrStored /\ RecordsFollow

LEMMA SyncInit == Init => SyncInv
  <1> SUFFICES ASSUME Init PROVE SyncInv
    OBVIOUS
  <1>1. <<>> \in Seq(DOMAIN Change) /\ ToSet(<<>>) = {}
    BY ToSetOfSequence
  <1>2. SyncTypes
    BY <1>1 DEF Init, SyncTypes, NoPull, NoPush
  <1>3. PullsFollow /\ PushesOwn
    BY <1>1 DEF Init, PullsFollow, PushesOwn, NoPush
  <1>4. AppliedFromLog /\ AppliedUpTo /\ QueuedOrStored
    BY <1>1 DEF Init, AppliedFromLog, AppliedUpTo, QueuedOrStored, IsInjective
  <1>5. RecordsFollow
    BY <1>1 DEF Init, RecordsFollow, RecordOf, Heard
  <1> QED  BY <1>2, <1>3, <1>4, <1>5 DEF SyncInv

LEMMA ApplyLocalKeeps ==
  ASSUME NEW d \in Device, NEW c \in DOMAIN Change, SyncInv, ApplyLocal(d, c)
  PROVE  SyncInv'
  <1> USE DEF SyncInv
  <1>1. /\ pending[d] \in Seq(DOMAIN Change)
        /\ pending' = [pending EXCEPT ![d] = Append(pending[d], c)]
        /\ pending \in [Device -> Seq(DOMAIN Change)]
    BY DEF SyncTypes, ApplyLocal
  <1>2. /\ Append(pending[d], c) \in Seq(DOMAIN Change)
        /\ ToSet(Append(pending[d], c)) = ToSet(pending[d]) \cup {c}
    BY <1>1, ToSetOfSequence
  <1>3. SyncTypes'
    <2>1. pending' \in [Device -> Seq(DOMAIN Change)] /\ made' \subseteq DOMAIN Change
      BY <1>1, <1>2 DEF SyncTypes, ApplyLocal
    <2> QED  BY <2>1 DEF SyncTypes, ApplyLocal
  <1>4. \A e \in Device : ToSet(pending'[e]) = IF e = d THEN ToSet(pending[d]) \cup {c}
                                               ELSE ToSet(pending[e])
    BY <1>1, <1>2
  <1>5. PullsFollow' /\ AppliedFromLog' /\ AppliedUpTo'
    BY DEF ApplyLocal, PullsFollow, AppliedFromLog, AppliedUpTo
  <1>6. PushesOwn'
    BY <1>4 DEF ApplyLocal, PushesOwn
  <1>7. QueuedOrStored'
    BY <1>4 DEF ApplyLocal, QueuedOrStored
  <1>8. ASSUME NEW e \in Device PROVE RecordOf(records'[e], Heard(e)')
    <2>1. CASE e = d
      <3>1. Heard(d) \subseteq DOMAIN Change
        BY ToSetOfSequence DEF Heard, SyncTypes
      <3>2. Heard(d)' = Heard(d) \cup {c}
        BY DEF Heard, ApplyLocal
      <3>3. records'[d] = Apply(records[d], c)
        BY DEF SyncTypes, ApplyLocal
      <3>4. RecordOf(Apply(records[d], c), Heard(d) \cup {c})
        BY <3>1, ApplyRecords DEF RecordsFollow
      <3> QED  BY <2>1, <3>2, <3>3, <3>4 DEF RecordOf
    <2>2. CASE e # d
      <3>1. Heard(e)' = Heard(e) /\ records'[e] = records[e]
        BY <2>2 DEF Heard, ApplyLocal, SyncTypes
      <3> QED  BY <3>1 DEF RecordsFollow, RecordOf
    <2> QED  BY <2>1, <2>2
  <1>9. RecordsFollow'
    BY <1>8 DEF RecordsFollow, RecordOf
  <1> QED  BY <1>3, <1>5, <1>6, <1>7, <1>9

\* A step that changes only the calls that are suspended.
LEMMA CallsKeep ==
  ASSUME SyncInv, SyncTypes', PullsFollow', PushesOwn', UNCHANGED <<replica, pending, log, made>>
  PROVE  SyncInv'
  BY DEF SyncInv, replica, AppliedFromLog, AppliedUpTo, QueuedOrStored, RecordsFollow,
         RecordOf, Heard

LEMMA PullKeeps ==
  ASSUME NEW d \in Device, NEW k \in Call, SyncInv,
         NEW pull \in [since : Int, next : Int], pulls' = [pulls EXCEPT ![d][k] = pull],
         pull # NoPull => /\ pull.since \in 0..checkpoint[d]
                          /\ pull.next = -1 \/ pull.next \in pull.since..Len(log),
         UNCHANGED <<replica, pending, pushes, log, made>>
  PROVE  SyncInv'
  <1> USE DEF SyncInv
  <1>1. \A e \in Device, j \in Call :
            pulls'[e][j] = IF e = d /\ j = k THEN pull ELSE pulls[e][j]
    BY DEF SyncTypes
  <1>2. SyncTypes'
    BY DEF SyncTypes, replica
  <1>3. PullsFollow'
    BY <1>1 DEF PullsFollow, replica
  <1>4. PushesOwn'
    BY DEF PushesOwn, replica
  <1> QED  BY <1>2, <1>3, <1>4, CallsKeep DEF replica

LEMMA SyncKeeps ==
  ASSUME NEW d \in Device, NEW k \in Call, SyncInv, Sync(d, k)
  PROVE  SyncInv'
  <1> DEFINE pull == [since |-> Since(d), next |-> -1]
  <1>1. pull \in [since : Int, next : Int] /\ pull.since \in 0..checkpoint[d] /\ pull.next = -1
    BY DEF SyncInv, SyncTypes, Since
  <1>2. pulls' = [pulls EXCEPT ![d][k] = pull]
    BY DEF Sync
  <1> HIDE DEF pull
  <1> QED  BY <1>1, <1>2, PullKeeps DEF Sync

LEMMA PullAnsweredKeeps ==
  ASSUME NEW d \in Device, NEW k \in Call, SyncInv, PullAnswered(d, k)
  PROVE  SyncInv'
  <1>1. PICK next \in pulls[d][k].since..Len(log) :
            pulls' = [pulls EXCEPT ![d][k].next = next]
    BY DEF PullAnswered
  <1> DEFINE pull == [pulls[d][k] EXCEPT !.next = next]
  <1>2. pulls[d][k].since \in 0..checkpoint[d] /\ checkpoint[d] \in Nat
    BY DEF SyncInv, SyncTypes, PullAnswered, PullsFollow
  <1>3. /\ pull \in [since : Int, next : Int]
        /\ pull.since = pulls[d][k].since /\ pull.next = next
    <2>1. pulls[d][k] \in [since : Int, next : Int] /\ Len(log) \in Nat
      BY DEF SyncInv, SyncTypes
    <2>2. next \in Int
      BY <1>2, <2>1
    <2> QED  BY <2>1, <2>2
  <1>4. pulls' = [pulls EXCEPT ![d][k] = pull]
    BY <1>1 DEF SyncInv, SyncTypes
  <1> HIDE DEF pull
  <1> QED  BY <1>2, <1>3, <1>4, PullKeeps DEF PullAnswered

LEMMA SyncFailsKeeps ==
  ASSUME NEW d \in Device, NEW k \in Call, SyncInv, SyncFails(d, k)
  PROVE  SyncInv'
  <1>1. NoPull \in [since : Int, next : Int] /\ pulls' = [pulls EXCEPT ![d][k] = NoPull]
    BY DEF SyncFails, NoPull
  <1> QED  BY <1>1, PullKeeps DEF SyncFails

LEMMA PushKeeps ==
  ASSUME NEW d \in Device, NEW k \in Call, SyncInv,
         NEW push \in [changes : Seq(DOMAIN Change), stored : BOOLEAN],
         pushes' = [pushes EXCEPT ![d][k] = push], ~push.stored,
         ToSet(push.changes) \subseteq {c \in made : Change[c].by = d},
         UNCHANGED <<replica, pending, pulls, log, made>>
  PROVE  SyncInv'
  <1> USE DEF SyncInv
  <1>1. \A e \in Device, j \in Call :
            pushes'[e][j] = IF e = d /\ j = k THEN push ELSE pushes[e][j]
    BY DEF SyncTypes
  <1>2. SyncTypes'
    BY DEF SyncTypes, replica
  <1>3. PullsFollow'
    BY DEF PullsFollow, replica
  <1>4. PushesOwn'
    BY <1>1 DEF PushesOwn
  <1> QED  BY <1>2, <1>3, <1>4, CallsKeep DEF replica

LEMMA FlushKeeps ==
  ASSUME NEW d \in Device, NEW k \in Call, SyncInv, Flush(d, k)
  PROVE  SyncInv'
  <1> DEFINE push == [changes |-> pending[d], stored |-> FALSE]
  <1>1. /\ push \in [changes : Seq(DOMAIN Change), stored : BOOLEAN]
        /\ push.changes = pending[d] /\ ~push.stored
    BY DEF SyncInv, SyncTypes
  <1>2. pushes' = [pushes EXCEPT ![d][k] = push]
    BY DEF Flush
  <1>3. ToSet(pending[d]) \subseteq {c \in made : Change[c].by = d}
    BY DEF SyncInv, PushesOwn
  <1> HIDE DEF push
  <1> QED  BY <1>1, <1>2, <1>3, PushKeeps DEF Flush

LEMMA FlushFailsKeeps ==
  ASSUME NEW d \in Device, NEW k \in Call, SyncInv, FlushFails(d, k)
  PROVE  SyncInv'
  <1>1. <<>> \in Seq(DOMAIN Change) /\ ToSet(<<>>) = {}
    BY ToSetOfSequence
  <1>2. /\ NoPush \in [changes : Seq(DOMAIN Change), stored : BOOLEAN]
        /\ ToSet(NoPush.changes) = {} /\ ~NoPush.stored
    BY <1>1 DEF NoPush
  <1> QED  BY <1>2, PushKeeps DEF FlushFails

LEMMA PushStoredKeeps ==
  ASSUME NEW d \in Device, NEW k \in Call, SyncInv, PushStored(d, k)
  PROVE  SyncInv'
  <1> USE DEF SyncInv
  <1> DEFINE sent == pushes[d][k].changes
  <1>1. sent \in Seq(DOMAIN Change) /\ log \in Seq(DOMAIN Change)
    BY DEF SyncTypes
  <1>2. log' = log \o sent
    BY DEF PushStored
  <1>3. ToSet(sent) \subseteq made
    BY DEF PushesOwn
  <1> HIDE DEF sent
  <1>4. /\ log' \in Seq(DOMAIN Change)
        /\ ToSet(log') = ToSet(log) \cup ToSet(sent)
    BY <1>1, <1>2, ToSetOfSequence
  <1>5. /\ Len(log') >= Len(log) /\ Len(log) \in Nat /\ Len(log') \in Nat
        /\ \A i \in 1..Len(log) : log'[i] = log[i]
    BY <1>1, <1>2
  <1>6. SyncTypes'
    <2> DEFINE Push == [changes : Seq(DOMAIN Change), stored : BOOLEAN]
    <2>1. \A C, p : p \in [changes : C, stored : BOOLEAN] =>
                        [p EXCEPT !.stored = TRUE] \in [changes : C, stored : BOOLEAN]
      OBVIOUS
    <2>2. pushes \in [Device -> [Call -> Push]]
      BY DEF SyncTypes
    <2>3. [pushes[d][k] EXCEPT !.stored = TRUE] \in Push
      BY <2>1, <2>2
    <2>4. pushes' = [pushes EXCEPT ![d][k] = [pushes[d][k] EXCEPT !.stored = TRUE]]
      BY <2>2 DEF PushStored
    <2>5. pushes' \in [Device -> [Call -> Push]]
      <3> HIDE DEF Push
      <3> QED  BY <2>2, <2>3, <2>4
    <2> QED  BY <1>4, <2>5 DEF SyncTypes, PushStored, replica
  <1>7. PullsFollow'
    <2>1. pulls' = pulls /\ checkpoint' = checkpoint
      BY DEF PushStored, replica
    <2>2. SUFFICES ASSUME NEW e \in Device, NEW j \in Call, pulls[e][j] # NoPull
                   PROVE  /\ pulls[e][j].since \in 0..checkpoint[e]
                          /\ \/ pulls[e][j].next = -1
                             \/ pulls[e][j].next \in pulls[e][j].since..Len(log')
      BY <2>1 DEF PullsFollow
    <2>3. /\ pulls[e][j].since \in 0..checkpoint[e] /\ checkpoint[e] \in Nat
          /\ pulls[e][j].next = -1 \/ pulls[e][j].next \in pulls[e][j].since..Len(log)
      BY <2>2 DEF PullsFollow, SyncTypes
    <2> QED  BY <1>5, <2>3
  <1>8. PushesOwn'
    <2>1. \A e \in Device, j \in Call :
              /\ pushes'[e][j].changes = pushes[e][j].changes
              /\ pushes'[e][j].stored => pushes[e][j].stored \/ (e = d /\ j = k)
      <3> DEFINE push == [pushes[d][k] EXCEPT !.stored = TRUE]
                 Push == [changes : Seq(DOMAIN Change), stored : BOOLEAN]
      <3>1. pushes \in [Device -> [Call -> Push]]
        BY DEF SyncTypes
      <3> HIDE DEF Push
      <3>2. pushes' = [pushes EXCEPT ![d][k] = push]
        BY <3>1 DEF PushStored
      <3>3. push.changes = pushes[d][k].changes
        BY <3>1 DEF Push
      <3> HIDE DEF push
      <3>4. \A e \in Device, j \in Call :
                pushes'[e][j] = IF e = d /\ j = k THEN push ELSE pushes[e][j]
        BY <3>1, <3>2
      <3> QED  BY <3>3, <3>4
    <2>2. made' = made /\ pending' = pending
      BY DEF PushStored
    <2>3. ToSet(log') \subseteq made
      BY <1>3, <1>4 DEF PushesOwn
    <2>4. \A e \in Device, j \in Call :
              pushes'[e][j].stored => ToSet(pushes'[e][j].changes) \subseteq ToSet(log')
      BY <1>4, <2>1 DEF PushesOwn, sent
    <2> QED  BY <2>1, <2>2, <2>3, <2>4 DEF PushesOwn
  <1>9. AppliedFromLog'
    BY <1>4, <1>5 DEF AppliedFromLog, SyncTypes, PushStored, replica
  <1>10. AppliedUpTo'
    <2>1. \A e \in Device : checkpoint[e] \in Nat /\ checkpoint[e] =< Len(log)
      BY DEF SyncTypes, AppliedFromLog
    <2> QED  BY <1>5, <2>1 DEF AppliedUpTo, PushStored, replica
  <1>11. QueuedOrStored'
    BY <1>4 DEF QueuedOrStored, PushStored
  <1>12. RecordsFollow'
    BY DEF RecordsFollow, RecordOf, Heard, PushStored, replica
  <1> QED  BY <1>6, <1>7, <1>8, <1>9, <1>10, <1>11, <1>12

LEMMA FlushReturnsKeeps ==
  ASSUME NEW d \in Device, NEW k \in Call, SyncInv, FlushReturns(d, k)
  PROVE  SyncInv'
  <1> USE DEF SyncInv
  <1> DEFINE sent == pushes[d][k].changes
             rest == Unsent(d, sent)
  <1>1. /\ rest \in Seq(DOMAIN Change)
        /\ ToSet(rest) = ToSet(pending[d]) \ ToSet(sent)
    BY UnsentIsTheRest DEF SyncTypes
  <1>2. pending' = [pending EXCEPT ![d] = rest] /\ pushes' = [pushes EXCEPT ![d][k] = NoPush]
    BY DEF FlushReturns
  <1>3. ToSet(sent) \subseteq ToSet(log)
    BY DEF FlushReturns, PushesOwn
  <1> HIDE DEF rest, sent
  <1>4. <<>> \in Seq(DOMAIN Change) /\ ToSet(<<>>) = {}
    BY ToSetOfSequence
  <1>5. SyncTypes'
    BY <1>1, <1>2, <1>4 DEF SyncTypes, FlushReturns, replica, NoPush
  <1>6. \A e \in Device : ToSet(pending'[e]) = IF e = d THEN ToSet(pending[d]) \ ToSet(sent)
                                               ELSE ToSet(pending[e])
    BY <1>1, <1>2 DEF SyncTypes
  <1>7. PullsFollow' /\ AppliedFromLog' /\ AppliedUpTo'
    BY DEF FlushReturns, replica, PullsFollow, AppliedFromLog, AppliedUpTo
  <1>8. PushesOwn'
    <2>1. \A e \in Device, j \in Call :
              pushes'[e][j] = IF e = d /\ j = k THEN NoPush ELSE pushes[e][j]
      BY <1>2 DEF SyncTypes
    <2>2. NoPush.changes = <<>> /\ ~NoPush.stored
      BY DEF NoPush
    <2>3. made' = made /\ log' = log
      BY DEF FlushReturns, replica
    <2> QED  BY <1>4, <1>6, <2>1, <2>2, <2>3 DEF PushesOwn
  <1>9. QueuedOrStored'
    BY <1>3, <1>6 DEF FlushReturns, QueuedOrStored
  <1>10. RecordsFollow'
    BY DEF RecordsFollow, RecordOf, Heard, FlushReturns, replica
  <1> QED  BY <1>5, <1>7, <1>8, <1>9, <1>10

\* A batch holds each new change once.
LEMMA BatchIsWhatIsNew ==
  ASSUME NEW d \in Device, NEW answer, NEW batch \in Batches(d, answer),
         log \in Seq(DOMAIN Change), answer.since \in Nat, answer.next \in Int,
         answer.next =< Len(log)
  PROVE  /\ batch \in Seq(DOMAIN Change) /\ IsInjective(batch)
         /\ ToSet(batch) = {log[i] : i \in New(d, answer)}
  <1> DEFINE new == New(d, answer)
             size == Cardinality(new)
  <1>1. new \subseteq (answer.since + 1)..answer.next
    BY DEF New
  <1>2. \A i, j \in new : log[i] = log[j] => i = j
    <2>1. \A i, j \in new : i < j => log[i] # log[j]
      BY <1>1 DEF New, IsNew
    <2>2. \A i, j \in new : i < j \/ j < i \/ i = j
      BY <1>1
    <2> HIDE DEF new
    <2> QED  BY <2>1, <2>2
  <1>3. \A i \in new : i \in 1..Len(log) /\ log[i] \in DOMAIN Change
    BY <1>1
  <1>4. size \in Nat
    <2>1. IsFiniteSet((answer.since + 1)..answer.next)
      <3>1. answer.since + 1 \in Int /\ answer.next \in Int
        OBVIOUS
      <3> QED  BY <3>1, FS_Interval
    <2>2. IsFiniteSet(new)
      <3> HIDE DEF new
      <3> QED  BY <1>1, <2>1, FS_Subset
    <2> QED  BY <2>2, FS_CardinalityType
  <1>5. PICK order \in Bijection(1..size, new) : batch = [n \in 1..size |-> log[order[n]]]
    BY DEF Batches
  <1> HIDE DEF new, size
  <1>6. /\ order \in [1..size -> new]
        /\ \A m, n \in 1..size : order[m] = order[n] => m = n
        /\ \A i \in new : \E n \in 1..size : order[n] = i
    BY DEF Bijection, Injection, Surjection, IsInjective
  <1>7. batch \in [1..size -> DOMAIN Change] /\ DOMAIN batch = 1..size
    BY <1>3, <1>5, <1>6
  <1>8. batch \in Seq(DOMAIN Change)
    BY <1>4, <1>7
  <1>9. IsInjective(batch)
    <2>1. \A n \in 1..size : order[n] \in new /\ batch[n] = log[order[n]]
      BY <1>5, <1>6
    <2>2. \A m, n \in 1..size : batch[m] = batch[n] => m = n
      BY <1>2, <1>6, <2>1
    <2> QED  BY <1>7, <2>2 DEF IsInjective
  <1>10. ToSet(batch) = {log[i] : i \in new}
    <2>1. \A n \in 1..size : order[n] \in new /\ batch[n] = log[order[n]]
      BY <1>5, <1>6
    <2>2. ToSet(batch) = {batch[n] : n \in 1..size}
      BY <1>7 DEF ToSet
    <2> QED  BY <1>6, <2>1, <2>2
  <1> QED  BY <1>8, <1>9, <1>10 DEF new

\* What the answer holds and the device is granted, it has applied before or finds
\* in the batch: where a change occurs first in the answer, it is new.
LEMMA BatchCovers ==
  ASSUME NEW d \in Device, NEW answer, answer.since \in Nat, answer.next \in Int,
         NEW i \in (answer.since + 1)..answer.next,
         Change[log[i]].partition \in Granted[d]
  PROVE  log[i] \in ToSet(applied[d]) \cup {log[j] : j \in New(d, answer)}
  <1> DEFINE T == {j \in (answer.since + 1)..answer.next : log[j] = log[i]}
  <1>1. T \in SUBSET Nat /\ i \in T
    OBVIOUS
  <1>2. PICK j \in T : \A l \in T : j =< l
    BY <1>1, LeastExists
  <1>3. \A l \in (answer.since + 1)..(j - 1) : log[l] # log[j]
    BY <1>2
  <1>4. log[i] \notin ToSet(applied[d]) => j \in New(d, answer)
    BY <1>2, <1>3 DEF New, IsNew
  <1> QED  BY <1>2, <1>4

LEMMA ConcatInjective ==
  ASSUME NEW C, NEW s \in Seq(C), NEW t \in Seq(C), IsInjective(s), IsInjective(t),
         ToSet(s) \cap ToSet(t) = {}
  PROVE  IsInjective(s \o t)
  <1> DEFINE u == s \o t
  <1>1. /\ DOMAIN u = 1..(Len(s) + Len(t)) /\ Len(s) \in Nat /\ Len(t) \in Nat
        /\ DOMAIN s = 1..Len(s) /\ DOMAIN t = 1..Len(t)
        /\ \A n \in 1..Len(s) : u[n] = s[n]
        /\ \A n \in 1..Len(t) : u[Len(s) + n] = t[n]
    OBVIOUS
  <1> HIDE DEF u
  <1>2. ASSUME NEW n \in DOMAIN u, n > Len(s)
        PROVE  n - Len(s) \in 1..Len(t) /\ u[n] = t[n - Len(s)]
    <2>1. n - Len(s) \in 1..Len(t) /\ Len(s) + (n - Len(s)) = n
      BY <1>1, <1>2
    <2>2. u[Len(s) + (n - Len(s))] = t[n - Len(s)]
      BY <1>1, <2>1
    <2> QED  BY <2>1, <2>2
  <1>3. ASSUME NEW m \in DOMAIN u, NEW n \in DOMAIN u, u[m] = u[n] PROVE m = n
    <2>1. CASE m =< Len(s) /\ n =< Len(s)
      BY <1>1, <1>3, <2>1 DEF IsInjective
    <2>2. CASE m > Len(s) /\ n > Len(s)
      <3>1. t[m - Len(s)] = t[n - Len(s)]
        BY <1>2, <1>3, <2>2
      <3>2. m - Len(s) = n - Len(s)
        BY <1>1, <1>2, <2>2, <3>1 DEF IsInjective
      <3> QED  BY <1>1, <3>2
    <2>3. CASE m =< Len(s) /\ n > Len(s)
      <3>1. u[m] \in ToSet(s) /\ u[n] \in ToSet(t)
        BY <1>1, <1>2, <2>3 DEF ToSet
      <3> QED  BY <1>3, <3>1
    <2>4. CASE m > Len(s) /\ n =< Len(s)
      <3>1. u[m] \in ToSet(t) /\ u[n] \in ToSet(s)
        BY <1>1, <1>2, <2>4 DEF ToSet
      <3> QED  BY <1>3, <3>1
    <2> QED  BY <1>1, <2>1, <2>2, <2>3, <2>4
  <1> QED  BY <1>3 DEF IsInjective, u

LEMMA SyncReturnsKeeps ==
  ASSUME NEW d \in Device, NEW k \in Call, SyncInv, SyncReturns(d, k)
  PROVE  SyncInv' /\ checkpoint'[d] >= checkpoint[d]
  <1> USE DEF SyncInv
  <1> DEFINE answer == pulls[d][k]
  <1>1. /\ answer.since \in 0..checkpoint[d] /\ answer.next \in answer.since..Len(log)
        /\ answer.next >= checkpoint[d] /\ checkpoint[d] \in Nat /\ Len(log) \in Nat
    BY DEF SyncReturns, Accepts, PullsFollow, SyncTypes, NoPull
  <1>2. PICK batch \in Batches(d, answer) :
            /\ records' = [records EXCEPT ![d] = ApplyAll(records[d], batch)]
            /\ applied' = [applied EXCEPT ![d] = applied[d] \o batch]
    BY DEF SyncReturns, SyncTypes
  <1>3. /\ checkpoint' = [checkpoint EXCEPT ![d] = answer.next]
        /\ pulls' = [pulls EXCEPT ![d][k] = NoPull]
        /\ UNCHANGED <<pending, pushes, log, made>>
    BY DEF SyncReturns
  <1>4. log \in Seq(DOMAIN Change) /\ applied[d] \in Seq(DOMAIN Change)
    BY DEF SyncTypes
  <1>5. answer.since \in Nat /\ answer.next \in Nat
    BY <1>1
  <1> HIDE DEF answer
  <1>6. /\ batch \in Seq(DOMAIN Change) /\ IsInjective(batch)
        /\ ToSet(batch) = {log[i] : i \in New(d, answer)}
    BY <1>1, <1>4, <1>5, BatchIsWhatIsNew
  <1>7. /\ applied[d] \o batch \in Seq(DOMAIN Change)
        /\ ToSet(applied[d] \o batch) = ToSet(applied[d]) \cup ToSet(batch)
    BY <1>4, <1>6, ToSetOfSequence
  <1>8. ToSet(batch) \subseteq ToSet(log) /\ ToSet(batch) \cap ToSet(applied[d]) = {}
    <2>1. \A i \in New(d, answer) : i \in 1..Len(log) /\ log[i] \notin ToSet(applied[d])
      BY <1>1, <1>5 DEF New, IsNew
    <2> QED  BY <1>4, <1>6, <2>1, ToSetOfSequence
  <1>9. \A e \in Device : /\ checkpoint'[e] = IF e = d THEN answer.next ELSE checkpoint[e]
                          /\ applied'[e] = IF e = d THEN applied[d] \o batch ELSE applied[e]
                          /\ records'[e] = IF e = d THEN ApplyAll(records[d], batch)
                                           ELSE records[e]
    BY <1>2, <1>3 DEF SyncTypes
  <1>10. SyncTypes'
    <2>1. NoPull \in [since : Int, next : Int]
      BY DEF NoPull
    <2> QED  BY <1>2, <1>3, <1>5, <1>7, <2>1 DEF SyncTypes
  <1>11. PullsFollow'
    <2>1. \A e \in Device, j \in Call :
              pulls'[e][j] = IF e = d /\ j = k THEN NoPull ELSE pulls[e][j]
      BY <1>3 DEF SyncTypes
    <2>2. \A e \in Device : checkpoint'[e] \in Nat /\ checkpoint[e] \in Nat
                            /\ checkpoint'[e] >= checkpoint[e]
      <3>1. \A e \in Device : checkpoint[e] \in Nat
        BY DEF SyncTypes
      <3> QED  BY <1>1, <1>5, <1>9, <3>1
    <2> QED  BY <1>3, <2>1, <2>2 DEF PullsFollow
  <1>12. PushesOwn' /\ QueuedOrStored'
    BY <1>3 DEF PushesOwn, QueuedOrStored
  <1>13. AppliedFromLog'
    <2>1. IsInjective(applied[d] \o batch)
      BY <1>4, <1>6, <1>8, ConcatInjective DEF AppliedFromLog
    <2>2. \A e \in Device : /\ checkpoint'[e] =< Len(log)
                            /\ ToSet(applied'[e]) \subseteq ToSet(log)
                            /\ IsInjective(applied'[e])
      BY <1>1, <1>7, <1>8, <1>9, <2>1 DEF AppliedFromLog
    <2> QED  BY <1>3, <2>2 DEF AppliedFromLog
  <1>14. AppliedUpTo'
    <2>1. ASSUME NEW i \in 1..answer.next, Change[log[i]].partition \in Granted[d]
          PROVE  log[i] \in ToSet(applied[d] \o batch)
      <3>1. CASE i =< answer.since
        <4>1. i \in 1..checkpoint[d]
          BY <1>1, <3>1
        <4> QED  BY <1>7, <2>1, <4>1 DEF AppliedUpTo
      <3>2. CASE i > answer.since
        <4>1. i \in (answer.since + 1)..answer.next
          BY <1>5, <3>2
        <4>2. log[i] \in ToSet(applied[d]) \cup {log[j] : j \in New(d, answer)}
          BY <1>5, <2>1, <4>1, BatchCovers
        <4> QED  BY <1>6, <1>7, <4>2
      <3> QED  BY <1>5, <3>1, <3>2
    <2> QED  BY <1>3, <1>9, <2>1 DEF AppliedUpTo
  <1>15. RecordsFollow'
    <2>1. Heard(d) \subseteq DOMAIN Change
      BY ToSetOfSequence DEF Heard, SyncTypes
    <2>2. RecordOf(ApplyAll(records[d], batch), Heard(d) \cup ToSet(batch))
      BY <1>6, <2>1, ApplyAllRecords DEF RecordsFollow
    <2>3. \A e \in Device : Heard(e)' = IF e = d THEN Heard(d) \cup ToSet(batch) ELSE Heard(e)
      BY <1>3, <1>7, <1>9 DEF Heard
    <2>4. \A e \in Device : RecordOf(records'[e], Heard(e)')
      BY <1>9, <2>2, <2>3 DEF RecordsFollow
    <2> QED  BY <2>4 DEF RecordsFollow, RecordOf
  <1> QED  BY <1>1, <1>9, <1>10, <1>11, <1>12, <1>13, <1>14, <1>15

LEMMA SyncNext ==
  ASSUME SyncInv, [Next]_vars
  PROVE  /\ SyncInv'
         /\ \A d \in Device : checkpoint'[d] >= checkpoint[d]
  <1>1. \A d \in Device : checkpoint[d] \in Nat
    BY DEF SyncInv, SyncTypes
  <1>2. ASSUME NEW d \in Device, NEW c \in DOMAIN Change, ApplyLocal(d, c)
        PROVE  SyncInv' /\ checkpoint' = checkpoint
    BY <1>2, ApplyLocalKeeps DEF ApplyLocal
  <1>3. ASSUME NEW d \in Device, NEW k \in Call, Sync(d, k) \/ PullAnswered(d, k) \/ SyncFails(d, k)
        PROVE  SyncInv' /\ checkpoint' = checkpoint
    <2>1. SyncInv'
      BY <1>3, SyncKeeps, PullAnsweredKeeps, SyncFailsKeeps
    <2> QED  BY <1>3, <2>1 DEF Sync, PullAnswered, SyncFails, replica
  <1>4. ASSUME NEW d \in Device, NEW k \in Call, SyncReturns(d, k)
        PROVE  SyncInv' /\ \A e \in Device : checkpoint'[e] >= checkpoint[e]
    <2>1. SyncInv' /\ checkpoint'[d] >= checkpoint[d]
      BY <1>4, SyncReturnsKeeps
    <2>2. \A e \in Device : e # d => checkpoint'[e] = checkpoint[e]
      BY <1>4 DEF SyncReturns, SyncInv, SyncTypes
    <2> QED  BY <1>1, <2>1, <2>2
  <1>5. ASSUME NEW d \in Device, NEW k \in Call, Flush(d, k) \/ PushStored(d, k)
        PROVE  SyncInv' /\ checkpoint' = checkpoint
    <2>1. SyncInv'
      BY <1>5, FlushKeeps, PushStoredKeeps
    <2> QED  BY <1>5, <2>1 DEF Flush, PushStored, replica
  <1>6. ASSUME NEW d \in Device, NEW k \in Call, FlushReturns(d, k) \/ FlushFails(d, k)
        PROVE  SyncInv' /\ checkpoint' = checkpoint
    <2>1. SyncInv'
      BY <1>6, FlushReturnsKeeps, FlushFailsKeeps
    <2> QED  BY <1>6, <2>1 DEF FlushReturns, FlushFails, replica
  <1>7. CASE UNCHANGED vars
    <2>1. SyncTypes' /\ PullsFollow' /\ PushesOwn'
      BY <1>7 DEF vars, replica, SyncInv, SyncTypes, PullsFollow, PushesOwn
    <2>2. SyncInv'
      BY <1>7, <2>1, CallsKeep DEF vars
    <2> QED  BY <1>1, <1>7, <2>2 DEF vars, replica
  <1>8. CASE Next
    <2>1. SyncInv' /\ (checkpoint' = checkpoint \/ \A e \in Device : checkpoint'[e] >= checkpoint[e])
      BY <1>2, <1>3, <1>4, <1>5, <1>6, <1>8 DEF Next
    <2> QED  BY <1>1, <2>1
  <1> QED  BY <1>7, <1>8

LEMMA ContainsIsInSet ==
  ASSUME NEW C, NEW s \in Seq(C), NEW e
  PROVE  Contains(s, e) <=> e \in ToSet(s)
  BY DEF Contains, ToSet

THEOREM SyncInvariant == Spec => []SyncInv
  <1>1. SyncInv /\ [Next]_vars => SyncInv'
    BY SyncNext
  <1> QED  BY SyncInit, <1>1, PTL DEF Spec

----------------------------------------------------------------------------
(* What the invariant says of the devices. *)

\* Types, and a device that has heard of a change has heard of one that was made.
THEOREM TypeCorrect == Spec => []TypeOK
  <1>1. SyncInv => TypeOK
    BY DEF SyncInv, SyncTypes, PushesOwn, AppliedFromLog, TypeOK
  <1> QED  BY <1>1, SyncInvariant, PTL

\* However pushes fail, are repeated or overlap, a change that was made is in the
\* queue of its device or in the relay's log: flush() takes out of the queue only
\* what the push that returned had stored.
THEOREM ChangesAreNotLost == Spec => []NothingLost
  <1>1. SyncInv => NothingLost
    BY ContainsIsInSet DEF SyncInv, SyncTypes, QueuedOrStored, NothingLost
  <1> QED  BY <1>1, SyncInvariant, PTL

\* However the answers to overlapping calls of sync() are ordered, what the log holds
\* up to a device's checkpoint, and the device is granted, the device has applied.
THEOREM CheckpointIsApplied == Spec => []NothingSkipped
  <1>1. SyncInv => NothingSkipped
    BY ContainsIsInSet DEF SyncInv, SyncTypes, AppliedUpTo, NothingSkipped
  <1> QED  BY <1>1, SyncInvariant, PTL

\* A change is applied once, however often the relay brings it, and no answer sets
\* a checkpoint back.
THEOREM ChangesAreAppliedOnce == Spec => AppliedOnce
  <1>1. SyncInv /\ SyncInv' /\ [Next]_vars =>
            [\A d \in Device : /\ checkpoint'[d] >= checkpoint[d]
                               /\ IsInjective(applied'[d])]_vars
    BY SyncNext DEF SyncInv, AppliedFromLog
  <1> QED  BY <1>1, SyncInvariant, PTL DEF Spec, AppliedOnce

\* Devices that have applied all there is agree on every field without a tie,
\* whatever order they have applied the changes in: what is left in a field is the
\* last writer of all they have heard of.
THEOREM UpToDateDevicesAgree == Spec => []Converged
  <1>1. ASSUME SyncInv, NEW d \in Device, UpToDate(d) PROVE Heard(d) = made
    <2>1. made \subseteq ToSet(applied[d])
      <3> SUFFICES ASSUME NEW c \in made PROVE c \in ToSet(applied[d])
        OBVIOUS
      <3>1. log \in Seq(DOMAIN Change) /\ c \in ToSet(log)
        BY <1>1 DEF UpToDate, SyncInv, SyncTypes
      <3>2. PICK i \in 1..Len(log) : log[i] = c
        BY <3>1, ToSetOfSequence
      <3>3. i \in 1..checkpoint[d] /\ Change[log[i]].partition \in Granted[d]
        BY <1>1, <3>2 DEF UpToDate
      <3> QED  BY <1>1, <3>2, <3>3 DEF SyncInv, AppliedUpTo
    <2>2. ToSet(applied[d]) \subseteq made
      BY <1>1 DEF SyncInv, AppliedFromLog, PushesOwn
    <2> QED  BY <2>1, <2>2 DEF Heard
  <1>2. ASSUME SyncInv, NEW d \in Device, NEW e \in Device, UpToDate(d), UpToDate(e),
               NEW f \in Field, ~TiedOn(f)
        PROVE  records[d][f] = records[e][f]
    <2>1. RecordOf(records[d], made) /\ RecordOf(records[e], made) /\ made \subseteq DOMAIN Change
      BY <1>1, <1>2 DEF SyncInv, SyncTypes, RecordsFollow
    <2>2. CASE \A c \in made : f \notin Change[c].fields
      BY <2>1, <2>2 DEF RecordOf
    <2>3. CASE \E c \in made : f \in Change[c].fields
      <3> DEFINE LastWriter(r, w) == /\ f \in Change[w].fields
                               /\ r[f] = [clock |-> Change[w].clock, value |-> w]
                               /\ \A c \in made : f \in Change[c].fields =>
                                                      Change[c].clock =< Change[w].clock
      <3>1. PICK w \in made : LastWriter(records[d], w)
        BY <2>1, <2>3 DEF RecordOf
      <3>2. PICK v \in made : LastWriter(records[e], v)
        BY <2>1, <2>3 DEF RecordOf
      <3>3. Change[w].clock = Change[v].clock
        BY <2>1, <3>1, <3>2, ClocksAreNatural
      <3>4. w = v
        BY <1>2, <3>1, <3>2, <3>3 DEF TiedOn
      <3> QED  BY <3>1, <3>2, <3>4
    <2> QED  BY <2>2, <2>3
  <1>3. SyncInv => Converged
    BY <1>2 DEF Converged
  <1> QED  BY <1>3, SyncInvariant, PTL
=============================================================================
