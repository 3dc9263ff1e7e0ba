-------------------------- MODULE RunDeliveryProofs --------------------------
(***************************************************************************)
(* Theorems about RunDelivery, for any run, queue sizes and bounds: types,  *)
(* that events arrive without gap or duplicate, and that the run the client *)
(* follows is a RunHistory.                                                 *)
(***************************************************************************)
EXTENDS RunDelivery, WellFoundedInduction, SequenceTheorems,
        FiniteSetTheorems, TLAPS

-----------------------------------------------------------------------------
(* Runs of consecutive events among the messages of a sequence.             *)

Events(u) == {i \in DOMAIN u : u[i].kind = "event"}

(* The events of u are those with the sequences c + 1 to l, in this order.  *)
Chain(u, c, l) ==
  /\ \A i \in Events(u) : u[i].sequence \in (c + 1)..l
  /\ \A n \in (c + 1)..l : \E i \in Events(u) : u[i].sequence = n
  /\ \A i, j \in Events(u) : i < j => u[i].sequence < u[j].sequence

(* A message of any kind has a whole number for its sequence.               *)
LEMMA MessageShape ==
  ASSUME NEW m \in Message, MaxEvents \in Nat
  PROVE  /\ m.sequence \in Nat
         /\ m.kind = "event" => m.sequence \in 1..MaxEvents
         /\ m.kind # "event" => m.sequence = 0
         /\ m.kind \in {"event", "accepted", "reply", "close"}
  BY DEF Message

LEMMA NoEvents ==
  ASSUME NEW u, NEW c \in Nat, Events(u) = {}
  PROVE  Chain(u, c, c) /\ \A l \in Nat : c <= l /\ Chain(u, c, l) => l = c
<1>1. Chain(u, c, c)
  BY DEF Chain
<1>2. ASSUME NEW l \in Nat, c <= l, Chain(u, c, l), l # c PROVE FALSE
  <2>1. c + 1 \in (c + 1)..l
    BY <1>2
  <2> QED BY <1>2, <2>1 DEF Chain
<1> QED BY <1>1, <1>2

(* Another message at the end changes nothing.                              *)
LEMMA ChainOther ==
  ASSUME NEW u \in Seq(Message), NEW m \in Message, m.kind # "event",
         NEW c \in Nat, NEW l \in Nat, Chain(u, c, l)
  PROVE  Chain(Append(u, m), c, l)
<1> DEFINE v == Append(u, m)
<1>1. /\ Len(v) = Len(u) + 1 /\ DOMAIN v = 1..(Len(u) + 1) /\ DOMAIN u = 1..Len(u)
      /\ \A i \in DOMAIN u : v[i] = u[i]
      /\ v[Len(u) + 1] = m
  BY AppendProperties
<1>2. Events(v) = Events(u) /\ \A i \in Events(u) : v[i] = u[i]
  BY <1>1 DEF Events
<1> QED BY <1>2 DEF Chain

(* The events from l + 1 to h continue a run that ends at l.                *)
LEMMA ChainExtend ==
  ASSUME NEW u \in Seq(Message), NEW c \in Nat, NEW l \in Nat, NEW h \in Nat,
         c <= l, l <= h, h <= MaxEvents, MaxEvents \in Nat, Chain(u, c, l)
  PROVE  /\ EventsFrom(l, h) \in Seq(Message)
         /\ Len(EventsFrom(l, h)) = h - l
         /\ Chain(u \o EventsFrom(l, h), c, h)
<1> DEFINE e == EventsFrom(l, h)
           v == u \o e
<1>1. h - l \in Nat /\ DOMAIN e = 1..(h - l)
      /\ \A i \in 1..(h - l) : e[i] = Event(l + i)
  BY DEF EventsFrom
<1>2. \A i \in 1..(h - l) : /\ e[i] \in Message /\ e[i].kind = "event"
                            /\ e[i].sequence = l + i
  BY <1>1 DEF Event, Message
<1>3. e \in Seq(Message) /\ Len(e) = h - l
  <2>1. e = [i \in 1..(h - l) |-> e[i]]
    BY DEF EventsFrom
  <2> QED BY <1>1, <1>2, <2>1, IsASeq, SMTT(20)
<1>4. /\ v \in Seq(Message) /\ DOMAIN v = 1..(Len(u) + (h - l)) /\ DOMAIN u = 1..Len(u)
      /\ \A i \in 1..Len(u) : v[i] = u[i]
      /\ \A i \in 1..(h - l) : v[Len(u) + i] = e[i]
  <2> HIDE DEF e
  <2>1. /\ v \in Seq(Message) /\ Len(v) = Len(u) + Len(e)
        /\ \A i \in 1..Len(u) : v[i] = u[i]
        /\ \A i \in 1..Len(e) : v[Len(u) + i] = e[i]
    <3>1. \A i \in 1..(Len(u) + Len(e)) :
             v[i] = IF i <= Len(u) THEN u[i] ELSE e[i - Len(u)]
      BY <1>3, ConcatProperties
    <3>2. Len(u) \in Nat /\ Len(e) \in Nat
      BY <1>3, LenProperties
    <3>3. v \in Seq(Message) /\ Len(v) = Len(u) + Len(e)
      BY <1>3, ConcatProperties
    <3> HIDE DEF v
    <3>4. \A i \in 1..Len(u) : v[i] = u[i]
      BY <3>1, <3>2
    <3>5. ASSUME NEW i \in 1..Len(e) PROVE v[Len(u) + i] = e[i]
      <4>1. Len(u) + i \in 1..(Len(u) + Len(e)) /\ ~(Len(u) + i <= Len(u))
            /\ (Len(u) + i) - Len(u) = i
        BY <3>2, <3>5
      <4> QED BY <3>1, <4>1
    <3> QED BY <3>3, <3>4, <3>5
  <2>2. DOMAIN v = 1..Len(v) /\ DOMAIN u = 1..Len(u)
    BY <2>1, LenProperties
  <2> QED BY <1>3, <2>1, <2>2
<1> HIDE DEF e, v
<1>5. ASSUME NEW i \in Events(v)
      PROVE  \/ i \in Events(u) /\ v[i] = u[i]
             \/ i > Len(u) /\ i - Len(u) \in 1..(h - l) /\ v[i].sequence = l + (i - Len(u))
  <2>1. CASE i <= Len(u)
    BY <1>4, <1>5, <2>1 DEF Events
  <2>2. CASE i > Len(u)
    <3>1. i \in Int /\ i - Len(u) \in 1..(h - l) /\ i = Len(u) + (i - Len(u))
      BY <1>4, <1>5, <2>2, LenProperties DEF Events
    <3>2. v[i] = e[i - Len(u)]
      BY <1>4, <3>1
    <3> QED BY <1>2, <2>2, <3>1, <3>2
  <2> QED BY <1>4, <1>5, <2>1, <2>2, LenProperties DEF Events
<1>6. \A i \in Events(u) : i \in Events(v) /\ v[i] = u[i] /\ i \in 1..Len(u)
  <2>1. Len(u) \in Nat
    BY LenProperties
  <2> QED BY <1>1, <1>4, <2>1 DEF Events
<1>7. \A i \in Events(v) : v[i].sequence \in (c + 1)..h
  <2> SUFFICES ASSUME NEW i \in Events(v) PROVE v[i].sequence \in (c + 1)..h
    OBVIOUS
  <2>1. CASE i \in Events(u) /\ v[i] = u[i]
    BY <2>1 DEF Chain
  <2>2. CASE i > Len(u) /\ i - Len(u) \in 1..(h - l) /\ v[i].sequence = l + (i - Len(u))
    BY <2>2
  <2> QED BY <1>5, <2>1, <2>2
<1>8. ASSUME NEW n \in (c + 1)..h PROVE \E i \in Events(v) : v[i].sequence = n
  <2>1. CASE n <= l
    <3>1. n \in (c + 1)..l
      BY <1>8, <2>1
    <3>2. PICK i \in Events(u) : u[i].sequence = n
      BY <3>1 DEF Chain
    <3> QED BY <1>6, <3>2
  <2>2. CASE n > l
    <3>1. n - l \in 1..(h - l) /\ Len(u) \in Nat
      BY <1>8, <2>2, LenProperties
    <3>2. /\ Len(u) + (n - l) \in DOMAIN v
          /\ v[Len(u) + (n - l)] = e[n - l]
      BY <1>4, <3>1
    <3>3. e[n - l].kind = "event" /\ e[n - l].sequence = n
      BY <1>2, <3>1
    <3> QED BY <3>2, <3>3 DEF Events
  <2> QED BY <2>1, <2>2
<1>9. ASSUME NEW i \in Events(v), NEW j \in Events(v), i < j
      PROVE  v[i].sequence < v[j].sequence
  <2>1. CASE j \in Events(u) /\ v[j] = u[j]
    <3>1. i \in Events(u) /\ v[i] = u[i]
      <4>1. j <= Len(u) /\ i \in Nat /\ j \in Nat
        BY <1>4, <1>6, <1>9, <2>1, LenProperties DEF Events
      <4> QED BY <1>5, <1>9, <4>1, LenProperties
    <3> QED BY <1>9, <2>1, <3>1 DEF Chain
  <2>2. CASE j > Len(u) /\ j - Len(u) \in 1..(h - l) /\ v[j].sequence = l + (j - Len(u))
    <3>1. CASE i \in Events(u) /\ v[i] = u[i]
      BY <2>2, <3>1 DEF Chain
    <3>2. CASE i > Len(u) /\ i - Len(u) \in 1..(h - l) /\ v[i].sequence = l + (i - Len(u))
      <4>1. Len(u) \in Nat /\ i \in Int /\ j \in Int
        BY <1>4, <1>9, LenProperties DEF Events
      <4> QED BY <1>9, <2>2, <3>2, <4>1
    <3> QED BY <1>5, <3>1, <3>2
  <2> QED BY <1>5, <2>1, <2>2
<1>10. Chain(v, c, h)
  BY <1>7, <1>8, <1>9 DEF Chain
<1> QED BY <1>3, <1>10 DEF e, v

(* What is left when a message has gone, if it was not an event and if it   *)
(* was: the first event is the next one.                                    *)
LEMMA TailOf ==
  ASSUME NEW u \in Seq(Message), u # <<>>
  PROVE  /\ Tail(u) \in Seq(Message) /\ Head(u) = u[1] /\ 1 \in DOMAIN u
         /\ \A i \in Events(Tail(u)) : i \in Nat \ {0} /\ i + 1 \in Events(u)
                                      /\ Tail(u)[i] = u[i + 1]
         /\ \A i \in Events(u) : i \in Nat \ {0}
                /\ (i # 1 => i - 1 \in Events(Tail(u)) /\ Tail(u)[i - 1] = u[i])
<1>1. /\ Head(u) = u[1] /\ Tail(u) \in Seq(Message) /\ Len(Tail(u)) = Len(u) - 1
      /\ \A i \in 1..Len(Tail(u)) : Tail(u)[i] = u[i + 1]
  BY HeadTailProperties
<1>2. /\ Len(u) \in Nat /\ Len(u) # 0 /\ DOMAIN u = 1..Len(u)
      /\ DOMAIN Tail(u) = 1..(Len(u) - 1)
  BY <1>1, LenProperties, EmptySeq
<1>3. ASSUME NEW i \in Events(Tail(u))
      PROVE  i \in Nat \ {0} /\ i + 1 \in Events(u) /\ Tail(u)[i] = u[i + 1]
  BY <1>1, <1>2, <1>3 DEF Events
<1>4. ASSUME NEW i \in Events(u)
      PROVE  i \in Nat \ {0}
             /\ (i # 1 => i - 1 \in Events(Tail(u)) /\ Tail(u)[i - 1] = u[i])
  <2>1. i \in Nat \ {0} /\ i \in 1..Len(u) /\ u[i].kind = "event"
    BY <1>2, <1>4 DEF Events
  <2>2. ASSUME i # 1 PROVE i - 1 \in 1..(Len(u) - 1) /\ (i - 1) + 1 = i
    BY <1>2, <2>1, <2>2
  <2>3. ASSUME i # 1 PROVE Tail(u)[i - 1] = u[i]
    BY <1>1, <1>2, <2>2, <2>3
  <2> QED BY <1>2, <2>1, <2>2, <2>3 DEF Events
<1>5. 1 \in DOMAIN u
  BY <1>2
<1> QED BY ONLY <1>1, <1>3, <1>4, <1>5

LEMMA ChainSkip ==
  ASSUME NEW u \in Seq(Message), u # <<>>, Head(u).kind # "event",
         NEW c \in Nat, NEW l \in Nat, Chain(u, c, l)
  PROVE  Chain(Tail(u), c, l)
<1> DEFINE t == Tail(u)
<1>1. \A i \in Events(t) : i \in Nat /\ i + 1 \in Events(u) /\ t[i] = u[i + 1]
  BY TailOf
<1>2. \A i \in Events(u) : i - 1 \in Events(t) /\ t[i - 1] = u[i]
  <2>1. 1 \notin Events(u)
    BY TailOf DEF Events
  <2> QED BY <2>1, TailOf
<1> HIDE DEF t
<1>3. \A i \in Events(t) : t[i].sequence \in (c + 1)..l
  BY <1>1 DEF Chain
<1>4. \A n \in (c + 1)..l : \E i \in Events(t) : t[i].sequence = n
  BY <1>2 DEF Chain
<1>5. ASSUME NEW i \in Events(t), NEW j \in Events(t), i < j
      PROVE  t[i].sequence < t[j].sequence
  <2>1. i + 1 < j + 1
    BY <1>1, <1>5
  <2> QED BY <1>1, <2>1 DEF Chain
<1>6. Chain(t, c, l)
  BY <1>3, <1>4, <1>5 DEF Chain
<1> QED BY <1>6 DEF t

LEMMA ChainTake ==
  ASSUME NEW u \in Seq(Message), u # <<>>, Head(u).kind = "event",
         NEW c \in Nat, NEW l \in Nat, Chain(u, c, l)
  PROVE  Head(u).sequence = c + 1 /\ c + 1 <= l /\ Chain(Tail(u), c + 1, l)
<1> DEFINE t == Tail(u)
<1>1. \A i \in Events(t) : i \in Nat \ {0} /\ i + 1 \in Events(u) /\ t[i] = u[i + 1]
  BY TailOf
<1>2. \A i \in Events(u) : /\ i \in Nat \ {0}
                          /\ (i # 1 => i - 1 \in Events(t) /\ t[i - 1] = u[i])
  BY TailOf
<1>3. 1 \in Events(u) /\ Head(u) = u[1]
  BY TailOf DEF Events
<1> HIDE DEF t
<1>4. u[1].sequence = c + 1 /\ c + 1 <= l
  <2>1. u[1].sequence \in (c + 1)..l
    BY <1>3 DEF Chain
  <2>2. c + 1 \in (c + 1)..l
    BY <2>1
  <2>3. PICK i \in Events(u) : u[i].sequence = c + 1
    BY <2>2 DEF Chain
  <2>4. CASE i = 1
    BY <2>1, <2>3, <2>4
  <2>5. CASE i # 1
    <3>1. 1 < i
      BY <1>2, <2>5
    <3>2. u[1].sequence < u[i].sequence
      BY <1>3, <3>1 DEF Chain
    <3> QED BY <2>1, <2>3, <3>2
  <2> QED BY <2>4, <2>5
<1>5. ASSUME NEW i \in Events(t)
      PROVE  t[i].sequence \in ((c + 1) + 1)..l
  <2>1. 1 < i + 1 /\ i + 1 \in Events(u) /\ t[i] = u[i + 1]
    BY <1>1, <1>5
  <2>2. u[1].sequence < u[i + 1].sequence /\ u[i + 1].sequence \in (c + 1)..l
    BY <1>3, <2>1 DEF Chain
  <2> QED BY <1>4, <2>1, <2>2
<1>6. ASSUME NEW n \in ((c + 1) + 1)..l
      PROVE  \E i \in Events(t) : t[i].sequence = n
  <2>1. n \in (c + 1)..l /\ n # c + 1
    BY <1>6
  <2>2. PICK i \in Events(u) : u[i].sequence = n
    BY <2>1 DEF Chain
  <2> QED BY <1>2, <1>4, <2>1, <2>2
<1>7. ASSUME NEW i \in Events(t), NEW j \in Events(t), i < j
      PROVE  t[i].sequence < t[j].sequence
  <2>1. i + 1 < j + 1
    BY <1>1, <1>7
  <2> QED BY <1>1, <2>1 DEF Chain
<1>8. Chain(t, c + 1, l)
  BY <1>5, <1>6, <1>7 DEF Chain
<1> QED BY <1>3, <1>4, <1>8 DEF t

(* The positions of a sequence that another follows.                        *)
LEMMA FrontOfConcat ==
  ASSUME NEW u \in Seq(Message), NEW v \in Seq(Message)
  PROVE  /\ DOMAIN (u \o v) = 1..(Len(u) + Len(v)) /\ DOMAIN u = 1..Len(u)
         /\ Len(u) \in Nat /\ Len(v) \in Nat /\ u \o v \in Seq(Message)
         /\ \A i \in 1..Len(u) : (u \o v)[i] = u[i]
<1> DEFINE w == u \o v
<1>1. w \in Seq(Message) /\ Len(w) = Len(u) + Len(v)
  BY ConcatProperties
<1>2. \A i \in 1..(Len(u) + Len(v)) : w[i] = IF i <= Len(u) THEN u[i] ELSE v[i - Len(u)]
  BY ConcatProperties
<1>3. DOMAIN w = 1..Len(w) /\ DOMAIN u = 1..Len(u) /\ Len(u) \in Nat /\ Len(v) \in Nat
  BY <1>1, LenProperties
<1> HIDE DEF w
<1>4. \A i \in 1..Len(u) : w[i] = u[i]
  BY <1>2, <1>3
<1> QED BY <1>1, <1>3, <1>4 DEF w

(* The front of a run is a run.                                             *)
LEMMA ChainFront ==
  ASSUME NEW u \in Seq(Message), NEW v \in Seq(Message),
         NEW c \in Nat, NEW l \in Nat, c <= l, Chain(u \o v, c, l)
  PROVE  \E k \in c..l : Chain(u, c, k)
<1> DEFINE w == u \o v
           Least == {ss \in Nat \X Nat : ss[1] < ss[2]}
           S == {k \in c..l : \A i \in Events(u) : u[i].sequence # k + 1}
<1>1. /\ DOMAIN w = 1..(Len(u) + Len(v)) /\ DOMAIN u = 1..Len(u)
      /\ Len(u) \in Nat /\ Len(v) \in Nat
      /\ \A i \in 1..Len(u) : w[i] = u[i]
  BY FrontOfConcat
<1>2. Chain(w, c, l)
  OBVIOUS
<1> HIDE DEF w
<1>3. \A i \in Events(u) : i \in Events(w) /\ u[i] = w[i] /\ i \in 1..Len(u)
  BY <1>1 DEF Events
<1>4. \A i \in Events(w) : i \in Nat /\ (i <= Len(u) => i \in Events(u))
  BY <1>1 DEF Events
<1>5. S \in SUBSET Nat /\ l \in S
  <2>1. ASSUME NEW i \in Events(u) PROVE u[i].sequence # l + 1
    BY <1>2, <1>3, <2>1 DEF Chain
  <2> QED BY <2>1
<1>6. \E k \in S : \A m \in S : ~(m < k)
  <2>1. IsWellFoundedOn(Least, Nat)
    BY NatLessThanWellFounded DEF OpToRel
  <2>2. \E k \in S : \A m \in S : ~(<<m, k>> \in Least)
    <3> HIDE DEF Least, S
    <3> QED BY <1>5, <2>1, WFMin
  <2>3. PICK k \in S : \A m \in S : ~(<<m, k>> \in Least)
    BY <2>2
  <2>4. ASSUME NEW m \in S, m < k PROVE FALSE
    <3>1. m \in Nat /\ k \in Nat
      BY <1>5
    <3>2. <<m, k>> \in Least
      BY <2>4, <3>1
    <3> QED BY <2>3, <3>2
  <2> QED BY <2>3, <2>4
<1>7. PICK k \in S : \A m \in S : ~(m < k)
  BY <1>6
<1>8. k \in c..l /\ \A i \in Events(u) : u[i].sequence # k + 1
  BY <1>7
<1>9. ASSUME NEW n \in (c + 1)..k PROVE \E i \in Events(u) : u[i].sequence = n
  <2>1. n - 1 \in c..l /\ n - 1 < k /\ (n - 1) + 1 = n
    BY <1>8, <1>9
  <2>2. n - 1 \notin S
    BY <1>7, <2>1
  <2> QED BY <2>1, <2>2
<1>10. ASSUME NEW i \in Events(u) PROVE u[i].sequence \in (c + 1)..k
  <2>1. i \in Events(w) /\ u[i] = w[i] /\ i \in 1..Len(u) /\ w[i].sequence \in (c + 1)..l
    BY <1>2, <1>3 DEF Chain
  <2>2. ASSUME w[i].sequence > k PROVE FALSE
    <3>1. k + 1 \in (c + 1)..l
      BY <1>8, <2>1, <2>2
    <3>2. PICK j \in Events(w) : w[j].sequence = k + 1
      BY <1>2, <3>1 DEF Chain
    <3>3. CASE j \in Events(u)
      BY <1>3, <1>8, <3>2, <3>3
    <3>4. CASE j \notin Events(u)
      <4>1. i < j
        BY <1>1, <1>4, <2>1, <3>2, <3>4
      <4>2. w[i].sequence < w[j].sequence
        BY <1>2, <2>1, <4>1 DEF Chain
      <4> QED BY <1>8, <2>1, <2>2, <3>2, <4>2
    <3> QED BY <3>3, <3>4
  <2> QED BY <1>8, <2>1, <2>2
<1>11. ASSUME NEW i \in Events(u), NEW j \in Events(u), i < j
       PROVE  u[i].sequence < u[j].sequence
  BY <1>2, <1>3, <1>11 DEF Chain
<1>12. Chain(u, c, k)
  BY <1>9, <1>10, <1>11 DEF Chain
<1> QED BY <1>8, <1>12

-----------------------------------------------------------------------------
(* Types.                                                                   *)

USE DeliveryAssumption DEF NoticeKind, TerminalKind, ActiveStatus,
    TerminalStatus, Status, Kind, Link, Attachment

(* What the history records: one event more, or none.                       *)
LEMMA Recorded ==
  ASSUME TypeOK
  PROVE  /\ High \in Nat
         /\ Append1 => /\ status' \in [{Run} -> Status] /\ journal' \in [{Run} -> Seq(Kind)]
                       /\ High' = High + 1 /\ High < MaxEvents
         /\ Begin => status' \in [{Run} -> Status]
<1>1. journal[Run] \in Seq(Kind) /\ High \in Nat
  BY LenProperties DEF TypeOK, High
<1>2. ASSUME NEW k \in Kind, History!Record(Run, k)
      PROVE  journal' \in [{Run} -> Seq(Kind)] /\ High' = High + 1
  <2>1. Append(journal[Run], k) \in Seq(Kind)
        /\ Len(Append(journal[Run], k)) = Len(journal[Run]) + 1
    BY <1>1, AppendProperties
  <2> QED BY <1>2, <2>1 DEF History!Record, TypeOK, High
<1>3. ASSUME Append1
      PROVE  /\ status' \in [{Run} -> Status] /\ journal' \in [{Run} -> Seq(Kind)]
             /\ High' = High + 1 /\ High < MaxEvents
  <2>0. High < MaxEvents
    BY <1>3 DEF Append1
  <2>1. ASSUME NEW k \in Notices, History!Note(Run, k)
        PROVE  /\ status' \in [{Run} -> Status] /\ journal' \in [{Run} -> Seq(Kind)]
               /\ High' = High + 1
    BY <1>2, <2>1 DEF History!Note, TypeOK
  <2>2. ASSUME NEW st \in Outcomes, History!Settle(Run, st)
        PROVE  /\ status' \in [{Run} -> Status] /\ journal' \in [{Run} -> Seq(Kind)]
               /\ High' = High + 1
    <3>1. TerminalEvent(st) \in Kind /\ st \in Status
      BY DEF TerminalEvent
    <3>2. status' \in [{Run} -> Status]
      BY <2>2, <3>1 DEF History!Settle, TypeOK
    <3>3. History!Record(Run, TerminalEvent(st))
      BY <2>2 DEF History!Settle, History!TerminalEvent, TerminalEvent
    <3> QED BY <1>2, <3>1, <3>2, <3>3
  <2>3. ASSUME History!LateWarning(Run)
        PROVE  /\ status' \in [{Run} -> Status] /\ journal' \in [{Run} -> Seq(Kind)]
               /\ High' = High + 1
    <3>1. "warning" \in Kind
      OBVIOUS
    <3> QED BY <1>2, <2>3, <3>1 DEF History!LateWarning, TypeOK
  <2> QED BY <1>3, <2>0, <2>1, <2>2, <2>3 DEF Append1
<1>4. Begin => status' \in [{Run} -> Status]
  BY DEF Begin, History!Begin, TypeOK
<1> QED BY <1>1, <1>3, <1>4

(* A connection that is closed or lost.                                     *)
ConnectionTyped ==
  /\ link \in Link /\ wire \in Seq(Message)
  /\ outbound \in Seq(Message) /\ Len(outbound) <= OutCap

FollowerTyped ==
  /\ attachment \in Attachment /\ position \in 0..MaxEvents
  /\ live \in Seq(1..MaxEvents) /\ Len(live) <= SubCap

LEMMA OtherIsMessage ==
  \A k \in {"accepted", "reply", "close"} :
    Other(k) \in Message /\ Other(k).kind = k /\ Other(k).sequence = 0
BY DEF Other, Message

LEMMA EndsTyped ==
  ASSUME TypeOK
  PROVE  (Close \/ Lost) => ConnectionTyped' /\ FollowerTyped'
<1>1. <<>> \in Seq(Message) /\ <<>> \in Seq(1..MaxEvents) /\ Len(<<>>) = 0
  OBVIOUS
<1>2. Append(wire, Other("close")) \in Seq(Message)
  BY OtherIsMessage, AppendProperties DEF TypeOK
<1>3. ASSUME Close PROVE ConnectionTyped' /\ FollowerTyped'
  <2>1. /\ link' = "closing" /\ wire' = Append(wire, Other("close")) /\ outbound' = <<>>
        /\ attachment' = "none" /\ position' = 0 /\ live' = <<>>
    BY <1>3 DEF Close, Detached
  <2>2. ConnectionTyped'
    BY <1>1, <1>2, <2>1 DEF ConnectionTyped
  <2>3. FollowerTyped'
    BY <1>1, <2>1 DEF FollowerTyped
  <2> QED BY <2>2, <2>3
<1>4. ASSUME Lost PROVE ConnectionTyped' /\ FollowerTyped'
  <2>1. /\ link' = "down" /\ wire' = <<>> /\ outbound' = <<>>
        /\ attachment' = "none" /\ position' = 0 /\ live' = <<>>
    BY <1>4 DEF Lost, Detached
  <2>2. ConnectionTyped'
    BY <1>1, <2>1 DEF ConnectionTyped
  <2>3. FollowerTyped'
    BY <1>1, <2>1 DEF FollowerTyped
  <2> QED BY <2>2, <2>3
<1> QED BY <1>3, <1>4

(* What is put into the outbound queue when there is room for it.           *)
LEMMA EnqueueTyped ==
  ASSUME TypeOK, NEW ms \in Seq(Message), Room(ms)
  PROVE  /\ outbound \o ms \in Seq(Message) /\ Len(outbound \o ms) <= OutCap
         /\ Enqueue(ms) => ConnectionTyped'
<1>1. outbound \o ms \in Seq(Message) /\ Len(outbound \o ms) = Len(outbound) + Len(ms)
  BY ConcatProperties DEF TypeOK
<1>2. Len(outbound \o ms) <= OutCap
  BY <1>1 DEF Room
<1>3. Enqueue(ms) => /\ outbound' = outbound \o ms /\ link' = link /\ wire' = wire
  BY DEF Enqueue
<1> QED BY <1>1, <1>2, <1>3 DEF ConnectionTyped, TypeOK

(* The fresh part of the live queue.                                        *)
LEMMA FreshTyped ==
  ASSUME TypeOK
  PROVE  /\ Fresh \in Seq(1..MaxEvents) /\ Len(Fresh) \in Nat
         /\ \A i \in 1..Len(Fresh) : Fresh[i] \in 1..MaxEvents
<1>1. Len(live) \in Nat /\ DOMAIN live = 1..Len(live)
      /\ \A i \in 1..Len(live) : live[i] \in 1..MaxEvents
  BY LenProperties, ElementOfSeq DEF TypeOK
<1>2. Stale \in SUBSET (1..Len(live)) /\ IsFiniteSet(1..Len(live))
  BY <1>1, FS_Interval DEF Stale
<1>3. Cardinality(Stale) \in Nat
  BY <1>2, FS_Subset, FS_CardinalityType
<1>4. Fresh \in Seq(1..MaxEvents)
  <2>1. ASSUME NEW i \in (Cardinality(Stale) + 1)..Len(live)
        PROVE  live[i] \in 1..MaxEvents
    BY <1>1, <1>3
  <2> QED BY <1>1, <1>3, <2>1, SubSeqProperties DEF Fresh, TypeOK
<1> QED BY <1>4, LenProperties, ElementOfSeq

Typed == TypeOK /\ High <= MaxEvents

LEMMA BacklogTyped ==
  ASSUME Typed
  PROVE  /\ EventsFrom(position, High) \in Seq(Message)
         /\ position + Len(EventsFrom(position, High)) \in 0..MaxEvents
<1> DEFINE e == EventsFrom(position, High)
<1>1. position \in Nat /\ position <= MaxEvents /\ High \in Nat /\ High <= MaxEvents
  BY Recorded DEF Typed, TypeOK
<1>2. CASE position <= High
  <2>1. High - position \in Nat /\ \A i \in 1..(High - position) : Event(position + i) \in Message
    BY <1>1, <1>2 DEF Event, Message
  <2>2. e \in Seq(Message) /\ Len(e) = High - position
    BY <2>1, IsASeq DEF EventsFrom
  <2> QED BY <1>1, <1>2, <2>2
<1>3. CASE ~(position <= High)
  <2>1. 1..(High - position) = 1..0 /\ 0 \in Nat
    BY <1>1, <1>3
  <2>2. e = [i \in 1..0 |-> Event(position + i)]
    BY <2>1 DEF EventsFrom
  <2>3. e \in Seq(Message) /\ Len(e) = 0
    <3>1. \A i \in 1..0 : Event(position + i) \in Message
      OBVIOUS
    <3> QED BY <2>1, <2>2, <3>1, IsASeq
  <2> QED BY <1>1, <2>3
<1> QED BY <1>2, <1>3

(* What Deliver takes from the fresh part.                                  *)
LEMMA NewsTyped ==
  ASSUME TypeOK, NEW n \in 0..Len(Fresh)
  PROVE  /\ [i \in 1..n |-> Event(Fresh[i])] \in Seq(Message)
         /\ (IF n = 0 THEN position ELSE Fresh[n]) \in 0..MaxEvents
<1>1. n \in Nat /\ \A i \in 1..n : Fresh[i] \in 1..MaxEvents
  BY FreshTyped
<1>2. \A i \in 1..n : Event(Fresh[i]) \in Message
  BY <1>1 DEF Event, Message
<1>3. [i \in 1..n |-> Event(Fresh[i])] \in Seq(Message)
  BY <1>1, <1>2, IsASeq
<1>4. n # 0 => n \in 1..n
  BY <1>1
<1> QED BY <1>1, <1>3, <1>4 DEF TypeOK

UpTo == IF Ends = {} THEN Len(Fresh) ELSE CHOOSE i \in Ends : TRUE

LEMMA UpToTyped ==
  ASSUME TypeOK
  PROVE  UpTo \in 0..Len(Fresh) /\ (Ends # {} => UpTo \in Ends)
<1>1. Len(Fresh) \in Nat /\ Ends \in SUBSET (1..Len(Fresh))
  BY FreshTyped DEF Ends
<1>2. Ends # {} => UpTo \in Ends
  BY DEF UpTo
<1>3. CASE Ends = {}
  BY <1>1, <1>3 DEF UpTo
<1>4. CASE Ends # {}
  <2>1. UpTo \in Ends
    BY <1>2, <1>4
  <2>2. UpTo \in 1..Len(Fresh)
    BY ONLY <1>1, <2>1
  <2>3. UpTo \in 0..Len(Fresh)
    BY ONLY <1>1, <2>2
  <2> QED BY <2>1, <2>3
<1> QED BY <1>3, <1>4

LEMMA TypesInit == Init => Typed
<1> SUFFICES ASSUME Init PROVE Typed
  OBVIOUS
<1>1. <<>> \in Seq(Message) /\ <<>> \in Seq(1..MaxEvents) /\ <<>> \in Seq(Kind)
      /\ Len(<<>>) = 0
  OBVIOUS
<1>2. journal = [r \in {Run} |-> <<>>] /\ status = [r \in {Run} |-> "none"]
  BY DEF Init
<1>3. High = 0
  BY <1>2 DEF High
<1>4. journal \in [{Run} -> Seq(Kind)] /\ status \in [{Run} -> Status]
  BY <1>2
<1>5. /\ cursor \in 0..MaxEvents /\ position \in 0..MaxEvents
      /\ drops \in 0..MaxDrops /\ replies \in 0..MaxReplies
      /\ accepted \in BOOLEAN /\ link \in Link /\ attachment \in Attachment
  <2>1. cursor = 0 /\ position = 0 /\ drops = 0 /\ replies = 0
    BY DEF Init
  <2>2. accepted = FALSE /\ link = "down" /\ attachment = "none"
    BY DEF Init
  <2>3. 0 \in 0..MaxEvents /\ 0 \in 0..MaxDrops /\ 0 \in 0..MaxReplies
    OBVIOUS
  <2> QED BY <2>1, <2>2, <2>3
<1>6. /\ wire \in Seq(Message)
      /\ outbound \in Seq(Message) /\ Len(outbound) <= OutCap
      /\ live \in Seq(1..MaxEvents) /\ Len(live) <= SubCap
  BY <1>1 DEF Init
<1> QED BY <1>3, <1>4, <1>5, <1>6 DEF Typed, TypeOK

LEMMA TypesNext == Typed /\ [Next]_vars => Typed'
<1> SUFFICES ASSUME Typed, [Next]_vars PROVE Typed'
  OBVIOUS
<1> USE DEF history, client, connection, follower, bounds
<1>0. TypeOK /\ High \in Nat /\ High <= MaxEvents /\ ConnectionTyped /\ FollowerTyped
  BY Recorded DEF Typed, TypeOK, ConnectionTyped, FollowerTyped
<1> DEFINE SameHistory == journal' = journal
           HistoryTyped == status \in [{Run} -> Status] /\ journal \in [{Run} -> Seq(Kind)]
           RestTyped == /\ cursor \in 0..MaxEvents /\ accepted \in BOOLEAN
                        /\ drops \in 0..MaxDrops /\ replies \in 0..MaxReplies
<1>a. HistoryTyped /\ RestTyped
  BY <1>0 DEF TypeOK
<1>b. HistoryTyped' /\ RestTyped' /\ ConnectionTyped' /\ FollowerTyped' => TypeOK'
  BY DEF TypeOK, ConnectionTyped, FollowerTyped
<1>c. SameHistory => High' = High
  BY DEF High
<1>d. UNCHANGED <<status, journal>> => HistoryTyped'
  BY <1>a
<1>e. UNCHANGED <<link, wire, outbound>> => ConnectionTyped'
  BY <1>0 DEF ConnectionTyped
<1>f. UNCHANGED <<attachment, position, live>> => FollowerTyped'
  BY <1>0 DEF FollowerTyped
<1>g. UNCHANGED <<cursor, accepted, drops, replies>> => RestTyped'
  BY <1>a
<1>h. Close \/ Lost => ConnectionTyped' /\ FollowerTyped'
  BY <1>0, EndsTyped
<1> SUFFICES HistoryTyped' /\ RestTyped' /\ ConnectionTyped' /\ FollowerTyped'
             /\ (High' = High \/ Append1)
  BY <1>0, <1>b, Recorded DEF Typed
<1>1. CASE Begin
  BY <1>0, <1>1, <1>c, <1>e, <1>f, <1>g, <1>a, Recorded DEF Begin, History!Begin
<1>2. CASE Append1
  <2>1. HistoryTyped' /\ High < MaxEvents
    BY <1>0, <1>2, Recorded
  <2>2. RestTyped' /\ ConnectionTyped'
    BY <1>2, <1>e, <1>g DEF Append1
  <2>3. FollowerTyped'
    <3>1. Publish /\ position' = position
      BY <1>2 DEF Append1
    <3>2. live \in Seq(1..MaxEvents) /\ Len(live) \in Nat
      BY <1>0, LenProperties DEF FollowerTyped
    <3>3. High + 1 \in 1..MaxEvents
      BY <1>0, <2>1
    <3>4. Append(live, High + 1) \in Seq(1..MaxEvents)
          /\ Len(Append(live, High + 1)) = Len(live) + 1
      BY <3>2, <3>3, AppendProperties
    <3>5. <<>> \in Seq(1..MaxEvents) /\ Len(<<>>) = 0
      OBVIOUS
    <3>6. CASE attachment' = attachment /\ live' = live
      BY <1>f, <3>1, <3>6
    <3>7. CASE Len(live) < SubCap /\ live' = Append(live, High + 1) /\ attachment' = attachment
      <4>1. Len(live') <= SubCap
        BY <3>2, <3>4, <3>7
      <4> QED BY <1>0, <3>1, <3>4, <3>7, <4>1 DEF FollowerTyped
    <3>8. CASE live' = <<>> /\ attachment' = "overflowed"
      BY <1>0, <3>1, <3>5, <3>8 DEF FollowerTyped
    <3> QED BY <3>1, <3>6, <3>7, <3>8 DEF Publish
  <2> QED BY <1>2, <2>1, <2>2, <2>3
<1>3. CASE Request
  <2>1. /\ UNCHANGED <<journal, cursor, accepted, live, drops, replies>>
        /\ \/ /\ UNCHANGED <<status, wire, outbound>>
              /\ link' = "open" /\ attachment' = "new" /\ position' = cursor
           \/ /\ status' = [status EXCEPT ![Run] = IF @ = "none" THEN "queued" ELSE @]
              /\ \/ /\ Room(<<Other("accepted")>>)
                    /\ outbound' = Append(outbound, Other("accepted"))
                    /\ link' = "open" /\ attachment' = "new" /\ position' = 0
                    /\ UNCHANGED wire
                 \/ Close
    BY <1>3 DEF Request, Asked
  <2>2. RestTyped' /\ High' = High
    BY <1>c, <1>g, <2>1
  <2>3. HistoryTyped'
    <3>1. CASE status' = status
      BY <1>a, <2>1, <3>1
    <3>2. CASE status' = [status EXCEPT ![Run] = IF @ = "none" THEN "queued" ELSE @]
      BY <1>a, <2>1, <3>2
    <3> QED BY <2>1, <3>1, <3>2
  <2>4. ConnectionTyped' /\ FollowerTyped'
    <3>1. CASE UNCHANGED <<status, wire, outbound>> /\ link' = "open" /\ attachment' = "new"
               /\ position' = cursor
      BY <1>0, <1>a, <2>1, <3>1 DEF ConnectionTyped, FollowerTyped
    <3>2. CASE /\ Room(<<Other("accepted")>>)
               /\ outbound' = Append(outbound, Other("accepted"))
               /\ link' = "open" /\ attachment' = "new" /\ position' = 0
               /\ UNCHANGED wire
      <4>1. <<Other("accepted")>> \in Seq(Message)
            /\ Append(outbound, Other("accepted")) = outbound \o <<Other("accepted")>>
        BY <1>0, OtherIsMessage, AppendIsConcat DEF TypeOK
      <4>2. outbound' \in Seq(Message) /\ Len(outbound') <= OutCap
        BY <1>0, <3>2, <4>1, EnqueueTyped
      <4> QED BY <1>0, <2>1, <3>2, <4>2 DEF ConnectionTyped, FollowerTyped
    <3> QED BY <1>h, <2>1, <3>1, <3>2
  <2> QED BY <2>2, <2>3, <2>4
<1>4. CASE Replay
  <2>1. UNCHANGED <<status, journal, cursor, accepted, drops, replies>>
    BY <1>4 DEF Replay
  <2>2. ConnectionTyped' /\ FollowerTyped'
    <3>1. CASE Close
      BY <1>h, <3>1
    <3>2. CASE /\ Room(EventsFrom(position, High)) /\ Enqueue(EventsFrom(position, High))
               /\ position' = position + Len(EventsFrom(position, High))
               /\ attachment' = IF Settled THEN "none" ELSE "live"
               /\ UNCHANGED live
      <4>1. ConnectionTyped' /\ position' \in 0..MaxEvents
        BY <1>0, <3>2, BacklogTyped, EnqueueTyped DEF Typed
      <4>2. attachment' \in Attachment
        BY <3>2
      <4> QED BY <1>0, <3>2, <4>1, <4>2 DEF FollowerTyped
    <3> QED BY <1>4, <3>1, <3>2 DEF Replay
  <2> QED BY <1>c, <1>d, <1>g, <2>1, <2>2
<1>5. CASE Deliver
  <2> DEFINE news == [i \in 1..UpTo |-> Event(Fresh[i])]
  <2>1. /\ UNCHANGED <<status, journal, cursor, accepted, drops, replies>>
        /\ \/ /\ Room(news) /\ Enqueue(news)
              /\ position' = IF UpTo = 0 THEN position ELSE Fresh[UpTo]
              /\ live' = <<>>
              /\ attachment' = IF Ends = {} THEN "live" ELSE "none"
           \/ Close
    BY <1>5 DEF Deliver, UpTo
  <2>2. ConnectionTyped' /\ FollowerTyped'
    <3>1. CASE /\ Room(news) /\ Enqueue(news)
               /\ position' = IF UpTo = 0 THEN position ELSE Fresh[UpTo]
               /\ live' = <<>>
               /\ attachment' = IF Ends = {} THEN "live" ELSE "none"
      <4>1. news \in Seq(Message) /\ position' \in 0..MaxEvents
        BY <1>0, <3>1, UpToTyped, NewsTyped
      <4>2. ConnectionTyped'
        BY <1>0, <3>1, <4>1, EnqueueTyped
      <4>3. attachment' \in Attachment /\ live' \in Seq(1..MaxEvents) /\ Len(live') = 0
        BY <3>1
      <4> QED BY <4>1, <4>2, <4>3 DEF FollowerTyped
    <3> QED BY <1>h, <2>1, <3>1
  <2> QED BY <1>c, <1>d, <1>g, <2>1, <2>2
<1>6. CASE Overflowed
  BY <1>6, <1>c, <1>d, <1>g, <1>h DEF Overflowed
<1>7. CASE Write
  <2>1. /\ UNCHANGED <<status, journal, cursor, accepted, drops, replies, link,
                       attachment, position, live>>
        /\ outbound # <<>> /\ wire' = Append(wire, Head(outbound)) /\ outbound' = Tail(outbound)
    BY <1>7 DEF Write
  <2>2. /\ Head(outbound) \in Message /\ Tail(outbound) \in Seq(Message)
        /\ Len(Tail(outbound)) = Len(outbound) - 1 /\ Len(outbound) \in Nat
    BY <1>0, <2>1, HeadTailProperties, LenProperties DEF ConnectionTyped
  <2>3. Append(wire, Head(outbound)) \in Seq(Message)
    BY <1>0, <2>2, AppendProperties DEF ConnectionTyped
  <2>4. ConnectionTyped'
    BY <1>0, <2>1, <2>2, <2>3 DEF ConnectionTyped
  <2> QED BY <1>c, <1>d, <1>f, <1>g, <2>1, <2>4
<1>8. CASE Reply
  <2>1. /\ UNCHANGED <<status, journal, cursor, accepted, drops>>
        /\ replies < MaxReplies /\ replies' = replies + 1
    BY <1>8 DEF Reply
  <2>2. ConnectionTyped' /\ FollowerTyped'
    <3>1. <<Other("reply")>> \in Seq(Message)
      BY OtherIsMessage
    <3> QED BY <1>0, <1>8, <1>f, <1>h, <3>1, EnqueueTyped DEF Reply
  <2>3. RestTyped'
    BY <1>a, <2>1
  <2> QED BY <1>c, <1>d, <2>1, <2>2, <2>3
<1>9. CASE Connect
  <2>1. ConnectionTyped'
    BY <1>0, <1>9 DEF Connect, ConnectionTyped
  <2> QED BY <1>9, <1>c, <1>d, <1>f, <1>g, <2>1 DEF Connect
<1>10. CASE Drop
  <2>1. RestTyped' /\ UNCHANGED <<status, journal>> /\ Lost
    BY <1>10, <1>a DEF Drop
  <2> QED BY <1>c, <1>d, <1>h, <2>1
<1>11. CASE Receive
  <2> DEFINE m == Head(wire)
  <2>1. /\ wire # <<>> /\ UNCHANGED <<status, journal, drops, replies>>
        /\ \/ Lost /\ UNCHANGED <<cursor, accepted>>
           \/ /\ ~(m.sequence > cursor + 1)
              /\ wire' = Tail(wire)
              /\ cursor' = IF m.sequence = cursor + 1 THEN m.sequence ELSE cursor
              /\ accepted' = (accepted \/ m.kind = "accepted")
              /\ UNCHANGED <<link, outbound, attachment, position, live>>
    BY <1>11 DEF Receive
  <2>2. m \in Message /\ Tail(wire) \in Seq(Message)
    BY <1>0, <2>1, HeadTailProperties DEF ConnectionTyped
  <2>3. m.sequence \in 0..MaxEvents
    BY <2>2, MessageShape
  <2>4. CASE Lost /\ UNCHANGED <<cursor, accepted>>
    BY <1>c, <1>d, <1>g, <1>h, <2>1, <2>4
  <2>5. CASE /\ wire' = Tail(wire)
             /\ cursor' = IF m.sequence = cursor + 1 THEN m.sequence ELSE cursor
             /\ accepted' = (accepted \/ m.kind = "accepted")
             /\ UNCHANGED <<link, outbound, attachment, position, live>>
    <3>1. ConnectionTyped'
      BY <1>0, <2>2, <2>5 DEF ConnectionTyped
    <3>2. RestTyped'
      BY <1>a, <2>1, <2>3, <2>5
    <3> QED BY <1>c, <1>d, <1>f, <2>1, <2>5, <3>1, <3>2
  <2> QED BY <2>1, <2>4, <2>5
<1>12. CASE UNCHANGED vars
  BY <1>12, <1>c, <1>d, <1>e, <1>f, <1>g DEF vars
<1> QED BY <1>1, <1>2, <1>3, <1>4, <1>5, <1>6, <1>7, <1>8, <1>9, <1>10, <1>11, <1>12
        DEF Next, Serve

(* Every value stays of its type, the queues within their capacities.       *)
THEOREM TypesCorrect == Spec => []TypeOK
<1>1. Typed => TypeOK
  BY DEF Typed
<1> QED BY <1>1, TypesInit, TypesNext, PTL DEF Spec

-----------------------------------------------------------------------------
(* No gap and no duplicate.                                                 *)

(* Every event is preceded by the answer that told the run's id.            *)
Heralds(u)  == {i \in DOMAIN u : u[i].kind = "accepted"}
Heralded(u) == \A i \in Events(u) : \E j \in Heralds(u) : j < i

(* The stations of a connection.                                            *)
Linked ==
  /\ link = "down" => wire = <<>> /\ outbound = <<>>
  /\ link = "closing" => outbound = <<>>
  /\ link # "open" => attachment = "none"
  /\ link = "asking" => Events(Underway) = {}
  /\ attachment # "live" => live = <<>>

(* A client that does not know its run has applied nothing of it, and will  *)
(* know it before the first event arrives.                                  *)
Introduced ==
  ~accepted => /\ cursor = 0
               /\ Heralded(Underway)
               /\ attachment # "none" => Heralds(Underway) # {}

(* The attachment and its subscription stand behind event l.                *)
Stands(l) ==
  /\ attachment \in {"new", "live"} => position = l
  /\ attachment = "live" => live = [i \in 1..(High - l) |-> l + i]

Follows ==
  \E l \in cursor..High : Chain(Underway, cursor, l) /\ Stands(l)

Ordered == Typed /\ Linked /\ Introduced /\ Follows

LEMMA HeraldOther ==
  ASSUME NEW u \in Seq(Message), NEW m \in Message, m.kind # "event"
  PROVE  /\ Events(Append(u, m)) = Events(u)
         /\ Heralded(u) => Heralded(Append(u, m))
         /\ Heralds(u) # {} \/ m.kind = "accepted" => Heralds(Append(u, m)) # {}
<1> DEFINE v == Append(u, m)
<1>1. /\ Len(u) \in Nat /\ DOMAIN v = 1..(Len(u) + 1) /\ DOMAIN u = 1..Len(u)
      /\ \A i \in DOMAIN u : v[i] = u[i]
      /\ v[Len(u) + 1] = m
  BY AppendProperties
<1> HIDE DEF v
<1>2. Events(v) = Events(u)
  BY <1>1 DEF Events
<1>3. Heralds(u) \subseteq Heralds(v) /\ (m.kind = "accepted" => Len(u) + 1 \in Heralds(v))
  BY <1>1 DEF Heralds
<1>4. Heralded(u) => Heralded(v)
  BY <1>2, <1>3 DEF Heralded
<1> QED BY <1>2, <1>3, <1>4 DEF v

LEMMA HeraldExtend ==
  ASSUME NEW u \in Seq(Message), NEW e \in Seq(Message), Heralds(u) # {}, Heralded(u)
  PROVE  Heralded(u \o e) /\ Heralds(u \o e) # {}
<1> DEFINE w == u \o e
<1>1. /\ DOMAIN w = 1..(Len(u) + Len(e)) /\ DOMAIN u = 1..Len(u)
      /\ Len(u) \in Nat /\ Len(e) \in Nat
      /\ \A i \in 1..Len(u) : w[i] = u[i]
  BY FrontOfConcat
<1> HIDE DEF w
<1>2. Heralds(u) \subseteq Heralds(w) /\ \A i \in Heralds(u) : i \in 1..Len(u)
  BY <1>1 DEF Heralds
<1>3. PICK h \in Heralds(u) : TRUE
  OBVIOUS
<1>4. ASSUME NEW i \in Events(w) PROVE \E j \in Heralds(w) : j < i
  <2>1. i \in 1..(Len(u) + Len(e)) /\ w[i].kind = "event"
    BY <1>1, <1>4 DEF Events
  <2>2. CASE i <= Len(u)
    <3>1. i \in Events(u)
      BY <1>1, <2>1, <2>2 DEF Events
    <3> QED BY <1>2, <3>1 DEF Heralded
  <2>3. CASE ~(i <= Len(u))
    BY <1>1, <1>2, <1>3, <2>1, <2>3
  <2> QED BY <2>2, <2>3
<1>5. Heralded(w) /\ Heralds(w) # {}
  BY <1>2, <1>3, <1>4 DEF Heralded
<1> QED BY <1>5 DEF w

LEMMA HeraldFront ==
  ASSUME NEW u \in Seq(Message), NEW e \in Seq(Message), Heralded(u \o e)
  PROVE  Heralded(u)
<1> DEFINE w == u \o e
<1>1. /\ DOMAIN w = 1..(Len(u) + Len(e)) /\ DOMAIN u = 1..Len(u)
      /\ Len(u) \in Nat /\ Len(e) \in Nat
      /\ \A i \in 1..Len(u) : w[i] = u[i]
  BY FrontOfConcat
<1>2. Heralded(w)
  OBVIOUS
<1> HIDE DEF w
<1>3. ASSUME NEW i \in Events(u) PROVE \E j \in Heralds(u) : j < i
  <2>1. i \in Events(w) /\ i \in 1..Len(u)
    BY <1>1, <1>3 DEF Events
  <2>2. PICK j \in Heralds(w) : j < i
    BY <1>2, <2>1 DEF Heralded
  <2>3. j \in 1..Len(u)
    BY <1>1, <2>1, <2>2 DEF Heralds
  <2> QED BY <1>1, <2>2, <2>3 DEF Heralds
<1> QED BY <1>3 DEF Heralded

LEMMA HeraldTail ==
  ASSUME NEW u \in Seq(Message), u # <<>>, Heralded(u)
  PROVE  /\ Head(u).kind # "event"
         /\ Head(u).kind # "accepted" =>
              /\ Heralded(Tail(u))
              /\ Heralds(u) # {} => Heralds(Tail(u)) # {}
<1> DEFINE t == Tail(u)
<1>1. \A i \in Events(t) : i \in Nat \ {0} /\ i + 1 \in Events(u) /\ t[i] = u[i + 1]
  BY TailOf
<1>2. /\ Len(u) \in Nat /\ Len(u) # 0 /\ DOMAIN u = 1..Len(u)
      /\ Head(u) = u[1] /\ DOMAIN t = 1..(Len(u) - 1)
      /\ \A i \in 1..(Len(u) - 1) : t[i] = u[i + 1]
  BY LenProperties, HeadTailProperties, EmptySeq
<1> HIDE DEF t
<1>3. Head(u).kind # "event"
  <2>1. ASSUME 1 \in Events(u) PROVE FALSE
    <3>1. PICK j \in Heralds(u) : j < 1
      BY <2>1 DEF Heralded
    <3> QED BY <1>2, <3>1 DEF Heralds
  <2> QED BY <1>2, <2>1 DEF Events
<1>4. ASSUME Head(u).kind # "accepted", NEW j \in Heralds(u)
      PROVE  j - 1 \in Heralds(t) /\ j \in Nat
  <2>1. j \in 1..Len(u) /\ j # 1 /\ u[j].kind = "accepted"
    BY <1>2, <1>4 DEF Heralds
  <2>2. j - 1 \in 1..(Len(u) - 1) /\ (j - 1) + 1 = j
    BY <1>2, <2>1
  <2>3. t[j - 1] = u[j]
    BY <1>2, <2>2
  <2> QED BY <1>2, <2>1, <2>2, <2>3 DEF Heralds
<1>5. ASSUME Head(u).kind # "accepted", NEW i \in Events(t)
      PROVE  \E j \in Heralds(t) : j < i
  <2>1. PICK j \in Heralds(u) : j < i + 1
    BY <1>1, <1>5 DEF Heralded
  <2>2. j - 1 \in Heralds(t) /\ j \in Nat
    BY <1>4, <1>5
  <2>3. j - 1 < i
    BY <1>1, <1>5, <2>1, <2>2
  <2> QED BY <2>2, <2>3
<1>6. Head(u).kind # "accepted" => Heralded(t) /\ (Heralds(u) # {} => Heralds(t) # {})
  BY <1>4, <1>5 DEF Heralded
<1> QED BY <1>3, <1>6 DEF t

(* The numbers and messages at hand.                                        *)
LEMMA AtHand ==
  ASSUME Typed
  PROVE  /\ wire \in Seq(Message) /\ outbound \in Seq(Message) /\ Underway \in Seq(Message)
         /\ cursor \in Nat /\ position \in Nat /\ High \in Nat /\ MaxEvents \in Nat
         /\ High <= MaxEvents
<1>1. wire \in Seq(Message) /\ outbound \in Seq(Message)
  BY DEF Typed, TypeOK
<1>2. Underway \in Seq(Message)
  BY <1>1, ConcatProperties DEF Underway
<1> QED BY <1>1, <1>2, Recorded DEF Typed, TypeOK

LEMMA NothingUnderway ==
  ASSUME NEW c \in Nat
  PROVE  Events(<<>>) = {} /\ Heralded(<<>>) /\ Chain(<<>>, c, c)
<1>1. Events(<<>>) = {}
  BY DEF Events
<1> QED BY <1>1, NoEvents DEF Heralded

(* What is put into the outbound queue follows what is underway.            *)
LEMMA UnderwayEnqueued ==
  ASSUME Typed, NEW ms \in Seq(Message), outbound' = outbound \o ms, wire' = wire
  PROVE  Underway' = Underway \o ms
<1>1. (wire \o outbound) \o ms = wire \o (outbound \o ms)
  <2>1. wire \in Seq(Message) /\ outbound \in Seq(Message) /\ ms \in Seq(Message)
    BY AtHand
  <2> QED BY ONLY <2>1, ConcatAssociative
<1> QED BY <1>1 DEF Underway

LEMMA UnderwayOther ==
  ASSUME Typed, NEW m \in Message, m.kind # "event", wire' = wire,
         outbound' = Append(outbound, m) \/ outbound' = outbound \o <<m>>
  PROVE  /\ Underway' = Append(Underway, m)
         /\ Events(Underway') = Events(Underway)
         /\ Heralded(Underway) => Heralded(Underway')
         /\ Heralds(Underway) # {} \/ m.kind = "accepted" => Heralds(Underway') # {}
         /\ \A l \in Nat : Chain(Underway, cursor, l) => Chain(Underway', cursor, l)
<1>1. outbound \in Seq(Message) /\ Underway \in Seq(Message) /\ <<m>> \in Seq(Message)
      /\ cursor \in Nat
  BY AtHand
<1>2. outbound' = outbound \o <<m>>
  BY <1>1, AppendIsConcat
<1>3. Underway' = Underway \o <<m>>
  BY <1>1, <1>2, UnderwayEnqueued
<1>4. Underway' = Append(Underway, m)
  BY <1>1, <1>3, AppendIsConcat
<1> QED BY <1>1, <1>4, HeraldOther, ChainOther

(* A connection that is closed or lost keeps the front of what was sent, or *)
(* nothing.                                                                 *)
LEMMA EndsOrdered ==
  ASSUME Ordered, Close \/ Lost, UNCHANGED <<journal, cursor, accepted>>
  PROVE  Linked' /\ Introduced' /\ Follows'
<1>1. Typed /\ cursor \in Nat /\ High \in Nat /\ cursor <= High /\ High' = High
      /\ wire \in Seq(Message) /\ outbound \in Seq(Message)
  BY AtHand DEF Ordered, Follows, High
<1>2. attachment' = "none" /\ live' = <<>> /\ outbound' = <<>> /\ link' \in {"closing", "down"}
      /\ (link' = "down" => wire' = <<>>)
  BY DEF Close, Lost, Detached
<1>3. Linked'
  BY <1>2 DEF Linked
<1>4. CASE Lost
  <2>1. Underway' = <<>>
    <3>1. wire' = <<>> /\ outbound' = <<>>
      BY <1>4 DEF Lost
    <3> QED BY <3>1 DEF Underway
  <2>2. Introduced'
    BY <1>2, <2>1, NothingUnderway DEF Ordered, Introduced
  <2>3. Follows'
    <3>1. Chain(Underway', cursor', cursor)
      BY <1>1, <2>1, NothingUnderway
    <3> QED BY <1>1, <1>2, <3>1 DEF Follows, Stands
  <2> QED BY <1>3, <2>2, <2>3
<1>5. CASE Close
  <2> DEFINE m == Other("close")
  <2>1. wire' = Append(wire, m) /\ m \in Message /\ m.kind = "close"
    BY <1>5, OtherIsMessage DEF Close
  <2> HIDE DEF m
  <2>2. Append(wire, m) \in Seq(Message)
    BY <1>1, <2>1, AppendProperties
  <2>3. Underway' = Append(wire, m)
    BY <1>2, <2>1, <2>2, ConcatEmptySeq DEF Underway
  <2>4. Introduced'
    <3>1. ~accepted => cursor = 0 /\ Heralded(wire \o outbound)
      BY DEF Ordered, Introduced, Underway
    <3>2. ~accepted => Heralded(wire)
      BY <1>1, <3>1, HeraldFront
    <3>3. ~accepted => Heralded(Append(wire, m))
      BY <1>1, <2>1, <3>2, HeraldOther
    <3> QED BY <1>2, <2>3, <3>1, <3>3 DEF Introduced
  <2>5. Follows'
    <3>1. PICK l \in cursor..High : Chain(wire \o outbound, cursor, l)
      BY DEF Ordered, Follows, Underway
    <3>2. l \in Nat /\ cursor <= l
      BY <1>1
    <3>3. PICK k \in cursor..l : Chain(wire, cursor, k)
      BY <1>1, <3>1, <3>2, ChainFront
    <3>4. k \in cursor..High /\ k \in Nat
      BY <1>1, <3>2
    <3>5. Chain(Append(wire, m), cursor, k)
      BY <1>1, <2>1, <3>3, <3>4, ChainOther
    <3> QED BY <1>1, <1>2, <2>3, <3>4, <3>5 DEF Follows, Stands
  <2> QED BY <1>3, <2>4, <2>5
<1> QED BY <1>4, <1>5

(* An event is recorded, and offered to a live subscription.                *)
LEMMA Append1Ordered ==
  ASSUME Ordered, Append1
  PROVE  Linked' /\ Introduced' /\ Follows'
<1>1. /\ Publish /\ UNCHANGED <<cursor, accepted, link, wire, outbound, position>>
  BY DEF Append1, client, connection
<1>2. Typed /\ cursor \in Nat /\ High \in Nat /\ High' = High + 1
  BY AtHand, Recorded DEF Ordered, Typed
<1>3. Underway' = Underway
  BY <1>1 DEF Underway
<1>4. attachment' # "none" => attachment # "none"
  BY <1>1 DEF Publish
<1>5. attachment' # "live" => live' = <<>> \/ (live' = live /\ attachment # "live")
  BY <1>1 DEF Publish
<1>6. Linked'
  BY <1>1, <1>3, <1>4, <1>5 DEF Ordered, Linked
<1>7. Introduced'
  BY <1>1, <1>3, <1>4 DEF Ordered, Introduced
<1>8. Follows'
  <2>1. PICK l \in cursor..High : Chain(Underway, cursor, l) /\ Stands(l)
    BY DEF Ordered, Follows
  <2>2. l \in cursor'..High' /\ Chain(Underway', cursor', l) /\ l \in Nat /\ l <= High
    BY <1>1, <1>2, <1>3, <2>1
  <2>3. Stands(l)'
    <3>1. attachment' \in {"new", "live"} => position' = l
      BY <1>1, <2>1 DEF Stands, Publish
    <3>2. ASSUME attachment' = "live" PROVE live' = [i \in 1..(High' - l) |-> l + i]
      <4>1. attachment = "live" /\ live' = Append(live, High + 1)
        BY <1>1, <3>2 DEF Publish
      <4>2. live = [i \in 1..(High - l) |-> l + i]
        BY <2>1, <4>1 DEF Stands
      <4> DEFINE n == High - l
      <4>3. n \in Nat /\ High = l + n /\ High' - l = n + 1 /\ High + 1 = l + (n + 1)
        BY <1>2, <2>2
      <4>4. live = [i \in 1..n |-> l + i]
        BY <4>2
      <4> HIDE DEF n
      <4>5. Append([i \in 1..n |-> l + i], l + (n + 1)) = [i \in 1..(n + 1) |-> l + i]
        <5>1. \A i \in 1..n : l + i \in Nat
          BY <2>2, <4>3
        <5> DEFINE s == [i \in 1..n |-> l + i]
                   t == [i \in 1..(n + 1) |-> l + i]
        <5>2. s \in Seq(Nat) /\ Len(s) = n
          BY <4>3, <5>1, IsASeq
        <5>3. \A i \in 1..(n + 1) : l + i \in Nat
          BY <2>2, <4>3
        <5>4. t \in Seq(Nat) /\ Len(t) = n + 1
          BY <4>3, <5>3, IsASeq
        <5>5. l + (n + 1) \in Nat
          BY <2>2, <4>3
        <5>6. \A i \in 1..(n + 1) : t[i] = l + i /\ (i \in 1..n => s[i] = l + i)
          OBVIOUS
        <5> HIDE DEF s, t
        <5>7. /\ Append(s, l + (n + 1)) \in Seq(Nat)
              /\ Len(Append(s, l + (n + 1))) = n + 1
              /\ \A i \in 1..n : Append(s, l + (n + 1))[i] = s[i]
              /\ Append(s, l + (n + 1))[n + 1] = l + (n + 1)
          BY <5>2, <5>5, AppendProperties
        <5>8. \A i \in 1..(n + 1) : i \in 1..n \/ i = n + 1
          BY <4>3
        <5>9. \A i \in 1..(n + 1) : Append(s, l + (n + 1))[i] = t[i]
          BY <5>6, <5>7, <5>8
        <5>10. Append(s, l + (n + 1)) = t
          BY <5>4, <5>7, <5>9, SeqEqual
        <5> QED BY <5>10 DEF s, t
      <4>6. live' = Append([i \in 1..n |-> l + i], l + (n + 1))
        BY ONLY <4>1, <4>3, <4>4
      <4> QED BY ONLY <4>3, <4>5, <4>6
    <3> QED BY <3>1, <3>2 DEF Stands
  <2> QED BY <2>2, <2>3 DEF Follows
<1> QED BY <1>6, <1>7, <1>8

(* The request attaches the client where it stands, or starts its run.      *)
LEMMA RequestOrdered ==
  ASSUME Ordered, Request
  PROVE  Linked' /\ Introduced' /\ Follows'
<1>1. /\ link = "asking" /\ UNCHANGED <<journal, cursor, accepted, live>>
      /\ \/ /\ accepted /\ UNCHANGED <<wire, outbound>>
            /\ link' = "open" /\ attachment' = "new" /\ position' = cursor
         \/ /\ ~accepted /\ outbound' = Append(outbound, Other("accepted"))
            /\ link' = "open" /\ attachment' = "new" /\ position' = 0
            /\ UNCHANGED wire
         \/ Close
  BY DEF Request, Asked, client
<1>2. Typed /\ cursor \in Nat /\ High \in Nat /\ High' = High
  BY <1>1, AtHand DEF Ordered, High
<1>3. attachment = "none" /\ live = <<>> /\ Events(Underway) = {}
  BY <1>1 DEF Ordered, Linked
<1>4. cursor <= High /\ Chain(Underway, cursor, cursor)
  <2>1. PICK l \in cursor..High : Chain(Underway, cursor, l)
    BY DEF Ordered, Follows
  <2> QED BY <1>2, <1>3, <2>1, NoEvents
<1>5. CASE /\ accepted /\ UNCHANGED <<wire, outbound>>
           /\ link' = "open" /\ attachment' = "new" /\ position' = cursor
  <2>1. Underway' = Underway
    BY <1>5 DEF Underway
  <2>2. Linked' /\ Introduced'
    BY <1>1, <1>3, <1>5 DEF Linked, Introduced
  <2>3. Follows'
    <3>1. cursor \in cursor'..High' /\ Chain(Underway', cursor', cursor)
      BY <1>1, <1>2, <1>4, <2>1
    <3> QED BY <1>1, <1>5, <3>1 DEF Follows, Stands
  <2> QED BY <2>2, <2>3
<1>6. CASE /\ ~accepted /\ outbound' = Append(outbound, Other("accepted"))
           /\ link' = "open" /\ attachment' = "new" /\ position' = 0
           /\ UNCHANGED wire
  <2> DEFINE m == Other("accepted")
  <2>1. m \in Message /\ m.kind = "accepted" /\ outbound' = Append(outbound, m)
    BY <1>6, OtherIsMessage
  <2> HIDE DEF m
  <2>2. /\ Events(Underway') = {} /\ (Heralded(Underway) => Heralded(Underway'))
        /\ Heralds(Underway') # {}
        /\ Chain(Underway', cursor, cursor)
    BY <1>2, <1>3, <1>4, <1>6, <2>1, UnderwayOther
  <2>3. cursor = 0 /\ Heralded(Underway)
    BY <1>6 DEF Ordered, Introduced
  <2>4. Linked' /\ Introduced'
    BY <1>1, <1>3, <1>6, <2>2, <2>3 DEF Linked, Introduced
  <2>5. Follows'
    <3>1. cursor \in cursor'..High' /\ Chain(Underway', cursor', cursor)
      BY <1>1, <1>2, <1>4, <2>2
    <3> QED BY <1>1, <1>6, <2>3, <3>1 DEF Follows, Stands
  <2> QED BY <2>4, <2>5
<1> QED BY <1>1, <1>5, <1>6, EndsOrdered

(* Replay and the live loop continue what is underway by the events from    *)
(* the position on.                                                         *)
LEMMA ContinuedOrdered ==
  ASSUME Ordered, link = "open", attachment # "none", NEW l \in cursor..High,
         Chain(Underway, cursor, l), NEW h \in l..High, position' = h,
         outbound' = outbound \o EventsFrom(l, h), live' = <<>>,
         attachment' \in {"none", "live"}, attachment' = "live" => h = High,
         UNCHANGED <<journal, cursor, accepted, link, wire>>
  PROVE  Linked' /\ Introduced' /\ Follows'
<1>1. /\ Typed /\ cursor \in Nat /\ High \in Nat /\ High' = High /\ MaxEvents \in Nat
      /\ l \in Nat /\ h \in Nat /\ cursor <= l /\ l <= h /\ h <= High /\ h <= MaxEvents
      /\ Underway \in Seq(Message)
  BY AtHand DEF Ordered, High
<1>2. /\ EventsFrom(l, h) \in Seq(Message)
      /\ Chain(Underway \o EventsFrom(l, h), cursor, h)
  BY <1>1, ChainExtend
<1>3. Underway' = Underway \o EventsFrom(l, h)
  BY <1>1, <1>2, UnderwayEnqueued
<1>4. Linked'
  BY DEF Linked
<1>5. Introduced'
  <2>1. ~accepted => cursor = 0 /\ Heralded(Underway) /\ Heralds(Underway) # {}
    BY DEF Ordered, Introduced
  <2>2. ~accepted => Heralded(Underway') /\ Heralds(Underway') # {}
    BY <1>1, <1>2, <1>3, <2>1, HeraldExtend
  <2> QED BY <2>1, <2>2 DEF Introduced
<1>6. Follows'
  <2>1. h \in cursor'..High' /\ Chain(Underway', cursor', h)
    BY <1>1, <1>2, <1>3
  <2>2. attachment' = "live" => live' = [i \in 1..(High' - h) |-> h + i]
    <3>1. ASSUME attachment' = "live" PROVE High' - h = 0
      BY <1>1, <3>1
    <3>2. [i \in 1..0 |-> h + i] = <<>>
      OBVIOUS
    <3> QED BY <3>1, <3>2
  <2> QED BY <2>1, <2>2 DEF Follows, Stands
<1> QED BY <1>4, <1>5, <1>6

LEMMA ReplayOrdered ==
  ASSUME Ordered, Replay
  PROVE  Linked' /\ Introduced' /\ Follows'
<1>1. /\ attachment = "new" /\ UNCHANGED <<journal, cursor, accepted>>
      /\ \/ /\ outbound' = outbound \o EventsFrom(position, High) /\ UNCHANGED <<link, wire, live>>
            /\ position' = position + Len(EventsFrom(position, High))
            /\ attachment' \in {"none", "live"}
         \/ Close
  BY DEF Replay, Enqueue, history, client
<1>2. CASE Close
  BY <1>1, <1>2, EndsOrdered
<1>3. CASE /\ outbound' = outbound \o EventsFrom(position, High) /\ UNCHANGED <<link, wire, live>>
           /\ position' = position + Len(EventsFrom(position, High))
           /\ attachment' \in {"none", "live"}
  <2>1. PICK l \in cursor..High : Chain(Underway, cursor, l) /\ Stands(l)
    BY DEF Ordered, Follows
  <2>2. position = l
    BY <1>1, <2>1 DEF Stands
  <2>3. /\ cursor \in Nat /\ High \in Nat /\ High <= MaxEvents /\ MaxEvents \in Nat
        /\ Underway \in Seq(Message)
    BY AtHand DEF Ordered
  <2>4. l \in Nat /\ cursor <= l /\ l <= High
    BY <2>3
  <2>5. Len(EventsFrom(l, High)) = High - l
    BY <2>1, <2>3, <2>4, ChainExtend
  <2>6. position' = High /\ High \in l..High
    BY <1>3, <2>2, <2>3, <2>4, <2>5
  <2>7. link = "open" /\ live = <<>>
    BY <1>1 DEF Ordered, Linked
  <2> QED BY <1>1, <1>3, <2>1, <2>2, <2>6, <2>7, ContinuedOrdered
<1> QED BY <1>1, <1>2, <1>3

(* The live queue holds what was recorded behind the position, so nothing   *)
(* of it is stale.                                                          *)
LEMMA LiveFresh ==
  ASSUME Ordered, attachment = "live", NEW l \in cursor..High, Stands(l)
  PROVE  /\ position = l /\ Len(Fresh) = High - l /\ UpTo \in 0..(High - l)
         /\ (Ends = {} => UpTo = High - l)
         /\ [i \in 1..UpTo |-> Event(Fresh[i])] = EventsFrom(l, l + UpTo)
         /\ (IF UpTo = 0 THEN position ELSE Fresh[UpTo]) = l + UpTo
<1> DEFINE n == High - l
<1>1. /\ Typed /\ cursor \in Nat /\ High \in Nat
      /\ position = l /\ live = [i \in 1..n |-> l + i]
  BY AtHand DEF Ordered, Stands
<1>2. l \in Nat /\ n \in Nat
  BY <1>1
<1> HIDE DEF n
<1>3. /\ Len(live) = n /\ DOMAIN live = 1..n /\ live \in Seq(1..MaxEvents)
      /\ \A i \in 1..n : live[i] = l + i
  BY <1>1, <1>2, LenProperties DEF Typed, TypeOK
<1>4. Stale = {}
  BY <1>1, <1>2, <1>3 DEF Stale
<1>5. Cardinality(Stale) + 1 = 1
  BY <1>4, FS_EmptySet
<1>6. Fresh = live
  BY <1>3, <1>5, SubSeqFull DEF Fresh
<1>7. UpTo \in 0..n /\ (Ends = {} => UpTo = n)
  <2>1. UpTo \in 0..Len(Fresh) /\ (Ends = {} => UpTo = Len(Fresh))
    BY <1>1, UpToTyped DEF Typed, UpTo
  <2> QED BY ONLY <1>3, <1>6, <2>1
<1>8. \A i \in 1..UpTo : Fresh[i] = l + i
  <2>1. 1..UpTo \subseteq 1..n
    BY <1>2, <1>7
  <2> QED BY <1>3, <1>6, <2>1
<1>9. [i \in 1..UpTo |-> Event(Fresh[i])] = EventsFrom(l, l + UpTo)
  <2>1. UpTo \in Nat /\ (l + UpTo) - l = UpTo
    BY <1>2, <1>7
  <2> QED BY <1>8, <2>1 DEF EventsFrom
<1>10. (IF UpTo = 0 THEN position ELSE Fresh[UpTo]) = l + UpTo
  <2>1. UpTo \in Nat /\ (UpTo # 0 => UpTo \in 1..UpTo)
    BY <1>2, <1>7
  <2> QED BY <1>1, <1>2, <1>8, <2>1
<1> QED BY <1>1, <1>3, <1>6, <1>7, <1>9, <1>10 DEF n

LEMMA DeliverOrdered ==
  ASSUME Ordered, Deliver
  PROVE  Linked' /\ Introduced' /\ Follows'
<1> DEFINE news == [i \in 1..UpTo |-> Event(Fresh[i])]
<1>1. /\ attachment = "live" /\ UNCHANGED <<journal, cursor, accepted>>
      /\ \/ /\ outbound' = outbound \o news /\ UNCHANGED <<link, wire>>
            /\ position' = IF UpTo = 0 THEN position ELSE Fresh[UpTo]
            /\ live' = <<>>
            /\ attachment' = IF Ends = {} THEN "live" ELSE "none"
         \/ Close
  BY DEF Deliver, Enqueue, UpTo, history, client
<1>2. CASE Close
  BY <1>1, <1>2, EndsOrdered
<1>3. CASE /\ outbound' = outbound \o news /\ UNCHANGED <<link, wire>>
           /\ position' = IF UpTo = 0 THEN position ELSE Fresh[UpTo]
           /\ live' = <<>>
           /\ attachment' = IF Ends = {} THEN "live" ELSE "none"
  <2>1. PICK l \in cursor..High : Chain(Underway, cursor, l) /\ Stands(l)
    BY DEF Ordered, Follows
  <2> DEFINE h == l + UpTo
  <2>2. /\ UpTo \in 0..(High - l) /\ (Ends = {} => UpTo = High - l)
        /\ news = EventsFrom(l, h) /\ position' = h
    BY <1>1, <1>3, <2>1, LiveFresh
  <2>3. l \in Nat /\ High \in Nat /\ l <= High
    BY AtHand DEF Ordered
  <2>4. h \in l..High /\ (Ends = {} => h = High)
    BY <2>2, <2>3
  <2>5. link = "open"
    BY <1>1 DEF Ordered, Linked
  <2>6. attachment' \in {"none", "live"} /\ (attachment' = "live" => h = High)
    BY <1>3, <2>4
  <2>7. outbound' = outbound \o EventsFrom(l, h) /\ attachment # "none"
    BY <1>1, <1>3, <2>2
  <2> HIDE DEF h, news
  <2> QED BY <1>1, <1>3, <2>1, <2>2, <2>4, <2>5, <2>6, <2>7, ContinuedOrdered
<1> QED BY <1>1, <1>2, <1>3

(* Answers, the writer, the socket that opens and what the client takes.    *)
LEMMA ReplyOrdered ==
  ASSUME Ordered, Reply
  PROVE  Linked' /\ Introduced' /\ Follows'
<1> DEFINE m == Other("reply")
<1>1. /\ UNCHANGED <<journal, cursor, accepted>> /\ link \in {"asking", "open"}
      /\ \/ /\ outbound' = outbound \o <<m>>
            /\ UNCHANGED <<link, wire, attachment, position, live>>
         \/ Close
  BY DEF Reply, Enqueue, history, client, follower
<1>2. m \in Message /\ m.kind = "reply"
  BY OtherIsMessage
<1> HIDE DEF m
<1>3. CASE Close
  BY <1>1, <1>3, EndsOrdered
<1>4. CASE /\ outbound' = outbound \o <<m>>
           /\ UNCHANGED <<link, wire, attachment, position, live>>
  <2>1. Typed /\ cursor \in Nat /\ High \in Nat /\ High' = High
    BY <1>1, AtHand DEF Ordered, High
  <2>2. /\ Events(Underway') = Events(Underway)
        /\ Heralded(Underway) => Heralded(Underway')
        /\ Heralds(Underway) # {} => Heralds(Underway') # {}
        /\ \A l \in Nat : Chain(Underway, cursor, l) => Chain(Underway', cursor, l)
    BY <1>2, <1>4, <2>1, UnderwayOther
  <2>3. Linked'
    BY <1>1, <1>4, <2>2 DEF Ordered, Linked
  <2>4. Introduced'
    BY <1>1, <1>4, <2>2 DEF Ordered, Introduced
  <2>5. Follows'
    <3>1. PICK l \in cursor..High : Chain(Underway, cursor, l) /\ Stands(l)
      BY DEF Ordered, Follows
    <3>2. l \in cursor'..High' /\ l \in Nat /\ Chain(Underway', cursor', l)
      BY <1>1, <2>1, <2>2, <3>1
    <3> QED BY <1>4, <2>1, <3>1, <3>2 DEF Follows, Stands
  <2> QED BY <2>3, <2>4, <2>5
<1> QED BY <1>1, <1>3, <1>4

LEMMA WriteOrdered ==
  ASSUME Ordered, Write
  PROVE  Linked' /\ Introduced' /\ Follows'
<1>1. /\ UNCHANGED <<journal, cursor, accepted, link, attachment, position, live>>
      /\ link \in {"asking", "open"} /\ outbound # <<>>
      /\ wire' = Append(wire, Head(outbound)) /\ outbound' = Tail(outbound)
  BY DEF Write, history, client, follower
<1>2. Underway' = Underway
  <2> DEFINE h == Head(outbound)  t == Tail(outbound)
  <2>1. wire \in Seq(Message) /\ outbound \in Seq(Message)
    BY AtHand DEF Ordered
  <2>2. h \in Message /\ t \in Seq(Message) /\ <<h>> \in Seq(Message)
    BY <1>1, <2>1, HeadTailProperties
  <2>3. outbound = <<h>> \o t
    <3>1. Len(outbound) \in Nat \ {0}
      BY <1>1, <2>1, EmptySeq
    <3>2. /\ Len(t) = Len(outbound) - 1 /\ h = outbound[1]
          /\ \A i \in 1..Len(t) : t[i] = outbound[i + 1]
      BY <1>1, <2>1, HeadTailProperties
    <3> HIDE DEF h, t
    <3>3. /\ <<h>> \o t \in Seq(Message) /\ Len(<<h>>) = 1
          /\ Len(<<h>> \o t) = Len(<<h>>) + Len(t)
          /\ \A i \in 1..(Len(<<h>>) + Len(t)) :
               (<<h>> \o t)[i] = IF i <= Len(<<h>>) THEN <<h>>[i] ELSE t[i - Len(<<h>>)]
      BY <2>2, ConcatProperties
    <3>4. \A i \in 1..Len(outbound) : outbound[i] = (<<h>> \o t)[i]
      <4> SUFFICES ASSUME NEW i \in 1..Len(outbound)
                   PROVE  outbound[i] = (<<h>> \o t)[i]
        OBVIOUS
      <4>1. CASE i = 1
        <5>1. <<h>>[1] = h
          OBVIOUS
        <5> QED BY <3>1, <3>2, <3>3, <4>1, <5>1
      <4>2. CASE i # 1
        <5>1. i - 1 \in 1..Len(t) /\ (i - 1) + 1 = i /\ ~(i <= 1) /\ i \in 1..(1 + Len(t))
          BY <3>1, <3>2, <4>2
        <5> QED BY <3>2, <3>3, <5>1
      <4> QED BY <4>1, <4>2
    <3>5. Len(outbound) = Len(<<h>> \o t)
      BY <3>1, <3>2, <3>3
    <3> QED BY <2>1, <3>3, <3>4, <3>5, SeqEqual
  <2> HIDE DEF h, t
  <2>4. Append(wire, h) = wire \o <<h>>
    BY <2>1, <2>2, AppendIsConcat
  <2>5. (wire \o <<h>>) \o t = wire \o (<<h>> \o t)
    BY ONLY <2>1, <2>2, ConcatAssociative
  <2>6. wire' = Append(wire, h) /\ outbound' = t
    BY <1>1 DEF h, t
  <2> QED BY <2>3, <2>4, <2>5, <2>6 DEF Underway
<1>3. High' = High
  BY <1>1 DEF High
<1>4. Linked'
  BY <1>1, <1>2 DEF Ordered, Linked
<1>5. Introduced'
  BY <1>1, <1>2 DEF Ordered, Introduced
<1>6. Follows'
  BY <1>1, <1>2, <1>3 DEF Ordered, Follows, Stands
<1> QED BY <1>4, <1>5, <1>6

(* The first message of what is underway is the first on the wire.          *)
LEMMA HeadTailConcat ==
  ASSUME NEW u \in Seq(Message), NEW v \in Seq(Message), u # <<>>
  PROVE  u \o v # <<>> /\ Head(u \o v) = Head(u) /\ Tail(u \o v) = Tail(u) \o v
<1> DEFINE w == u \o v
<1>1. /\ Len(u) \in Nat \ {0} /\ Len(v) \in Nat
      /\ w \in Seq(Message) /\ Len(w) = Len(u) + Len(v)
      /\ \A i \in 1..(Len(u) + Len(v)) : w[i] = IF i <= Len(u) THEN u[i] ELSE v[i - Len(u)]
  BY EmptySeq, LenProperties, ConcatProperties
<1>2. /\ Head(u) = u[1] /\ Tail(u) \in Seq(Message) /\ Len(Tail(u)) = Len(u) - 1
      /\ \A i \in 1..Len(Tail(u)) : Tail(u)[i] = u[i + 1]
  BY HeadTailProperties
<1> DEFINE x == Tail(u) \o v
<1>3. /\ x \in Seq(Message) /\ Len(x) = Len(Tail(u)) + Len(v)
      /\ \A i \in 1..(Len(Tail(u)) + Len(v)) :
            x[i] = IF i <= Len(Tail(u)) THEN Tail(u)[i] ELSE v[i - Len(Tail(u))]
  BY <1>2, ConcatProperties
<1> HIDE DEF w, x
<1>4. w # <<>>
  BY <1>1, EmptySeq
<1>5. /\ Head(w) = w[1] /\ Tail(w) \in Seq(Message) /\ Len(Tail(w)) = Len(w) - 1
      /\ \A i \in 1..Len(Tail(w)) : Tail(w)[i] = w[i + 1]
  BY <1>1, <1>4, HeadTailProperties
<1>6. Head(w) = Head(u)
  BY <1>1, <1>2, <1>5
<1>7. Len(Tail(w)) = Len(x)
  BY <1>1, <1>2, <1>3, <1>5
<1>8. ASSUME NEW i \in 1..Len(Tail(w)) PROVE Tail(w)[i] = x[i]
  <2>1. /\ i \in 1..(Len(Tail(u)) + Len(v)) /\ i + 1 \in 1..(Len(u) + Len(v))
        /\ (i <= Len(Tail(u)) <=> i + 1 <= Len(u)) /\ (i + 1) - Len(u) = i - Len(Tail(u))
    BY <1>1, <1>2, <1>5, <1>8
  <2>2. Tail(w)[i] = IF i + 1 <= Len(u) THEN u[i + 1] ELSE v[(i + 1) - Len(u)]
    BY <1>1, <1>5, <1>8, <2>1
  <2>3. i <= Len(Tail(u)) => Tail(u)[i] = u[i + 1]
    BY <1>1, <1>2, <1>5, <1>8
  <2> QED BY <1>3, <2>1, <2>2, <2>3
<1>9. Tail(w) = x
  BY <1>3, <1>5, <1>7, <1>8, SeqEqual
<1> QED BY <1>4, <1>6, <1>9 DEF w, x

LEMMA ReceiveOrdered ==
  ASSUME Ordered, Receive
  PROVE  Linked' /\ Introduced' /\ Follows'
<1> DEFINE m == Head(wire)
<1>1. /\ wire # <<>> /\ UNCHANGED journal
      /\ \/ Lost /\ UNCHANGED <<cursor, accepted>>
         \/ /\ wire' = Tail(wire)
            /\ cursor' = IF m.sequence = cursor + 1 THEN m.sequence ELSE cursor
            /\ accepted' = (accepted \/ m.kind = "accepted")
            /\ UNCHANGED <<link, outbound, attachment, position, live>>
  BY DEF Receive, history, client, follower
<1>2. /\ Typed /\ wire \in Seq(Message) /\ outbound \in Seq(Message) /\ Underway \in Seq(Message)
      /\ cursor \in Nat /\ High \in Nat /\ High' = High
  BY <1>1, AtHand DEF Ordered, High
<1>3. CASE Lost /\ UNCHANGED <<cursor, accepted>>
  BY <1>1, <1>3, EndsOrdered
<1>4. CASE /\ wire' = Tail(wire)
           /\ cursor' = IF m.sequence = cursor + 1 THEN m.sequence ELSE cursor
           /\ accepted' = (accepted \/ m.kind = "accepted")
           /\ UNCHANGED <<link, outbound, attachment, position, live>>
  <2>1. Underway # <<>> /\ Head(Underway) = m /\ Underway' = Tail(Underway)
    BY <1>1, <1>2, <1>4, HeadTailConcat DEF Underway
  <2>2. m \in Message
    BY <1>1, <1>2, HeadTailProperties
  <2>3. PICK l \in cursor..High : Chain(Underway, cursor, l) /\ Stands(l)
    BY DEF Ordered, Follows
  <2>4. l \in Nat /\ cursor <= l /\ l <= High
    BY <1>2
  <2>5. Linked'
    <3>1. link # "down" /\ UNCHANGED <<link, outbound, attachment, live>>
      BY <1>1, <1>4 DEF Ordered, Linked
    <3>2. Events(Underway) = {} => Events(Underway') = {}
      BY <1>2, <2>1, TailOf
    <3> QED BY <3>1, <3>2 DEF Ordered, Linked
  <2>6. CASE m.kind = "event"
    <3>1. m.sequence = cursor + 1 /\ cursor + 1 <= l /\ Chain(Underway', cursor + 1, l)
      BY <1>2, <2>1, <2>3, <2>4, <2>6, ChainTake
    <3>2. cursor' = cursor + 1
      BY <1>4, <3>1
    <3>3. Follows'
      <4>1. l \in cursor'..High'
        BY <1>2, <2>4, <3>1, <3>2
      <4> QED BY <1>2, <1>4, <2>3, <3>1, <3>2, <4>1 DEF Follows, Stands
    <3>4. accepted
      <4>1. ~accepted => Heralded(Underway)
        BY DEF Ordered, Introduced
      <4> QED BY <1>2, <2>1, <2>6, <4>1, HeraldTail
    <3>5. Introduced'
      BY <1>4, <3>4 DEF Introduced
    <3> QED BY <2>5, <3>3, <3>5
  <2>7. CASE m.kind # "event"
    <3>1. m.sequence = 0 /\ cursor' = cursor
      BY <1>2, <1>4, <2>2, <2>7, MessageShape
    <3>2. Chain(Underway', cursor, l)
      BY <1>2, <2>1, <2>3, <2>4, <2>7, ChainSkip
    <3>3. Follows'
      BY <1>2, <1>4, <2>3, <3>1, <3>2 DEF Follows, Stands
    <3>4. Introduced'
      <4> SUFFICES ASSUME ~accepted'
                   PROVE  /\ cursor' = 0 /\ Heralded(Underway')
                          /\ attachment # "none" => Heralds(Underway') # {}
        BY <1>4 DEF Introduced
      <4>1. ~accepted /\ m.kind # "accepted"
        BY <1>4
      <4>2. /\ cursor = 0 /\ Heralded(Underway)
            /\ attachment # "none" => Heralds(Underway) # {}
        BY <4>1 DEF Ordered, Introduced
      <4>3. /\ Heralded(Tail(Underway))
            /\ Heralds(Underway) # {} => Heralds(Tail(Underway)) # {}
        BY <1>2, <2>1, <4>1, <4>2, HeraldTail
      <4> QED BY <2>1, <3>1, <4>2, <4>3
    <3> QED BY <2>5, <3>3, <3>4
  <2> QED BY <2>6, <2>7
<1> QED BY <1>1, <1>3, <1>4

(* The steps that touch nothing of this, and the socket that opens.         *)
LEMMA StillOrdered ==
  ASSUME Ordered,
         UNCHANGED <<journal, cursor, accepted, wire, outbound, attachment, position, live>>,
         link' = link \/ (link = "down" /\ link' = "asking")
  PROVE  Linked' /\ Introduced' /\ Follows'
<1>1. Underway' = Underway /\ High' = High
  BY DEF Underway, High
<1>2. link = "down" => Events(Underway) = {}
  <2> SUFFICES ASSUME link = "down" PROVE Events(Underway) = {}
    OBVIOUS
  <2>1. Underway = <<>>
    BY DEF Ordered, Linked, Underway
  <2> QED BY <2>1, NothingUnderway
<1>3. Linked'
  BY <1>1, <1>2 DEF Ordered, Linked
<1>4. Introduced'
  BY <1>1 DEF Ordered, Introduced
<1>5. Follows'
  BY <1>1 DEF Ordered, Follows, Stands
<1> QED BY <1>3, <1>4, <1>5

LEMMA OrderedInit == Init => Ordered
<1> SUFFICES ASSUME Init PROVE Ordered
  OBVIOUS
<1>1. Typed
  BY TypesInit
<1>2. /\ cursor = 0 /\ wire = <<>> /\ outbound = <<>> /\ live = <<>>
      /\ link = "down" /\ attachment = "none"
  BY DEF Init
<1>3. Underway = <<>> /\ High \in Nat
  BY <1>1, <1>2, AtHand DEF Underway
<1>4. Linked
  BY <1>2 DEF Linked
<1>5. Introduced
  BY <1>2, <1>3, NothingUnderway DEF Introduced
<1>6. Follows
  <2>1. 0 \in cursor..High /\ Chain(Underway, cursor, 0)
    BY <1>2, <1>3, NothingUnderway
  <2> QED BY <1>2, <2>1 DEF Follows, Stands
<1> QED BY <1>1, <1>4, <1>5, <1>6 DEF Ordered

LEMMA OrderedNext == Ordered /\ [Next]_vars => Ordered'
<1> SUFFICES ASSUME Ordered, [Next]_vars PROVE Ordered'
  OBVIOUS
<1>1. Typed'
  BY TypesNext DEF Ordered
<1>2. CASE Begin
  <2>1. UNCHANGED <<journal, cursor, accepted, link, wire, outbound, attachment, position, live>>
    BY <1>2 DEF Begin, History!Begin, client, connection, follower
  <2> QED BY <1>1, <2>1, StillOrdered DEF Ordered
<1>3. CASE Connect
  <2>1. /\ link = "down" /\ link' = "asking"
        /\ UNCHANGED <<journal, cursor, accepted, wire, outbound, attachment, position, live>>
    BY <1>3 DEF Connect, history, client, follower
  <2> QED BY <1>1, <2>1, StillOrdered DEF Ordered
<1>4. CASE UNCHANGED vars
  <2>1. UNCHANGED <<journal, cursor, accepted, link, wire, outbound, attachment, position, live>>
    BY <1>4 DEF vars, history, client, connection, follower
  <2> QED BY <1>1, <2>1, StillOrdered DEF Ordered
<1>5. CASE Drop
  <2>1. Lost /\ UNCHANGED <<journal, cursor, accepted>>
    BY <1>5 DEF Drop, history, client
  <2> QED BY <1>1, <2>1, EndsOrdered DEF Ordered
<1>6. CASE Overflowed
  <2>1. Close /\ UNCHANGED <<journal, cursor, accepted>>
    BY <1>6 DEF Overflowed, history, client
  <2> QED BY <1>1, <2>1, EndsOrdered DEF Ordered
<1>7. CASE Append1
  BY <1>1, <1>7, Append1Ordered DEF Ordered
<1>8. CASE Request
  BY <1>1, <1>8, RequestOrdered DEF Ordered
<1>9. CASE Replay
  BY <1>1, <1>9, ReplayOrdered DEF Ordered
<1>10. CASE Deliver
  BY <1>1, <1>10, DeliverOrdered DEF Ordered
<1>11. CASE Reply
  BY <1>1, <1>11, ReplyOrdered DEF Ordered
<1>12. CASE Write
  BY <1>1, <1>12, WriteOrdered DEF Ordered
<1>13. CASE Receive
  BY <1>1, <1>13, ReceiveOrdered DEF Ordered
<1> QED BY <1>2, <1>3, <1>4, <1>5, <1>6, <1>7, <1>8, <1>9, <1>10, <1>11, <1>12, <1>13
        DEF Next, Serve

LEMMA OrderedIsGapless == Ordered => NoGapNoDuplicate
<1> SUFFICES ASSUME Ordered PROVE NoGapNoDuplicate
  OBVIOUS
<1>1. PICK l \in cursor..High : Chain(Underway, cursor, l) /\ Stands(l)
  BY DEF Ordered, Follows
<1>2. Sent = Events(Underway)
  BY DEF Sent, Events
<1>3. {Underway[i].sequence : i \in Sent} = (cursor + 1)..l
  <2>1. \A i \in Sent : Underway[i].sequence \in (cursor + 1)..l
    BY <1>1, <1>2 DEF Chain
  <2>2. \A n \in (cursor + 1)..l : \E i \in Sent : Underway[i].sequence = n
    BY <1>1, <1>2 DEF Chain
  <2> QED BY <2>1, <2>2
<1>4. \A i, j \in Sent : i < j => Underway[i].sequence < Underway[j].sequence
  BY <1>1, <1>2 DEF Chain
<1> QED BY <1>1, <1>3, <1>4 DEF NoGapNoDuplicate, Stands

(* Whatever way replay, publication, overflow, closing and loss interleave, *)
(* what is on its way continues the client's cursor one by one and the live *)
(* subscription holds exactly what was recorded since.                      *)
THEOREM DeliveryInOrder == Spec => []NoGapNoDuplicate
BY OrderedInit, OrderedNext, OrderedIsGapless, PTL DEF Spec

-----------------------------------------------------------------------------
(* The followed run.                                                        *)

(* Delivery neither needs nor makes more of a run than RunHistory allows:   *)
(* with the refinement of the coordinator, what is shown here holds of any  *)
(* run the coordinator drives.                                              *)
THEOREM FollowsAHistory == Spec => History!Spec
<1> USE DEF History!NoticeKind, History!TerminalStatus
<1>1. Init => History!Init
  BY DEF Init, History!Init
<1>2. TypeOK /\ [Next]_vars => [History!Next]_History!history
  <2> SUFFICES ASSUME TypeOK, [Next]_vars
               PROVE  (\E r \in {Run} : \/ History!Admit(r) \/ History!Begin(r)
                         \/ \E k \in NoticeKind : History!Note(r, k)
                         \/ \E st \in TerminalStatus : History!Settle(r, st)
                         \/ History!LateWarning(r))
                      \/ UNCHANGED <<status, journal>>
    BY DEF History!Next, History!history
  <2>1. CASE Begin
    BY <2>1 DEF Begin
  <2>2. CASE Append1
    <3>1. \/ \E k \in NoticeKind : History!Note(Run, k)
          \/ \E st \in TerminalStatus : History!Settle(Run, st)
          \/ History!LateWarning(Run)
      <4> HIDE DEF NoticeKind, TerminalStatus
      <4> QED BY <2>2 DEF Append1
    <3> QED BY <3>1
  <2>3. CASE Request
    <3>1. UNCHANGED journal
          /\ (status' = status
              \/ status' = [status EXCEPT ![Run] = IF @ = "none" THEN "queued" ELSE @])
      BY <2>3 DEF Request, Asked
    <3>2. CASE status' = status
      BY <3>1, <3>2
    <3>3. CASE /\ status' = [status EXCEPT ![Run] = IF @ = "none" THEN "queued" ELSE @]
               /\ status[Run] = "none"
      <4>1. History!Admit(Run)
        BY <3>1, <3>3 DEF History!Admit
      <4> QED BY <4>1
    <3>4. CASE /\ status' = [status EXCEPT ![Run] = IF @ = "none" THEN "queued" ELSE @]
               /\ status[Run] # "none"
      <4>1. status' = status
        BY <3>4 DEF TypeOK
      <4> QED BY <3>1, <4>1
    <3> QED BY <3>1, <3>2, <3>3, <3>4
  <2>4. CASE Replay \/ Deliver \/ Overflowed \/ Write \/ Reply \/ Connect \/ Drop \/ Receive
    BY <2>4 DEF Replay, Deliver, Overflowed, Write, Reply, Connect, Drop, Receive, history
  <2>5. CASE UNCHANGED vars
    BY <2>5 DEF vars, history
  <2> QED BY <2>1, <2>2, <2>3, <2>4, <2>5 DEF Next, Serve
<1> QED BY <1>1, <1>2, TypesCorrect, PTL DEF Spec, History!Spec
=============================================================================
