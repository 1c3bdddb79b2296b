-------------------------- MODULE WrappedMessageProofs --------------------------
(***************************************************************************)
(* Proofs about WrappedMessage for every list of instructions.             *)
(*                                                                         *)
(* CompileInv follows the key map through the visits of compile: a flag of *)
(* a key is set when a visit that came asked for it, so that in the end    *)
(* the flags are those Asked for.  MessageInv says which cells the message *)
(* is made of, and ExecuteInv keeps the cursor of execute_message in front *)
(* of the bytes of the next instruction.                                   *)
(***************************************************************************)
EXTENDS WrappedMessage, FiniteSetTheorems, SequenceTheorems, WellFoundedInduction, TLAPS

------------------------------------------------------------------------------
(* The inductive invariant. *)

(* The visits of the proposal, and how many of them came already. *)
Journey == Visits(request.payer, request.instructions)

Seen == Len(Journey) - Len(todo)

(* What the first n visits asked for a key. *)
AskedIn(vs, n, key, flag) == \E k \in 1..n : vs[k].key = key /\ vs[k][flag]

(* The key map after n visits: a key once, with the flags that were asked. *)
Compiled(map, vs, n) ==
  /\ map \in Seq(KeyMetas)
  /\ \A j, k \in 1..Len(map) : map[j].key = map[k].key => j = k
  /\ \A j \in 1..Len(map) :
       /\ map[j].signer <=> AskedIn(vs, n, map[j].key, "signer")
       /\ map[j].writable <=> AskedIn(vs, n, map[j].key, "writable")
       /\ \E k \in 1..n : vs[k].key = map[j].key
  /\ \A k \in 1..n : \E j \in 1..Len(map) : map[j].key = vs[k].key
  /\ n > 0 => Len(map) # 0 /\ map[1].key = vs[1].key

CompileInv ==
  /\ request \in [payer : Payers, instructions : InstructionLists]
  /\ Seen \in 0..Len(Journey) /\ todo = SubSeq(Journey, Seen + 1, Len(Journey))
  /\ Compiled(entries, Journey, Seen)

(* The bytes of the instructions, and those of the first k. *)
Parts(map, instructions) ==
  Mapped(instructions, LAMBDA ix : InstructionBytes(StaticKeys(map), ix))

Written(k) == FlattenSeq(SubSeq(Parts(entries, request.instructions), 1, k))

Encoded(map, instructions) ==
  Header(map) \o SmallArray(StaticKeys(map)) \o <<Len(instructions)>>
    \o FlattenSeq(Parts(map, instructions))

MessageInv ==
  message # None => todo = <<>> /\ message = Encoded(entries, request.instructions)

(* An account of an invoked instruction is one of the message's keys, with the
   privileges of its place. *)
FromMessage(m) ==
  \E i \in 0..NumKeys - 1 :
    m = [key |-> At(message, 4 + i), signer |-> IsSignerIndex(i),
         writable |-> IsStaticWritableIndex(i)]

(* What execute_message invokes: the data is a part of the message. *)
Cells == Int \cup Keys \cup Data

Invocations == [program : Keys, keys : Seq(KeyMetas), data : Seq(Cells)]

(* The n-th invoked instruction is the n-th proposed one. *)
SameCall(e, ix) ==
  /\ e.program = ix.program /\ e.data = ix.data
  /\ Mapped(e.keys, LAMBDA m : m.key) = Mapped(ix.keys, LAMBDA m : m.key)

InvokedAsAsked(n) == SameCall(invoked[n], request.instructions[n])

ExecuteInv ==
  /\ executor \in Members \cup {None}
  /\ executor = None => invoked = <<>> /\ offset = 0
  /\ executor # None =>
       /\ message # None /\ metas = AccountMetas /\ Signable(executor)
       /\ invoked \in Seq(Invocations) /\ Len(invoked) <= Len(request.instructions)
       /\ offset = 5 + NumKeys + Len(Written(Len(invoked)))
       /\ \A n \in 1..Len(invoked) :
            InvokedAsAsked(n) /\ \A m \in ToSet(invoked[n].keys) : FromMessage(m)

WInv == CompileInv /\ MessageInv /\ ExecuteInv

------------------------------------------------------------------------------
(* Flattening. *)

(* Induction over the natural numbers as a fact about sets, from the library's
   theorem that they are well founded. *)
LEMMA NatInduct ==
  ASSUME NEW T \in SUBSET Nat, 0 \in T, \A n \in T : n + 1 \in T
  PROVE  \A n \in Nat : n \in T
<1> DEFINE Out == Nat \ T
<1> SUFFICES ASSUME Out # {} PROVE FALSE
  OBVIOUS
<1>1. IsWellFoundedOn(OpToRel(<, Nat), Nat)
  BY NatLessThanWellFounded
<1>2. PICK n \in Out : \A m \in Out : <<m, n>> \notin OpToRel(<, Nat)
  BY <1>1, WFMin
<1>3. \A m \in Out : ~(m < n)
  BY <1>2 DEF OpToRel
<1>4. n \in Nat /\ n # 0 /\ n \notin T
  OBVIOUS
<1>5. n - 1 \in Nat /\ n - 1 < n /\ (n - 1) + 1 = n
  BY <1>4
<1>6. n - 1 \in T
  BY <1>3, <1>5
<1> QED
  BY <1>4, <1>5, <1>6

(* Induction up to a bound. *)
LEMMA UptoInduct ==
  ASSUME NEW L \in Nat, NEW T, 0 \in T, \A n \in 0..L - 1 : n \in T => n + 1 \in T
  PROVE  \A n \in 0..L : n \in T
<1> DEFINE R == {n \in Nat : n <= L => n \in T}
<1>1. R \in SUBSET Nat /\ 0 \in R
  OBVIOUS
<1>2. ASSUME NEW n \in R PROVE n + 1 \in R
  <2>1. n \in Nat /\ (n + 1 <= L => n \in 0..L - 1 /\ n <= L)
    OBVIOUS
  <2> QED
    BY <2>1
<1>3. \A n \in Nat : n \in R
  BY <1>1, <1>2, NatInduct
<1> QED
  BY <1>3

(* The recursion of FlattenSeq. *)
Joined(f, ss, i) == IF i = 1 THEN ss[i] ELSE f[i - 1] \o ss[i]

Joins(f, ss) == f = [i \in 1..Len(ss) |-> Joined(f, ss, i)]

LEMMA JoinStep ==
  ASSUME NEW ss, NEW f, Joins(f, ss), NEW i \in 1..Len(ss)
  PROVE  f[i] = Joined(f, ss, i)
  BY DEF Joins

LEMMA JoinExists ==
  ASSUME NEW S, NEW ss \in Seq(Seq(S))
  PROVE  \E f \in [1..Len(ss) -> Seq(S)] : Joins(f, ss)
<1> DEFINE L == Len(ss)
           Good(n) == \E f \in [1..L -> Seq(S)] :
                        \A i \in 1..L : i <= n => f[i] = Joined(f, ss, i)
<1>1. L \in Nat /\ \A i \in 1..L : ss[i] \in Seq(S)
  OBVIOUS
<1>2. Good(0)
  <2>1. [i \in 1..L |-> <<>>] \in [1..L -> Seq(S)]
    OBVIOUS
  <2> QED
    BY <1>1, <2>1
<1>3. ASSUME NEW n \in Nat, Good(n)
      PROVE  Good(n + 1)
  <2>1. PICK f \in [1..L -> Seq(S)] : \A i \in 1..L : i <= n => f[i] = Joined(f, ss, i)
    BY <1>3
  <2>2. \A i \in 1..L : Joined(f, ss, i) \in Seq(S)
    <3> SUFFICES ASSUME NEW i \in 1..L PROVE Joined(f, ss, i) \in Seq(S)
      OBVIOUS
    <3>1. CASE i = 1
      BY <1>1, <3>1 DEF Joined
    <3>2. CASE i # 1
      <4>1. i - 1 \in 1..L
        BY <1>1, <3>2
      <4>2. f[i - 1] \in Seq(S) /\ ss[i] \in Seq(S)
        BY <1>1, <4>1
      <4> QED
        BY <3>2, <4>2 DEF Joined
    <3> QED
      BY <3>1, <3>2
  <2> DEFINE h == [i \in 1..L |-> Joined(f, ss, i)]
  <2>3. h \in [1..L -> Seq(S)] /\ \A i \in 1..L : h[i] = Joined(f, ss, i)
    BY <2>2
  <2> HIDE DEF h
  <2>4. ASSUME NEW i \in 1..L, i <= n + 1
        PROVE  h[i] = Joined(h, ss, i)
    <3>1. CASE i = 1
      BY <2>3, <3>1 DEF Joined
    <3>2. CASE i # 1
      <4>1. i - 1 \in 1..L /\ i - 1 <= n
        BY <1>1, <2>4, <3>2
      <4>2. h[i - 1] = f[i - 1]
        BY <2>1, <2>3, <4>1
      <4> QED
        BY <2>3, <3>2, <4>2 DEF Joined
    <3> QED
      BY <3>1, <3>2
  <2> QED
    BY <2>3, <2>4
<1>4. \A n \in Nat : Good(n)
  <2> HIDE DEF Good
  <2> DEFINE T == {n \in Nat : Good(n)}
  <2>1. T \in SUBSET Nat /\ 0 \in T /\ \A n \in T : n + 1 \in T
    BY <1>2, <1>3
  <2> QED
    BY <2>1, NatInduct
<1>5. PICK f \in [1..L -> Seq(S)] : \A i \in 1..L : i <= L => f[i] = Joined(f, ss, i)
  BY <1>1, <1>4
<1>6. f = [i \in 1..L |-> Joined(f, ss, i)]
  BY <1>1, <1>5
<1> QED
  BY <1>6 DEF Joins

(* FlattenSeq is the last value of a function that solves it. *)
LEMMA FlattenJoins ==
  ASSUME NEW S, NEW ss \in Seq(Seq(S)), Len(ss) # 0
  PROVE  \E f : Joins(f, ss) /\ FlattenSeq(ss) = f[Len(ss)]
<1> DEFINE f == CHOOSE f : Joins(f, ss)
<1>1. Joins(f, ss)
  BY JoinExists
<1>2. FlattenSeq(ss) = f[Len(ss)]
  BY DEF FlattenSeq, Joins, Joined
<1> QED
  BY <1>1, <1>2

(* The solution for the first k sequences is that for all of them. *)
Agree(ss, tt, k) ==
  \A i \in 1..k : i \in 1..Len(ss) /\ i \in 1..Len(tt) /\ ss[i] = tt[i]

LEMMA JoinUnique ==
  ASSUME NEW ss, NEW tt, NEW f, NEW g, NEW k \in Nat \ {0},
         Joins(f, ss), Joins(g, tt), Agree(ss, tt, k)
  PROVE  f[k] = g[k]
<1> DEFINE T == {n \in Nat : n \in 1..k => f[n] = g[n]}
<1>1. \A i \in 1..k : ss[i] = tt[i] /\ f[i] = Joined(f, ss, i) /\ g[i] = Joined(g, tt, i)
  BY JoinStep DEF Agree
<1>2. T \in SUBSET Nat /\ 0 \in T
  OBVIOUS
<1>3. ASSUME NEW n \in T PROVE n + 1 \in T
  <2> SUFFICES ASSUME n + 1 \in 1..k PROVE f[n + 1] = g[n + 1]
    OBVIOUS
  <2>1. CASE n = 0
    BY <1>1, <2>1 DEF Joined
  <2>2. CASE n # 0
    <3>1. n \in 1..k /\ (n + 1) - 1 = n /\ n + 1 # 1 /\ n + 1 \in 1..k
      BY <2>2
    <3>2. f[n] = g[n]
      BY <3>1
    <3>3. f[n + 1] = f[n] \o ss[n + 1] /\ g[n + 1] = g[n] \o tt[n + 1]
      BY <1>1, <3>1 DEF Joined
    <3> QED
      BY <1>1, <3>1, <3>2, <3>3
  <2> QED
    BY <2>1, <2>2
<1>4. \A n \in Nat : n \in T
  <2> HIDE DEF T
  <2> QED
    BY <1>2, <1>3, NatInduct
<1> QED
  BY <1>4

(* The first k sequences, flattened. *)
Upto(ss, k) == FlattenSeq(SubSeq(ss, 1, k))

LEMMA FlattenSteps ==
  ASSUME NEW S, NEW ss \in Seq(Seq(S))
  PROVE  /\ Upto(ss, 0) = <<>>
         /\ \A k \in 0..Len(ss) : Upto(ss, k) \in Seq(S)
         /\ \A k \in 1..Len(ss) : Upto(ss, k) = Upto(ss, k - 1) \o ss[k]
         /\ FlattenSeq(ss) = Upto(ss, Len(ss))
<1>0. Len(ss) \in Nat
  OBVIOUS
<1>1. PICK f \in [1..Len(ss) -> Seq(S)] : Joins(f, ss)
  BY JoinExists
<1>2. Upto(ss, 0) = <<>>
  <2>1. SubSeq(ss, 1, 0) = <<>>
    OBVIOUS
  <2>2. FlattenSeq(<<>>) = <<>>
    BY DEF FlattenSeq
  <2> QED
    BY <2>1, <2>2 DEF Upto
<1>3. ASSUME NEW k \in 1..Len(ss)
      PROVE  Upto(ss, k) = f[k]
  <2> DEFINE tt == SubSeq(ss, 1, k)
  <2>0. k \in Nat /\ k # 0 /\ k <= Len(ss)
    OBVIOUS
  <2>1. tt \in Seq(Seq(S)) /\ Len(tt) = k /\ \A i \in 1..k : tt[i] = ss[i]
    OBVIOUS
  <2> HIDE DEF tt
  <2>2. PICK g : Joins(g, tt) /\ FlattenSeq(tt) = g[k]
    <3>1. Len(tt) # 0
      BY <2>0, <2>1
    <3>2. \E g : Joins(g, tt) /\ FlattenSeq(tt) = g[Len(tt)]
      BY <2>1, <3>1, FlattenJoins
    <3> QED
      BY <2>1, <3>2
  <2>3. f[k] = g[k]
    <3>1. Agree(ss, tt, k)
      BY <1>0, <2>0, <2>1 DEF Agree
    <3> QED
      BY <1>1, <2>0, <2>2, <3>1, JoinUnique
  <2>4. FlattenSeq(tt) = f[k]
    BY <2>0, <2>2, <2>3
  <2> QED
    BY <2>4 DEF tt, Upto
<1>4. \A k \in 0..Len(ss) : Upto(ss, k) \in Seq(S)
  <2> SUFFICES ASSUME NEW k \in 0..Len(ss) PROVE Upto(ss, k) \in Seq(S)
    OBVIOUS
  <2>1. CASE k = 0
    <3>1. <<>> \in Seq(S)
      OBVIOUS
    <3> QED
      BY <1>2, <2>1, <3>1, Zenon
  <2>2. CASE k # 0
    <3>1. k \in 1..Len(ss)
      BY <1>0, <2>2
    <3>2. f[k] \in Seq(S)
      BY <3>1
    <3>3. Upto(ss, k) = f[k]
      BY <1>3, <3>1
    <3> QED
      BY <3>2, <3>3
  <2> QED
    BY <2>1, <2>2
<1>5. ASSUME NEW k \in 1..Len(ss)
      PROVE  Upto(ss, k) = Upto(ss, k - 1) \o ss[k]
  <2>0. f[k] = Joined(f, ss, k) /\ ss[k] \in Seq(S)
    <3>1. ss[k] \in Seq(S)
      OBVIOUS
    <3> QED
      BY <1>1, <3>1, JoinStep
  <2>1. CASE k = 1
    BY <1>2, <1>3, <2>0, <2>1 DEF Joined
  <2>2. CASE k # 1
    <3>1. k - 1 \in 1..Len(ss)
      BY <2>2
    <3> QED
      BY <1>3, <2>0, <2>2, <3>1 DEF Joined
  <2> QED
    BY <2>1, <2>2
<1>6. FlattenSeq(ss) = Upto(ss, Len(ss))
  <2>1. SubSeq(ss, 1, Len(ss)) = ss
    OBVIOUS
  <2> QED
    BY <2>1 DEF Upto
<1> QED
  BY <1>2, <1>4, <1>5, <1>6

(* The flattened sequence has the type of its parts. *)
LEMMA FlattenType ==
  ASSUME NEW S, NEW ss \in Seq(Seq(S))
  PROVE  FlattenSeq(ss) \in Seq(S) /\ Len(FlattenSeq(ss)) \in Nat
<1>1. Len(ss) \in 0..Len(ss)
  OBVIOUS
<1>2. FlattenSeq(ss) \in Seq(S)
  BY <1>1, FlattenSteps
<1> QED
  BY <1>2

(* The first k sequences are a part of all. *)
LEMMA UptoGrows ==
  ASSUME NEW S, NEW ss \in Seq(Seq(S)), NEW k \in 0..Len(ss)
  PROVE  /\ Len(Upto(ss, k)) \in 0..Len(FlattenSeq(ss))
         /\ \A i \in 1..Len(Upto(ss, k)) : FlattenSeq(ss)[i] = Upto(ss, k)[i]
<1> DEFINE L == Len(ss)
           U(n) == Upto(ss, n)
           T == {n \in k..L : /\ Len(U(k)) <= Len(U(n))
                              /\ \A i \in 1..Len(U(k)) : U(n)[i] = U(k)[i]}
<1>0. L \in Nat /\ k \in Nat /\ k <= L
  OBVIOUS
<1>1. \A n \in 0..L : U(n) \in Seq(S) /\ Len(U(n)) \in Nat
  <2>1. \A n \in 0..L : U(n) \in Seq(S)
    BY FlattenSteps
  <2> QED
    BY <2>1
<1>2. \A n \in 1..L : U(n) = U(n - 1) \o ss[n] /\ ss[n] \in Seq(S)
  <2>1. \A n \in 1..L : ss[n] \in Seq(S)
    OBVIOUS
  <2> QED
    BY <2>1, FlattenSteps
<1>3. FlattenSeq(ss) = U(L)
  BY FlattenSteps
<1> HIDE DEF L, U
<1>4. ASSUME NEW n \in k..L - 1, n \in T
      PROVE  n + 1 \in T
  <2>1. n + 1 \in 1..L /\ n \in 0..L /\ (n + 1) - 1 = n /\ n + 1 \in k..L
    BY <1>0
  <2>2. U(n + 1) = U(n) \o ss[n + 1] /\ ss[n + 1] \in Seq(S) /\ U(n) \in Seq(S)
    BY <1>1, <1>2, <2>1
  <2>3. /\ Len(U(n)) <= Len(U(n + 1))
        /\ \A i \in 1..Len(U(n)) : U(n + 1)[i] = U(n)[i]
    <3> HIDE DEF T
    <3> QED
      BY <2>2
  <2>4. Len(U(k)) \in Nat /\ Len(U(n)) \in Nat /\ Len(U(n + 1)) \in Nat
    BY <1>0, <1>1, <2>1
  <2>5. /\ Len(U(k)) <= Len(U(n))
        /\ \A i \in 1..Len(U(k)) : U(n)[i] = U(k)[i]
    BY <1>4
  <2>6. Len(U(k)) <= Len(U(n + 1))
    BY <2>3, <2>4, <2>5
  <2>7. \A i \in 1..Len(U(k)) : U(n + 1)[i] = U(k)[i]
    BY <2>3, <2>4, <2>5
  <2> QED
    BY <2>1, <2>6, <2>7
<1>5. k \in T
  <2>1. Len(U(k)) \in Nat
    BY <1>0, <1>1
  <2> QED
    BY <1>0, <2>1
<1>6. \A n \in 0..L - k : k + n \in T
  <2> DEFINE R == {n \in Nat : k + n \in T}
  <2>1. 0 \in R
    BY <1>0, <1>5
  <2>2. \A n \in 0..(L - k) - 1 : n \in R => n + 1 \in R
    <3> SUFFICES ASSUME NEW n \in 0..(L - k) - 1, k + n \in T
                 PROVE  n + 1 \in R
      OBVIOUS
    <3>1. k + n \in k..L - 1 /\ (k + n) + 1 = k + (n + 1) /\ n + 1 \in Nat
      BY <1>0
    <3>2. (k + n) + 1 \in T
      BY <1>4, <3>1
    <3> QED
      BY <3>1, <3>2
  <2>3. L - k \in Nat
    BY <1>0
  <2> HIDE DEF R
  <2>4. \A n \in 0..L - k : n \in R
    BY <2>1, <2>2, <2>3, UptoInduct
  <2> QED
    BY <2>4 DEF R
<1>7. L \in T
  <2>1. L - k \in 0..L - k /\ k + (L - k) = L
    BY <1>0
  <2> QED
    BY <1>6, <2>1
<1>8. /\ Len(U(k)) <= Len(U(L)) /\ Len(U(k)) \in Nat /\ Len(U(L)) \in Nat
      /\ \A i \in 1..Len(U(k)) : U(L)[i] = U(k)[i]
  BY <1>0, <1>1, <1>7
<1> QED
  BY <1>3, <1>8 DEF U

(* Where the k-th sequence is. *)
Piece(S, whole, before, part, to) ==
  /\ whole \in Seq(S) /\ before \in Seq(S) /\ part \in Seq(S)
  /\ Len(whole) \in Nat /\ Len(before) \in Nat /\ Len(part) \in Nat
  /\ to = Len(before) + Len(part) /\ to \in 0..Len(whole)
  /\ \A i \in 1..Len(part) :
       Len(before) + i \in 1..Len(whole) /\ whole[Len(before) + i] = part[i]

LEMMA FlattenParts ==
  ASSUME NEW S, NEW ss \in Seq(Seq(S)), NEW k \in 1..Len(ss)
  PROVE  Piece(S, FlattenSeq(ss), Upto(ss, k - 1), ss[k], Len(Upto(ss, k)))
<1>1. k \in 0..Len(ss) /\ k - 1 \in 0..Len(ss) /\ ss[k] \in Seq(S)
  OBVIOUS
<1>2. Upto(ss, k - 1) \in Seq(S) /\ Upto(ss, k) = Upto(ss, k - 1) \o ss[k]
  BY <1>1, FlattenSteps
<1>3. /\ Len(Upto(ss, k)) \in 0..Len(FlattenSeq(ss))
      /\ \A i \in 1..Len(Upto(ss, k)) : FlattenSeq(ss)[i] = Upto(ss, k)[i]
  BY <1>1, UptoGrows
<1>4. PICK a : a = Upto(ss, k - 1)
  OBVIOUS
<1>5. PICK b : b = ss[k]
  OBVIOUS
<1>6. a \in Seq(S) /\ b \in Seq(S) /\ Upto(ss, k) = a \o b
  BY <1>1, <1>2, <1>4, <1>5
<1>7. /\ Len(a \o b) = Len(a) + Len(b) /\ Len(a) \in Nat /\ Len(b) \in Nat
      /\ \A i \in 1..Len(b) : Len(a) + i \in 1..Len(a \o b) /\ (a \o b)[Len(a) + i] = b[i]
  BY <1>6
<1>8. PICK w : w = FlattenSeq(ss)
  OBVIOUS
<1>9. w \in Seq(S) /\ Len(w) \in Nat
  BY <1>8, FlattenType
<1>10. PICK n \in Nat : n = Len(a \o b) /\ n = Len(a) + Len(b) /\ n <= Len(w)
  BY <1>3, <1>6, <1>7, <1>8
<1>11. \A i \in 1..n : w[i] = (a \o b)[i]
  BY <1>3, <1>6, <1>8, <1>10
<1>12. \A i \in 1..Len(b) : Len(a) + i \in 1..Len(w) /\ w[Len(a) + i] = b[i]
  <2> TAKE i \in 1..Len(b)
  <2>1. PICK x \in 1..n : x = Len(a) + i /\ (a \o b)[x] = b[i]
    BY <1>7, <1>10
  <2>2. w[x] = b[i]
    BY <1>11, <2>1
  <2>3. x \in 1..Len(w)
    BY <1>9, <1>10
  <2> QED
    BY <2>1, <2>2, <2>3
<1>13. Piece(S, w, a, b, n)
  BY <1>6, <1>7, <1>9, <1>10, <1>12 DEF Piece
<1> QED
  BY <1>4, <1>5, <1>6, <1>8, <1>10, <1>13

(* Every element comes from one of the sequences. *)
LEMMA FlattenElements ==
  ASSUME NEW S, NEW ss \in Seq(Seq(S))
  PROVE  \A j \in 1..Len(FlattenSeq(ss)) :
           \E k \in 1..Len(ss) : \E i \in 1..Len(ss[k]) : FlattenSeq(ss)[j] = ss[k][i]
<1> DEFINE L == Len(ss)
           U(n) == Upto(ss, n)
           From(x) == \E k \in 1..L : \E i \in 1..Len(ss[k]) : x = ss[k][i]
           T == {n \in 0..L : \A j \in 1..Len(U(n)) : From(U(n)[j])}
<1>0. L \in Nat
  OBVIOUS
<1>1. \A n \in 0..L : U(n) \in Seq(S)
  BY FlattenSteps
<1>2. \A n \in 1..L : U(n) = U(n - 1) \o ss[n] /\ ss[n] \in Seq(S)
  <2>1. \A n \in 1..L : ss[n] \in Seq(S)
    OBVIOUS
  <2> QED
    BY <2>1, FlattenSteps
<1>3. FlattenSeq(ss) = U(L) /\ U(0) = <<>>
  BY FlattenSteps
<1>4. \A k \in 1..L : \A i \in 1..Len(ss[k]) : From(ss[k][i])
  OBVIOUS
<1> HIDE DEF L, U, From
<1>5. 0 \in T
  BY <1>0, <1>3
<1>6. ASSUME NEW n \in 0..L - 1, n \in T
      PROVE  n + 1 \in T
  <2>1. n + 1 \in 1..L /\ n \in 0..L /\ (n + 1) - 1 = n /\ n + 1 \in 0..L
    BY <1>0
  <2>2. U(n + 1) = U(n) \o ss[n + 1] /\ ss[n + 1] \in Seq(S) /\ U(n) \in Seq(S)
    BY <1>1, <1>2, <2>1
  <2>3. \A j \in 1..Len(U(n)) : From(U(n)[j])
    BY <1>6
  <2>4. \A i \in 1..Len(ss[n + 1]) : From(ss[n + 1][i])
    BY <1>4, <2>1
  <2>5. PICK a : a = U(n)
    OBVIOUS
  <2>6. PICK b : b = ss[n + 1]
    OBVIOUS
  <2>7. a \in Seq(S) /\ b \in Seq(S)
    BY <2>2, <2>5, <2>6
  <2>8. \A j \in 1..Len(a \o b) :
          \/ (j \in 1..Len(a) /\ (a \o b)[j] = a[j])
          \/ (j - Len(a) \in 1..Len(b) /\ (a \o b)[j] = b[j - Len(a)])
    BY <2>7
  <2>9. \A j \in 1..Len(a \o b) : From((a \o b)[j])
    BY <2>3, <2>4, <2>5, <2>6, <2>8
  <2> QED
    BY <2>1, <2>2, <2>5, <2>6, <2>9
<1>7. \A n \in 0..L : n \in T
  <2> HIDE DEF T
  <2> QED
    BY <1>0, <1>5, <1>6, UptoInduct
<1>8. \A j \in 1..Len(U(L)) : From(U(L)[j])
  BY <1>0, <1>7
<1>9. PICK w : w = FlattenSeq(ss)
  OBVIOUS
<1>10. \A j \in 1..Len(w) : From(w[j])
  BY <1>3, <1>8, <1>9
<1> QED
  BY <1>9, <1>10 DEF From, L

------------------------------------------------------------------------------
(* The four groups of the key map. *)

Has(e, signer, writable) == e.signer = signer /\ e.writable = writable

Picked(map, signer, writable) ==
  [j \in DOMAIN map |-> IF Has(map[j], signer, writable) THEN <<map[j]>> ELSE <<>>]

LEMMA PickedType ==
  ASSUME NEW map \in Seq(KeyMetas), NEW signer, NEW writable
  PROVE  /\ Picked(map, signer, writable) \in Seq(Seq(KeyMetas))
         /\ Len(Picked(map, signer, writable)) = Len(map)
         /\ Len(map) \in Nat /\ DOMAIN map = 1..Len(map)
         /\ \A j \in 1..Len(map) :
              /\ map[j] \in KeyMetas
              /\ Picked(map, signer, writable)[j] =
                   IF Has(map[j], signer, writable) THEN <<map[j]>> ELSE <<>>
         /\ Group(map, signer, writable) = FlattenSeq(Picked(map, signer, writable))
<1> DEFINE P == Picked(map, signer, writable)
<1>1. Len(map) \in Nat /\ DOMAIN map = 1..Len(map) /\ \A j \in 1..Len(map) : map[j] \in KeyMetas
  OBVIOUS
<1>2. \A j \in 1..Len(map) : P[j] = IF Has(map[j], signer, writable) THEN <<map[j]>> ELSE <<>>
  BY <1>1 DEF Picked
<1>3. \A j \in 1..Len(map) : <<map[j]>> \in Seq(KeyMetas) /\ <<>> \in Seq(KeyMetas)
  BY <1>1
<1>4. P \in [1..Len(map) -> Seq(KeyMetas)]
  <2>1. P = [j \in 1..Len(map) |-> IF Has(map[j], signer, writable) THEN <<map[j]>> ELSE <<>>]
    BY <1>1 DEF Picked
  <2> HIDE DEF P
  <2> QED
    BY <1>3, <2>1
<1>5. P \in Seq(Seq(KeyMetas)) /\ Len(P) = Len(map)
  <2> HIDE DEF P
  <2>1. \E n \in Nat : P \in [1..n -> Seq(KeyMetas)]
    BY <1>1, <1>4
  <2>2. P \in Seq(Seq(KeyMetas))
    BY <2>1, SeqDef
  <2>3. DOMAIN P = 1..Len(map) /\ DOMAIN P = 1..Len(P) /\ Len(P) \in Nat
    BY <1>4, <2>2
  <2>4. Len(P) = Len(map)
    BY <1>1, <2>3
  <2> QED
    BY <2>2, <2>4
<1>6. Group(map, signer, writable) = FlattenSeq(P)
  BY DEF Group, Picked, Has
<1> QED
  BY <1>1, <1>2, <1>5, <1>6

(* What an entry adds to its group, which had these many entries before. *)
Adding(G, e, signer, writable, before, after) ==
  /\ before \in Nat
  /\ after = before + (IF Has(e, signer, writable) THEN 1 ELSE 0)
  /\ Has(e, signer, writable) => before + 1 \in 1..Len(G) /\ G[before + 1] = e

LEMMA PickedStep ==
  ASSUME NEW map \in Seq(KeyMetas), NEW signer, NEW writable, NEW n \in 1..Len(map)
  PROVE  Adding(Group(map, signer, writable), map[n], signer, writable,
                Len(Upto(Picked(map, signer, writable), n - 1)),
                Len(Upto(Picked(map, signer, writable), n)))
<1>1. PICK P : P = Picked(map, signer, writable)
  OBVIOUS
<1>2. PICK G : G = Group(map, signer, writable)
  OBVIOUS
<1>3. PICK e : e = map[n]
  OBVIOUS
<1>4. P \in Seq(Seq(KeyMetas)) /\ n \in 1..Len(P) /\ G = FlattenSeq(P)
  BY <1>1, <1>2, PickedType
<1>5. P[n] = IF Has(e, signer, writable) THEN <<e>> ELSE <<>>
  BY <1>1, <1>3, PickedType
<1>7. PICK U : U = Upto(P, n - 1)
  OBVIOUS
<1>8. Piece(KeyMetas, G, U, P[n], Len(Upto(P, n)))
  BY <1>4, <1>7, FlattenParts
<1>9. /\ Len(U) \in Nat /\ Len(Upto(P, n)) = Len(U) + Len(P[n])
      /\ \A i \in 1..Len(P[n]) : Len(U) + i \in 1..Len(G) /\ G[Len(U) + i] = P[n][i]
  BY <1>8 DEF Piece
<1>10. CASE Has(e, signer, writable)
  <2>1. P[n] = <<e>>
    BY <1>5, <1>10
  <2>2. Len(P[n]) = 1 /\ P[n][1] = e /\ 1 \in 1..Len(P[n])
    BY <2>1
  <2>3. Len(Upto(P, n)) = Len(U) + 1 /\ G[Len(U) + 1] = e /\ Len(U) + 1 \in 1..Len(G)
    BY <1>9, <2>2
  <2>4. Adding(G, e, signer, writable, Len(U), Len(Upto(P, n)))
    BY <1>9, <1>10, <2>3 DEF Adding
  <2> QED
    BY <1>1, <1>2, <1>3, <1>7, <2>4
<1>11. CASE ~Has(e, signer, writable)
  <2>1. Len(P[n]) = 0
    BY <1>5, <1>11
  <2>2. Len(Upto(P, n)) = Len(U)
    BY <1>9, <2>1
  <2>3. Adding(G, e, signer, writable, Len(U), Len(Upto(P, n)))
    BY <1>9, <1>11, <2>2 DEF Adding
  <2> QED
    BY <1>1, <1>2, <1>3, <1>7, <2>3
<1> QED
  BY <1>10, <1>11

(* A group holds entries of the map with its flags, and all of them. *)
Holds(G, map, signer, writable) ==
  /\ G \in Seq(KeyMetas)
  /\ \A j \in 1..Len(G) :
       Has(G[j], signer, writable) /\ \E i \in 1..Len(map) : G[j] = map[i]
  /\ \A i \in 1..Len(map) : Has(map[i], signer, writable) =>
       \E j \in 1..Len(G) : G[j] = map[i]

LEMMA GroupElements ==
  ASSUME NEW map \in Seq(KeyMetas), NEW signer, NEW writable
  PROVE  Holds(Group(map, signer, writable), map, signer, writable)
<1>1. PICK P : P = Picked(map, signer, writable)
  OBVIOUS
<1>2. PICK G : G = Group(map, signer, writable)
  OBVIOUS
<1>3. P \in Seq(Seq(KeyMetas)) /\ Len(P) = Len(map) /\ G = FlattenSeq(P)
  BY <1>1, <1>2, PickedType
<1>4. \A j \in 1..Len(map) : P[j] = IF Has(map[j], signer, writable) THEN <<map[j]>> ELSE <<>>
  BY <1>1, PickedType
<1>5. G \in Seq(KeyMetas)
  BY <1>3, FlattenType
<1>6. ASSUME NEW j \in 1..Len(G)
      PROVE  Has(G[j], signer, writable) /\ \E i \in 1..Len(map) : G[j] = map[i]
  <2>1. PICK k \in 1..Len(P) : \E i \in 1..Len(P[k]) : G[j] = P[k][i]
    BY <1>3, FlattenElements
  <2>2. k \in 1..Len(map) /\ P[k] = IF Has(map[k], signer, writable) THEN <<map[k]>> ELSE <<>>
    BY <1>3, <1>4, <2>1
  <2>3. CASE Has(map[k], signer, writable)
    <3>1. G[j] = map[k]
      BY <2>1, <2>2, <2>3
    <3> QED
      BY <2>2, <2>3, <3>1
  <2>4. CASE ~Has(map[k], signer, writable)
    BY <2>1, <2>2, <2>4
  <2> QED
    BY <2>3, <2>4
<1>7. ASSUME NEW i \in 1..Len(map), Has(map[i], signer, writable)
      PROVE  \E j \in 1..Len(G) : G[j] = map[i]
  <2>1. Adding(G, map[i], signer, writable, Len(Upto(P, i - 1)), Len(Upto(P, i)))
    BY <1>1, <1>2, PickedStep
  <2> QED
    BY <1>7, <2>1 DEF Adding
<1> QED
  BY <1>2, <1>5, <1>6, <1>7 DEF Holds

(* The payer's entry leads its group. *)
LEMMA GroupFirst ==
  ASSUME NEW map \in Seq(KeyMetas), NEW signer, NEW writable,
         Len(map) # 0, Has(map[1], signer, writable)
  PROVE  1 \in 1..Len(Group(map, signer, writable)) /\ Group(map, signer, writable)[1] = map[1]
<1>1. PICK P : P = Picked(map, signer, writable)
  OBVIOUS
<1>2. PICK G : G = Group(map, signer, writable)
  OBVIOUS
<1>3. 1 \in 1..Len(map) /\ 1 - 1 = 0
  OBVIOUS
<1>4. P \in Seq(Seq(KeyMetas))
  BY <1>1, PickedType
<1>5. Upto(P, 0) = <<>>
  BY <1>4, FlattenSteps
<1>6. Len(Upto(P, 0)) + 1 \in 1..Len(G) /\ G[Len(Upto(P, 0)) + 1] = map[1]
  <2>1. Adding(G, map[1], signer, writable, Len(Upto(P, 0)), Len(Upto(P, 1)))
    BY <1>1, <1>2, <1>3, PickedStep
  <2> QED
    BY <2>1 DEF Adding
<1>7. Len(Upto(P, 0)) + 1 = 1
  BY <1>5
<1> QED
  BY <1>2, <1>6, <1>7

(* The size of a group, counted from an empty map on. *)
LEMMA GroupSizes ==
  ASSUME NEW map \in Seq(KeyMetas), NEW signer, NEW writable
  PROVE  /\ Len(Upto(Picked(map, signer, writable), 0)) = 0
         /\ Len(Group(map, signer, writable)) = Len(Upto(Picked(map, signer, writable), Len(map)))
<1>1. PICK P : P = Picked(map, signer, writable)
  OBVIOUS
<1>2. /\ P \in Seq(Seq(KeyMetas)) /\ Len(P) = Len(map)
      /\ Group(map, signer, writable) = FlattenSeq(P)
  BY <1>1, PickedType
<1>3. Upto(P, 0) = <<>> /\ FlattenSeq(P) = Upto(P, Len(map))
  BY <1>2, FlattenSteps
<1>4. Len(Upto(P, 0)) = 0
  BY <1>3
<1> QED
  BY <1>1, <1>2, <1>3, <1>4

(* Every entry is in exactly one of the four groups. *)
LEMMA GroupLengths ==
  ASSUME NEW map \in Seq(KeyMetas)
  PROVE  Len(map) = Len(Group(map, TRUE, TRUE)) + Len(Group(map, TRUE, FALSE))
                      + Len(Group(map, FALSE, TRUE)) + Len(Group(map, FALSE, FALSE))
<1> DEFINE L == Len(map)
           A(n) == Len(Upto(Picked(map, TRUE, TRUE), n))
           B(n) == Len(Upto(Picked(map, TRUE, FALSE), n))
           C(n) == Len(Upto(Picked(map, FALSE, TRUE), n))
           D(n) == Len(Upto(Picked(map, FALSE, FALSE), n))
           T == {n \in 0..L : A(n) + B(n) + C(n) + D(n) = n}
<1>1. L \in Nat /\ \A n \in 1..L : map[n] \in KeyMetas
  OBVIOUS
<1>2. A(0) = 0 /\ B(0) = 0 /\ C(0) = 0 /\ D(0) = 0
  <2>1. \A signer, writable : Len(Upto(Picked(map, signer, writable), 0)) = 0
    BY GroupSizes
  <2> QED
    BY <2>1
<1>3. /\ Len(Group(map, TRUE, TRUE)) = A(L) /\ Len(Group(map, TRUE, FALSE)) = B(L)
      /\ Len(Group(map, FALSE, TRUE)) = C(L) /\ Len(Group(map, FALSE, FALSE)) = D(L)
  BY GroupSizes
<1>4. ASSUME NEW n \in 1..L
      PROVE  /\ A(n - 1) \in Nat /\ B(n - 1) \in Nat /\ C(n - 1) \in Nat /\ D(n - 1) \in Nat
             /\ A(n) + B(n) + C(n) + D(n) = A(n - 1) + B(n - 1) + C(n - 1) + D(n - 1) + 1
  <2>1. /\ A(n - 1) \in Nat /\ A(n) = A(n - 1) + (IF Has(map[n], TRUE, TRUE) THEN 1 ELSE 0)
        /\ B(n - 1) \in Nat /\ B(n) = B(n - 1) + (IF Has(map[n], TRUE, FALSE) THEN 1 ELSE 0)
        /\ C(n - 1) \in Nat /\ C(n) = C(n - 1) + (IF Has(map[n], FALSE, TRUE) THEN 1 ELSE 0)
        /\ D(n - 1) \in Nat /\ D(n) = D(n - 1) + (IF Has(map[n], FALSE, FALSE) THEN 1 ELSE 0)
    <3>1. /\ Adding(Group(map, TRUE, TRUE), map[n], TRUE, TRUE, A(n - 1), A(n))
          /\ Adding(Group(map, TRUE, FALSE), map[n], TRUE, FALSE, B(n - 1), B(n))
          /\ Adding(Group(map, FALSE, TRUE), map[n], FALSE, TRUE, C(n - 1), C(n))
          /\ Adding(Group(map, FALSE, FALSE), map[n], FALSE, FALSE, D(n - 1), D(n))
      BY PickedStep
    <3> HIDE DEF A, B, C, D
    <3> QED
      BY <3>1 DEF Adding
  <2>2. map[n].signer \in BOOLEAN /\ map[n].writable \in BOOLEAN
    BY <1>1 DEF KeyMetas
  <2> HIDE DEF A, B, C, D
  <2> QED
    BY <2>1, <2>2 DEF Has
<1> HIDE DEF A, B, C, D, L
<1>5. 0 \in T
  BY <1>1, <1>2
<1>6. ASSUME NEW n \in 0..L - 1, n \in T
      PROVE  n + 1 \in T
  <2>1. n + 1 \in 1..L /\ (n + 1) - 1 = n /\ n + 1 \in 0..L
    BY <1>1
  <2>2. A(n + 1) + B(n + 1) + C(n + 1) + D(n + 1) = A(n) + B(n) + C(n) + D(n) + 1
    BY <1>4, <2>1
  <2>3. A(n) + B(n) + C(n) + D(n) = n
    BY <1>6
  <2> QED
    BY <2>1, <2>2, <2>3
<1>7. \A n \in 0..L : n \in T
  <2> HIDE DEF T
  <2> QED
    BY <1>1, <1>5, <1>6, UptoInduct
<1>8. A(L) + B(L) + C(L) + D(L) = L
  <2>1. L \in 0..L
    BY <1>1
  <2>2. L \in T
    BY <1>7, <2>1
  <2> QED
    BY <2>2
<1> QED
  BY <1>3, <1>8 DEF L

------------------------------------------------------------------------------
(* The keys of the message. *)

(* The elements of four sequences, one after the other. *)
FourParts(a, b, c, d, i) ==
  IF i <= Len(a) THEN a[i]
  ELSE IF i <= Len(a) + Len(b) THEN b[i - Len(a)]
  ELSE IF i <= Len(a) + Len(b) + Len(c) THEN c[i - (Len(a) + Len(b))]
  ELSE d[i - (Len(a) + Len(b) + Len(c))]

Quartet(s, S, a, b, c, d) ==
  /\ s \in Seq(S) /\ Len(s) = Len(a) + Len(b) + Len(c) + Len(d)
  /\ \A i \in 1..Len(a) + Len(b) + Len(c) + Len(d) : s[i] = FourParts(a, b, c, d, i)

LEMMA FourJoined ==
  ASSUME NEW S, NEW a \in Seq(S), NEW b \in Seq(S), NEW c \in Seq(S), NEW d \in Seq(S)
  PROVE  Quartet(a \o b \o c \o d, S, a, b, c, d)
<1>1. Len(a) \in Nat /\ Len(b) \in Nat /\ Len(c) \in Nat /\ Len(d) \in Nat
  OBVIOUS
<1>2. PICK ab : ab = a \o b
  OBVIOUS
<1>3. /\ ab \in Seq(S) /\ Len(ab) = Len(a) + Len(b)
      /\ \A i \in 1..Len(a) + Len(b) : ab[i] = IF i <= Len(a) THEN a[i] ELSE b[i - Len(a)]
  BY <1>2, ConcatProperties
<1>4. PICK abc : abc = ab \o c
  OBVIOUS
<1>5. /\ abc \in Seq(S) /\ Len(abc) = Len(ab) + Len(c)
      /\ \A i \in 1..Len(ab) + Len(c) : abc[i] = IF i <= Len(ab) THEN ab[i] ELSE c[i - Len(ab)]
  BY <1>3, <1>4, ConcatProperties
<1>6. PICK abcd : abcd = abc \o d
  OBVIOUS
<1>7. /\ abcd \in Seq(S) /\ Len(abcd) = Len(abc) + Len(d)
      /\ \A i \in 1..Len(abc) + Len(d) :
           abcd[i] = IF i <= Len(abc) THEN abc[i] ELSE d[i - Len(abc)]
  <2>1. abc \in Seq(S)
    BY <1>5
  <2> QED
    BY <1>6, <2>1, ConcatProperties
<1>8. ASSUME NEW i \in 1..Len(a) + Len(b) + Len(c) + Len(d)
      PROVE  abcd[i] = FourParts(a, b, c, d, i)
  <2>1. abcd[i] = IF i <= Len(abc) THEN abc[i] ELSE d[i - Len(abc)]
    BY <1>1, <1>3, <1>5, <1>7
  <2>2. i <= Len(abc) => abc[i] = IF i <= Len(ab) THEN ab[i] ELSE c[i - Len(ab)]
    BY <1>1, <1>3, <1>5
  <2>3. i <= Len(ab) => ab[i] = IF i <= Len(a) THEN a[i] ELSE b[i - Len(a)]
    BY <1>1, <1>3
  <2> QED
    BY <1>1, <1>3, <1>5, <2>1, <2>2, <2>3 DEF FourParts
<1> QED
  BY <1>1, <1>2, <1>3, <1>4, <1>5, <1>6, <1>7, <1>8 DEF Quartet

(* The first place of a key. *)
Place(keys, key) == SelectInSeq(keys, LAMBDA k : k = key)

LEMMA PlaceOfKey ==
  ASSUME NEW S, NEW keys \in Seq(S), NEW key, \E i \in 1..Len(keys) : keys[i] = key
  PROVE  Place(keys, key) \in 1..Len(keys) /\ keys[Place(keys, key)] = key
<1> DEFINE I == {i \in 1..Len(keys) : keys[i] = key}
<1>1. Place(keys, key) = Min(I)
  BY DEF Place, SelectInSeq
<1>2. I # {} /\ I \subseteq Nat
  OBVIOUS
<1>3. \E m \in I : \A i \in I : m <= i
  <2> HIDE DEF I
  <2>1. IsWellFoundedOn(OpToRel(<, Nat), Nat)
    BY NatLessThanWellFounded
  <2>2. PICK m \in I : \A i \in I : <<i, m>> \notin OpToRel(<, Nat)
    BY <1>2, <2>1, WFMin
  <2>3. \A i \in I : ~(i < m) /\ i \in Nat /\ m \in Nat
    BY <1>2, <2>2 DEF OpToRel
  <2> QED
    BY <2>3
<1>4. Min(I) \in I
  <2> HIDE DEF I
  <2> QED
    BY <1>3 DEF Min
<1> QED
  BY <1>1, <1>4

(* The place of a key in the message tells its flags, and no key of the map is
   lost. *)
KeysPlaced(map, keys, a, b, c) ==
  /\ \A i \in 1..Len(keys) : \E j \in 1..Len(map) :
       /\ keys[i] = map[j].key
       /\ map[j].signer <=> i <= a + b
       /\ map[j].writable <=> (i <= a \/ (i > a + b /\ i <= a + b + c))
  /\ \A j \in 1..Len(map) : \E i \in 1..Len(keys) : keys[i] = map[j].key

LEMMA StaticKeysPlaced ==
  ASSUME NEW map \in Seq(KeyMetas)
  PROVE  LET a == Len(Group(map, TRUE, TRUE))
             b == Len(Group(map, TRUE, FALSE))
             c == Len(Group(map, FALSE, TRUE))
         IN  /\ a \in Nat /\ b \in Nat /\ c \in Nat /\ a + b + c <= Len(map)
             /\ Header(map) = <<a + b, a, c>>
             /\ StaticKeys(map) \in Seq(Keys) /\ Len(StaticKeys(map)) = Len(map)
             /\ KeysPlaced(map, StaticKeys(map), a, b, c)
<1>1. PICK A : A = Group(map, TRUE, TRUE)
  OBVIOUS
<1>2. PICK B : B = Group(map, TRUE, FALSE)
  OBVIOUS
<1>3. PICK C : C = Group(map, FALSE, TRUE)
  OBVIOUS
<1>4. PICK D : D = Group(map, FALSE, FALSE)
  OBVIOUS
<1>5. /\ A \in Seq(KeyMetas) /\ B \in Seq(KeyMetas) /\ C \in Seq(KeyMetas) /\ D \in Seq(KeyMetas)
      /\ \A j \in 1..Len(A) : Has(A[j], TRUE, TRUE) /\ \E i \in 1..Len(map) : A[j] = map[i]
      /\ \A j \in 1..Len(B) : Has(B[j], TRUE, FALSE) /\ \E i \in 1..Len(map) : B[j] = map[i]
      /\ \A j \in 1..Len(C) : Has(C[j], FALSE, TRUE) /\ \E i \in 1..Len(map) : C[j] = map[i]
      /\ \A j \in 1..Len(D) : Has(D[j], FALSE, FALSE) /\ \E i \in 1..Len(map) : D[j] = map[i]
  <2>1. /\ Holds(A, map, TRUE, TRUE) /\ Holds(B, map, TRUE, FALSE)
        /\ Holds(C, map, FALSE, TRUE) /\ Holds(D, map, FALSE, FALSE)
    BY <1>1, <1>2, <1>3, <1>4, GroupElements
  <2> QED
    BY <2>1 DEF Holds
<1>6. \A i \in 1..Len(map) :
        /\ Has(map[i], TRUE, TRUE) => \E j \in 1..Len(A) : A[j] = map[i]
        /\ Has(map[i], TRUE, FALSE) => \E j \in 1..Len(B) : B[j] = map[i]
        /\ Has(map[i], FALSE, TRUE) => \E j \in 1..Len(C) : C[j] = map[i]
        /\ Has(map[i], FALSE, FALSE) => \E j \in 1..Len(D) : D[j] = map[i]
  <2>1. /\ Holds(A, map, TRUE, TRUE) /\ Holds(B, map, TRUE, FALSE)
        /\ Holds(C, map, FALSE, TRUE) /\ Holds(D, map, FALSE, FALSE)
    BY <1>1, <1>2, <1>3, <1>4, GroupElements
  <2> QED
    BY <2>1 DEF Holds
<1>7. Len(A) \in Nat /\ Len(B) \in Nat /\ Len(C) \in Nat /\ Len(D) \in Nat /\ Len(map) \in Nat
  BY <1>5
<1>8. Len(map) = Len(A) + Len(B) + Len(C) + Len(D)
  BY <1>1, <1>2, <1>3, <1>4, GroupLengths
<1>9. Header(map) = <<Len(A) + Len(B), Len(A), Len(C)>>
  <2>1. Header(map) = <<Len(A) + Len(B), (Len(A) + Len(B)) - Len(B),
                        Len(map) - (Len(A) + Len(B)) - Len(D)>>
    BY <1>1, <1>2, <1>4, Zenon DEF Header
  <2>2. (Len(A) + Len(B)) - Len(B) = Len(A) /\ Len(map) - (Len(A) + Len(B)) - Len(D) = Len(C)
    BY <1>7, <1>8
  <2> QED
    BY <2>1, <2>2
<1>10. PICK s : s = A \o B \o C \o D
  OBVIOUS
<1>11. /\ s \in Seq(KeyMetas) /\ Len(s) = Len(map)
       /\ \A i \in 1..Len(map) : s[i] = FourParts(A, B, C, D, i)
  <2>1. Quartet(s, KeyMetas, A, B, C, D)
    BY <1>5, <1>10, FourJoined
  <2> QED
    BY <1>7, <1>8, <2>1 DEF Quartet
<1>12. PICK K : K = StaticKeys(map)
  OBVIOUS
<1>13. K = [i \in 1..Len(map) |-> s[i].key]
  <2>1. K = [i \in DOMAIN s |-> s[i].key]
    BY <1>1, <1>2, <1>3, <1>4, <1>10, <1>12 DEF StaticKeys, Mapped
  <2>2. DOMAIN s = 1..Len(map)
    BY <1>7, <1>11
  <2> QED
    BY <2>1, <2>2
<1>14. K \in Seq(Keys) /\ Len(K) = Len(map) /\ \A i \in 1..Len(map) : K[i] = s[i].key
  <2>1. \A i \in 1..Len(map) : s[i] \in KeyMetas
    BY <1>7, <1>11
  <2>2. \A e \in KeyMetas : e.key \in Keys
    BY DEF KeyMetas
  <2>3. \A i \in 1..Len(map) : s[i].key \in Keys
    BY <2>1, <2>2
  <2> QED
    BY <1>7, <1>13, <2>3
<1>15. ASSUME NEW i \in 1..Len(map)
       PROVE  \E j \in 1..Len(map) :
                /\ K[i] = map[j].key
                /\ map[j].signer <=> i <= Len(A) + Len(B)
                /\ map[j].writable <=>
                     (i <= Len(A) \/ (i > Len(A) + Len(B) /\ i <= Len(A) + Len(B) + Len(C)))
  <2>1. K[i] = s[i].key /\ s[i] = FourParts(A, B, C, D, i) /\ i \in Nat
    BY <1>11, <1>14
  <2>2. CASE i <= Len(A)
    <3>1. i \in 1..Len(A) /\ s[i] = A[i] /\ i <= Len(A) + Len(B)
      BY <1>7, <2>1, <2>2 DEF FourParts
    <3>2. PICK j \in 1..Len(map) : A[i] = map[j]
      BY <1>5, <3>1
    <3>3. map[j].signer = TRUE /\ map[j].writable = TRUE
      BY <1>5, <3>1, <3>2 DEF Has
    <3> QED
      BY <2>1, <2>2, <3>1, <3>2, <3>3
  <2>3. CASE i > Len(A) /\ i <= Len(A) + Len(B)
    <3>1. i - Len(A) \in 1..Len(B) /\ s[i] = B[i - Len(A)] /\ ~(i <= Len(A)) /\ ~(i > Len(A) + Len(B))
      BY <1>7, <2>1, <2>3 DEF FourParts
    <3>2. PICK j \in 1..Len(map) : B[i - Len(A)] = map[j]
      BY <1>5, <3>1
    <3>3. map[j].signer = TRUE /\ map[j].writable = FALSE
      BY <1>5, <3>1, <3>2 DEF Has
    <3> QED
      BY <2>1, <2>3, <3>1, <3>2, <3>3
  <2>4. CASE i > Len(A) + Len(B) /\ i <= Len(A) + Len(B) + Len(C)
    <3>1. /\ i - (Len(A) + Len(B)) \in 1..Len(C) /\ s[i] = C[i - (Len(A) + Len(B))]
          /\ ~(i <= Len(A) + Len(B))
      BY <1>7, <2>1, <2>4 DEF FourParts
    <3>2. PICK j \in 1..Len(map) : C[i - (Len(A) + Len(B))] = map[j]
      BY <1>5, <3>1
    <3>3. map[j].signer = FALSE /\ map[j].writable = TRUE
      BY <1>5, <3>1, <3>2 DEF Has
    <3> QED
      BY <2>1, <2>4, <3>1, <3>2, <3>3
  <2>5. CASE i > Len(A) + Len(B) + Len(C)
    <3>1. /\ i - (Len(A) + Len(B) + Len(C)) \in 1..Len(D)
          /\ s[i] = D[i - (Len(A) + Len(B) + Len(C))]
          /\ ~(i <= Len(A) + Len(B)) /\ ~(i <= Len(A)) /\ ~(i <= Len(A) + Len(B) + Len(C))
      BY <1>7, <1>8, <2>1, <2>5 DEF FourParts
    <3>2. PICK j \in 1..Len(map) : D[i - (Len(A) + Len(B) + Len(C))] = map[j]
      BY <1>5, <3>1
    <3>3. map[j].signer = FALSE /\ map[j].writable = FALSE
      BY <1>5, <3>1, <3>2 DEF Has
    <3> QED
      BY <2>1, <2>5, <3>1, <3>2, <3>3
  <2> QED
    BY <1>7, <2>1, <2>2, <2>3, <2>4, <2>5
<1>16. ASSUME NEW j \in 1..Len(map)
       PROVE  \E i \in 1..Len(map) : K[i] = map[j].key
  <2>1. map[j].signer \in BOOLEAN /\ map[j].writable \in BOOLEAN
    <3>1. map[j] \in KeyMetas
      OBVIOUS
    <3> QED
      BY <3>1 DEF KeyMetas
  <2>2. CASE Has(map[j], TRUE, TRUE)
    <3>1. PICK k \in 1..Len(A) : A[k] = map[j]
      BY <1>6, <2>2
    <3>2. k \in 1..Len(map) /\ FourParts(A, B, C, D, k) = A[k]
      BY <1>7, <1>8 DEF FourParts
    <3> QED
      BY <1>11, <1>14, <3>1, <3>2
  <2>3. CASE Has(map[j], TRUE, FALSE)
    <3>1. PICK k \in 1..Len(B) : B[k] = map[j]
      BY <1>6, <2>3
    <3>2. /\ k + Len(A) \in 1..Len(map)
          /\ FourParts(A, B, C, D, k + Len(A)) = B[(k + Len(A)) - Len(A)]
          /\ (k + Len(A)) - Len(A) = k
      BY <1>7, <1>8 DEF FourParts
    <3> QED
      BY <1>11, <1>14, <3>1, <3>2
  <2>4. CASE Has(map[j], FALSE, TRUE)
    <3>1. PICK k \in 1..Len(C) : C[k] = map[j]
      BY <1>6, <2>4
    <3> DEFINE i == k + (Len(A) + Len(B))
    <3>2. /\ i \in 1..Len(map) /\ FourParts(A, B, C, D, i) = C[i - (Len(A) + Len(B))]
          /\ i - (Len(A) + Len(B)) = k
      BY <1>7, <1>8 DEF FourParts
    <3> QED
      BY <1>11, <1>14, <3>1, <3>2
  <2>5. CASE Has(map[j], FALSE, FALSE)
    <3>1. PICK k \in 1..Len(D) : D[k] = map[j]
      BY <1>6, <2>5
    <3> DEFINE i == k + (Len(A) + Len(B) + Len(C))
    <3>2. /\ i \in 1..Len(map) /\ FourParts(A, B, C, D, i) = D[i - (Len(A) + Len(B) + Len(C))]
          /\ i - (Len(A) + Len(B) + Len(C)) = k
      BY <1>7, <1>8 DEF FourParts
    <3> QED
      BY <1>11, <1>14, <3>1, <3>2
  <2> QED
    BY <2>1, <2>2, <2>3, <2>4, <2>5 DEF Has
<1>17. KeysPlaced(map, K, Len(A), Len(B), Len(C))
  BY <1>14, <1>15, <1>16 DEF KeysPlaced
<1>18. Len(A) + Len(B) + Len(C) <= Len(map)
  BY <1>7, <1>8
<1> QED
  BY <1>1, <1>2, <1>3, <1>7, <1>9, <1>12, <1>14, <1>17, <1>18

------------------------------------------------------------------------------
(* The visits of compile. *)

PayerVisit(payer) == [key |-> payer, signer |-> TRUE, writable |-> TRUE]

ProgramVisit(ix) == [key |-> ix.program, signer |-> FALSE, writable |-> FALSE]

Calls(ix) == <<ProgramVisit(ix)>> \o ix.keys

LEMMA CallsType ==
  ASSUME NEW ix \in Instructions
  PROVE  /\ Calls(ix) \in Seq(KeyMetas)
         /\ ix.keys \in Seq(KeyMetas) /\ Len(ix.keys) \in Nat
         /\ Len(Calls(ix)) = 1 + Len(ix.keys)
         /\ 1 \in 1..Len(Calls(ix)) /\ Calls(ix)[1] = ProgramVisit(ix)
         /\ \A i \in 1..Len(ix.keys) : 1 + i \in 1..Len(Calls(ix)) /\ Calls(ix)[1 + i] = ix.keys[i]
         /\ \A i \in 1..Len(Calls(ix)) :
              Calls(ix)[i] = ProgramVisit(ix) \/ \E m \in 1..Len(ix.keys) : Calls(ix)[i] = ix.keys[m]
<1>1. PICK p : p = ProgramVisit(ix)
  OBVIOUS
<1>2. PICK ks : ks = ix.keys
  OBVIOUS
<1>3. p \in KeyMetas /\ ks \in Seq(KeyMetas) /\ Len(ks) \in Nat
  BY <1>1, <1>2 DEF Instructions, KeyMetas, ProgramVisit
<1>4. PICK c : c = <<p>> \o ks
  OBVIOUS
<1>5. <<p>> \in Seq(KeyMetas) /\ Len(<<p>>) = 1 /\ <<p>>[1] = p
  BY <1>3
<1>6. /\ c \in Seq(KeyMetas) /\ Len(c) = 1 + Len(ks)
      /\ \A i \in 1..1 + Len(ks) : c[i] = IF i <= 1 THEN <<p>>[i] ELSE ks[i - 1]
  BY <1>3, <1>4, <1>5, ConcatProperties
<1>7. 1 \in 1..Len(c) /\ c[1] = p
  BY <1>3, <1>5, <1>6
<1>8. \A i \in 1..Len(ks) : 1 + i \in 1..Len(c) /\ c[1 + i] = ks[i]
  <2> TAKE i \in 1..Len(ks)
  <2>1. 1 + i \in 1..1 + Len(ks) /\ ~(1 + i <= 1) /\ (1 + i) - 1 = i
    BY <1>3
  <2> QED
    BY <1>6, <2>1
<1>9. \A i \in 1..Len(c) : c[i] = p \/ \E m \in 1..Len(ks) : c[i] = ks[m]
  <2> TAKE i \in 1..Len(c)
  <2>1. CASE i <= 1
    BY <1>3, <1>5, <1>6, <2>1
  <2>2. CASE i > 1
    <3>1. i - 1 \in 1..Len(ks) /\ c[i] = ks[i - 1]
      BY <1>3, <1>6, <2>2
    <3> QED
      BY <3>1
  <2> QED
    BY <2>1, <2>2
<1>10. c = Calls(ix)
  BY <1>1, <1>2, <1>4 DEF Calls
<1> QED
  BY <1>1, <1>2, <1>3, <1>6, <1>7, <1>8, <1>9, <1>10

(* The visits are that of the payer, first, and those of every instruction. *)
VisitsAre(vs, payer, instructions) ==
  /\ vs \in Seq(KeyMetas) /\ Len(vs) \in Nat \ {0} /\ vs[1] = PayerVisit(payer)
  /\ \A k \in 1..Len(vs) :
       \/ vs[k] = PayerVisit(payer)
       \/ \E n \in 1..Len(instructions) : \E i \in 1..Len(Calls(instructions[n])) :
            vs[k] = Calls(instructions[n])[i]
  /\ \A n \in 1..Len(instructions) : \A i \in 1..Len(Calls(instructions[n])) :
       \E k \in 1..Len(vs) : vs[k] = Calls(instructions[n])[i]

LEMMA VisitsMade ==
  ASSUME NEW payer \in Keys, NEW instructions \in Seq(Instructions)
  PROVE  VisitsAre(Visits(payer, instructions), payer, instructions)
<1>1. PICK p : p = PayerVisit(payer)
  OBVIOUS
<1>2. PICK L \in Nat : L = Len(instructions)
  OBVIOUS
<1>3. PICK ss : ss = [j \in 1..L |-> Calls(instructions[j])]
  OBVIOUS
<1>4. \A j \in 1..L : instructions[j] \in Instructions
  BY <1>2
<1>5. ss \in Seq(Seq(KeyMetas)) /\ Len(ss) = L /\ \A j \in 1..L : ss[j] = Calls(instructions[j])
  <2>1. \A j \in 1..L : Calls(instructions[j]) \in Seq(KeyMetas)
    BY <1>4, CallsType
  <2> QED
    BY <1>3, <2>1
<1>6. PICK f : f = FlattenSeq(ss)
  OBVIOUS
<1>7. f \in Seq(KeyMetas) /\ Len(f) \in Nat
  BY <1>5, <1>6, FlattenType
<1>8. PICK vs : vs = <<p>> \o f
  OBVIOUS
<1>9. vs = Visits(payer, instructions)
  <2>1. ss = [j \in DOMAIN instructions |-> Calls(instructions[j])]
    <3>1. DOMAIN instructions = 1..L
      BY <1>2
    <3> QED
      BY <1>3, <3>1
  <2> QED
    BY <1>1, <1>6, <1>8, <2>1 DEF Visits, PayerVisit, Calls, ProgramVisit, Mapped
<1>10. <<p>> \in Seq(KeyMetas) /\ Len(<<p>>) = 1 /\ <<p>>[1] = p
  BY <1>1 DEF PayerVisit, KeyMetas
<1>11. /\ vs \in Seq(KeyMetas) /\ Len(vs) = 1 + Len(f)
       /\ \A i \in 1..1 + Len(f) : vs[i] = IF i <= 1 THEN <<p>>[i] ELSE f[i - 1]
  BY <1>7, <1>8, <1>10, ConcatProperties
<1>12. Len(vs) \in Nat \ {0} /\ vs[1] = p
  BY <1>7, <1>10, <1>11
<1>13. ASSUME NEW k \in 1..Len(vs)
       PROVE  \/ vs[k] = p
              \/ \E n \in 1..L : \E i \in 1..Len(Calls(instructions[n])) :
                   vs[k] = Calls(instructions[n])[i]
  <2>1. CASE k <= 1
    BY <1>7, <1>10, <1>11, <2>1
  <2>2. CASE k > 1
    <3>1. k - 1 \in 1..Len(f) /\ vs[k] = f[k - 1]
      BY <1>7, <1>11, <2>2
    <3>2. PICK n \in 1..Len(ss) : \E i \in 1..Len(ss[n]) : f[k - 1] = ss[n][i]
      BY <1>5, <1>6, <3>1, FlattenElements
    <3>3. n \in 1..L /\ ss[n] = Calls(instructions[n])
      BY <1>5, <3>2
    <3> QED
      BY <3>1, <3>2, <3>3
  <2> QED
    BY <2>1, <2>2
<1>14. ASSUME NEW n \in 1..L, NEW i \in 1..Len(Calls(instructions[n]))
       PROVE  \E k \in 1..Len(vs) : vs[k] = Calls(instructions[n])[i]
  <2>1. n \in 1..Len(ss) /\ ss[n] = Calls(instructions[n]) /\ i \in 1..Len(ss[n])
    BY <1>5
  <2>2. PICK u : u = Upto(ss, n - 1)
    OBVIOUS
  <2>3. Piece(KeyMetas, f, u, ss[n], Len(Upto(ss, n)))
    BY <1>5, <1>6, <2>1, <2>2, FlattenParts
  <2>4. PICK x \in 1..Len(f) : f[x] = ss[n][i]
    BY <2>1, <2>3 DEF Piece
  <2>5. PICK k \in 1..1 + Len(f) : k = 1 + x /\ ~(k <= 1) /\ k - 1 = x
    BY <1>7
  <2>7. k \in 1..Len(vs) /\ vs[k] = f[x]
    BY <1>11, <2>5
  <2> QED
    BY <2>1, <2>4, <2>7
<1> QED
  BY <1>1, <1>2, <1>9, <1>11, <1>12, <1>13, <1>14 DEF VisitsAre

(* What the payer and the instructions ask for a key is what the visits ask. *)
AskedBy(payer, instructions, key, flag) ==
  \/ key = payer
  \/ \E ix \in ToSet(instructions) : \E m \in ToSet(ix.keys) : m.key = key /\ m[flag]

LEMMA VisitsAsk ==
  ASSUME NEW payer \in Keys, NEW instructions \in Seq(Instructions), NEW vs,
         VisitsAre(vs, payer, instructions),
         NEW key, NEW flag \in {"signer", "writable"}
  PROVE  AskedBy(payer, instructions, key, flag) <=>
           \E k \in 1..Len(vs) : vs[k].key = key /\ vs[k][flag]
<1>1. /\ PayerVisit(payer).key = payer /\ PayerVisit(payer)[flag]
      /\ \A ix : ProgramVisit(ix)[flag] = FALSE
  BY DEF PayerVisit, ProgramVisit
<1>2. Len(vs) \in Nat \ {0} /\ vs[1] = PayerVisit(payer)
  BY DEF VisitsAre
<1>3. \A n \in 1..Len(instructions) : instructions[n] \in Instructions
  OBVIOUS
<1>4. ASSUME AskedBy(payer, instructions, key, flag)
      PROVE  \E k \in 1..Len(vs) : vs[k].key = key /\ vs[k][flag]
  <2>1. CASE key = payer
    <3>1. 1 \in 1..Len(vs)
      BY <1>2
    <3> QED
      BY <1>1, <1>2, <2>1, <3>1
  <2>2. CASE \E ix \in ToSet(instructions) : \E m \in ToSet(ix.keys) : m.key = key /\ m[flag]
    <3>1. PICK n \in 1..Len(instructions) : \E m \in ToSet(instructions[n].keys) : m.key = key /\ m[flag]
      BY <2>2 DEF ToSet
    <3>2. PICK ix \in Instructions : ix = instructions[n]
      BY <1>3
    <3>3. ix.keys \in Seq(KeyMetas)
      BY CallsType
    <3>4. PICK i \in 1..Len(ix.keys) : ix.keys[i].key = key /\ ix.keys[i][flag]
      BY <3>1, <3>2, <3>3 DEF ToSet
    <3>5. 1 + i \in 1..Len(Calls(ix)) /\ Calls(ix)[1 + i] = ix.keys[i]
      BY CallsType
    <3>6. PICK k \in 1..Len(vs) : vs[k] = Calls(ix)[1 + i]
      BY <3>2, <3>5 DEF VisitsAre
    <3> QED
      BY <3>4, <3>5, <3>6
  <2> QED
    BY <1>4, <2>1, <2>2 DEF AskedBy
<1>5. ASSUME NEW k \in 1..Len(vs), vs[k].key = key, vs[k][flag]
      PROVE  AskedBy(payer, instructions, key, flag)
  <2>1. CASE vs[k] = PayerVisit(payer)
    BY <1>1, <1>5, <2>1 DEF AskedBy
  <2>2. CASE \E n \in 1..Len(instructions) : \E i \in 1..Len(Calls(instructions[n])) :
                vs[k] = Calls(instructions[n])[i]
    <3>1. PICK n \in 1..Len(instructions) : \E i \in 1..Len(Calls(instructions[n])) :
                vs[k] = Calls(instructions[n])[i]
      BY <2>2
    <3>2. PICK ix \in Instructions : ix = instructions[n]
      BY <1>3
    <3>3. ~(vs[k] = ProgramVisit(ix))
      BY <1>1, <1>5
    <3>4. ix.keys \in Seq(KeyMetas)
      BY CallsType
    <3>5. PICK m \in 1..Len(ix.keys) : vs[k] = ix.keys[m]
      <4>1. PICK i \in 1..Len(Calls(ix)) : vs[k] = Calls(ix)[i]
        BY <3>1, <3>2
      <4>2. Calls(ix)[i] = ProgramVisit(ix) \/ \E m \in 1..Len(ix.keys) : Calls(ix)[i] = ix.keys[m]
        BY CallsType
      <4> QED
        BY <3>3, <4>1, <4>2
    <3>6. ix \in ToSet(instructions) /\ ix.keys[m] \in ToSet(ix.keys)
      BY <3>2, <3>4 DEF ToSet
    <3> QED
      BY <1>5, <3>5, <3>6 DEF AskedBy
  <2> QED
    BY <2>1, <2>2 DEF VisitsAre
<1> QED
  BY <1>4, <1>5

------------------------------------------------------------------------------
(* Compilation. *)

LEMMA JourneyMade ==
  ASSUME request \in [payer : Payers, instructions : InstructionLists]
  PROVE  /\ request.payer \in Keys /\ request.instructions \in Seq(Instructions)
         /\ VisitsAre(Journey, request.payer, request.instructions)
<1>1. request.payer \in Keys /\ request.instructions \in Seq(Instructions)
  BY InstructionsAssumption
<1> QED
  BY <1>1, VisitsMade DEF Journey

LEMMA InitWInv == Init => WInv
<1> SUFFICES ASSUME Init PROVE WInv
  OBVIOUS
<1>1. VisitsAre(Journey, request.payer, request.instructions)
  BY JourneyMade DEF Init
<1>2. PICK vs : vs = Journey
  OBVIOUS
<1>3. vs \in Seq(KeyMetas) /\ Len(vs) \in Nat /\ todo = vs
  BY <1>1, <1>2 DEF VisitsAre, Init, Journey
<1>4. Seen = 0
  BY <1>2, <1>3 DEF Seen
<1>5. SubSeq(vs, 0 + 1, Len(vs)) = vs
  BY <1>3, SubSeqFull
<1>6. Compiled(entries, vs, 0)
  BY DEF Compiled, Init
<1>7. CompileInv
  BY <1>2, <1>3, <1>4, <1>5, <1>6 DEF CompileInv, Init
<1>8. MessageInv
  BY DEF MessageInv, Init
<1>9. ExecuteInv
  BY DEF ExecuteInv, Init
<1> QED
  BY <1>7, <1>8, <1>9 DEF WInv

(* getOrInsertDefault: the flags of the visited key grow, the others stay. *)
MergedAs(M, map, v) ==
  /\ M \in Seq(KeyMetas) /\ Len(map) <= Len(M)
  /\ \A j \in 1..Len(map) :
       /\ M[j].key = map[j].key
       /\ M[j].signer <=> map[j].signer \/ (map[j].key = v.key /\ v.signer)
       /\ M[j].writable <=> map[j].writable \/ (map[j].key = v.key /\ v.writable)
  /\ \/ Len(M) = Len(map) /\ \E i \in 1..Len(map) : map[i].key = v.key
     \/ /\ Len(M) = Len(map) + 1 /\ M[Len(map) + 1] = v
        /\ \A i \in 1..Len(map) : map[i].key # v.key

LEMMA Merges ==
  ASSUME NEW map \in Seq(KeyMetas), NEW v \in KeyMetas
  PROVE  MergedAs(Merged(map, v), map, v)
<1>1. PICK M : M = Merged(map, v)
  OBVIOUS
<1>2. PICK L \in Nat : L = Len(map) /\ DOMAIN map = 1..L
  OBVIOUS
<1>3. \A j \in 1..L : map[j] \in KeyMetas
  BY <1>2
<1>4. (\E e \in ToSet(map) : e.key = v.key) <=> \E i \in 1..L : map[i].key = v.key
  BY <1>2 DEF ToSet
<1>5. CASE \E i \in 1..L : map[i].key = v.key
  <2> DEFINE E(j) == IF map[j].key = v.key
                       THEN [key |-> v.key, signer |-> map[j].signer \/ v.signer,
                             writable |-> map[j].writable \/ v.writable]
                       ELSE map[j]
  <2>1. M = [j \in 1..L |-> E(j)]
    BY <1>1, <1>2, <1>4, <1>5 DEF Merged
  <2>2. \A j \in 1..L :
          /\ E(j) \in KeyMetas /\ E(j).key = map[j].key
          /\ E(j).signer <=> map[j].signer \/ (map[j].key = v.key /\ v.signer)
          /\ E(j).writable <=> map[j].writable \/ (map[j].key = v.key /\ v.writable)
    <3> TAKE j \in 1..L
    <3>1. map[j] \in KeyMetas
      BY <1>3
    <3> QED
      BY <3>1 DEF KeyMetas
  <2> HIDE DEF E
  <2>3. M \in Seq(KeyMetas) /\ Len(M) = L /\ \A j \in 1..L : M[j] = E(j)
    BY <2>1, <2>2
  <2> QED
    BY <1>1, <1>2, <1>5, <2>2, <2>3 DEF MergedAs
<1>6. CASE ~\E i \in 1..L : map[i].key = v.key
  <2>1. M = Append(map, v)
    BY <1>1, <1>4, <1>6 DEF Merged
  <2>2. /\ M \in Seq(KeyMetas) /\ Len(M) = L + 1 /\ M[L + 1] = v
        /\ \A j \in 1..L : M[j] = map[j]
    BY <1>2, <2>1, AppendProperties
  <2> QED
    BY <1>1, <1>2, <1>6, <2>2 DEF MergedAs
<1> QED
  BY <1>5, <1>6

LEMMA AskedNext ==
  ASSUME NEW vs, NEW n \in Nat, NEW key, NEW flag
  PROVE  AskedIn(vs, n + 1, key, flag) <=>
           AskedIn(vs, n, key, flag) \/ (vs[n + 1].key = key /\ vs[n + 1][flag])
<1>1. \A k : k \in 1..n + 1 <=> k \in 1..n \/ k = n + 1
  OBVIOUS
<1> QED
  BY <1>1 DEF AskedIn

(* One more visit. *)
LEMMA CompiledNext ==
  ASSUME NEW map, NEW vs \in Seq(KeyMetas), NEW n \in Nat, n + 1 <= Len(vs), Compiled(map, vs, n)
  PROVE  Compiled(Merged(map, vs[n + 1]), vs, n + 1)
<1>1. PICK v : v = vs[n + 1]
  OBVIOUS
<1>2. PICK M : M = Merged(map, v)
  OBVIOUS
<1>3. v \in KeyMetas
  BY <1>1
<1>4. map \in Seq(KeyMetas) /\ Len(map) \in Nat
  BY DEF Compiled
<1>5. MergedAs(M, map, v)
  BY <1>2, <1>3, <1>4, Merges
<1>6. /\ M \in Seq(KeyMetas) /\ Len(M) \in Nat /\ Len(map) <= Len(M)
      /\ \A j \in 1..Len(M) : j \in 1..Len(map) \/
           (j = Len(map) + 1 /\ M[j] = v /\ \A i \in 1..Len(map) : map[i].key # v.key)
  BY <1>4, <1>5 DEF MergedAs
<1>7. \A j \in 1..Len(map) : j \in 1..Len(M) /\ M[j].key = map[j].key
  BY <1>4, <1>5, <1>6 DEF MergedAs
<1>8. \E j \in 1..Len(M) : M[j].key = v.key
  BY <1>4, <1>5, <1>7 DEF MergedAs
<1>9. n + 1 \in 1..n + 1 /\ \A k \in 1..n + 1 : k \in 1..n \/ k = n + 1
  OBVIOUS
<1>10. \A j, k \in 1..Len(M) : M[j].key = M[k].key => j = k
  <2> SUFFICES ASSUME NEW j \in 1..Len(M), NEW k \in 1..Len(M), M[j].key = M[k].key PROVE j = k
    OBVIOUS
  <2>1. \A x, y \in 1..Len(map) : map[x].key = map[y].key => x = y
    BY DEF Compiled
  <2>2. CASE j \in 1..Len(map) /\ k \in 1..Len(map)
    BY <1>7, <2>1, <2>2
  <2>3. CASE j \in 1..Len(map) /\ k \notin 1..Len(map)
    BY <1>6, <1>7, <2>3
  <2>4. CASE j \notin 1..Len(map) /\ k \in 1..Len(map)
    BY <1>6, <1>7, <2>4
  <2>5. CASE j \notin 1..Len(map) /\ k \notin 1..Len(map)
    BY <1>6, <2>5
  <2> QED
    BY <2>2, <2>3, <2>4, <2>5
<1>11. ASSUME NEW j \in 1..Len(M)
       PROVE  /\ M[j].signer <=> AskedIn(vs, n + 1, M[j].key, "signer")
              /\ M[j].writable <=> AskedIn(vs, n + 1, M[j].key, "writable")
              /\ \E k \in 1..n + 1 : vs[k].key = M[j].key
  <2>1. \A flag : AskedIn(vs, n + 1, M[j].key, flag) <=>
                    AskedIn(vs, n, M[j].key, flag) \/ (v.key = M[j].key /\ v[flag])
    BY <1>1, AskedNext
  <2>2. CASE j \in 1..Len(map)
    <3>1. /\ map[j].signer <=> AskedIn(vs, n, M[j].key, "signer")
          /\ map[j].writable <=> AskedIn(vs, n, M[j].key, "writable")
          /\ \E k \in 1..n : vs[k].key = M[j].key
      BY <1>7, <2>2 DEF Compiled
    <3>2. /\ M[j].signer <=> map[j].signer \/ (M[j].key = v.key /\ v.signer)
          /\ M[j].writable <=> map[j].writable \/ (M[j].key = v.key /\ v.writable)
      BY <1>5, <1>7, <2>2 DEF MergedAs
    <3> QED
      BY <2>1, <3>1, <3>2
  <2>3. CASE M[j] = v /\ \A i \in 1..Len(map) : map[i].key # v.key
    <3>1. \A k \in 1..n : vs[k].key # v.key
      BY <2>3 DEF Compiled
    <3>2. \A flag : ~AskedIn(vs, n, v.key, flag)
      BY <3>1 DEF AskedIn
    <3> QED
      BY <1>1, <1>9, <2>1, <2>3, <3>2
  <2> QED
    BY <1>6, <2>2, <2>3
<1>12. ASSUME NEW k \in 1..n + 1
       PROVE  \E j \in 1..Len(M) : M[j].key = vs[k].key
  <2>1. CASE k \in 1..n
    BY <1>7, <2>1 DEF Compiled
  <2>2. CASE k = n + 1
    BY <1>1, <1>8, <2>2
  <2> QED
    BY <1>9, <2>1, <2>2
<1>13. Len(M) # 0 /\ M[1].key = vs[1].key
  <2>1. CASE n > 0
    <3>1. Len(map) # 0 /\ map[1].key = vs[1].key
      BY <2>1 DEF Compiled
    <3>2. 1 \in 1..Len(map)
      BY <1>4, <3>1
    <3> QED
      BY <1>6, <1>7, <3>1, <3>2
  <2>2. CASE n = 0
    <3>1. \A j \in 1..Len(map) : FALSE
      BY <2>2 DEF Compiled
    <3>2. Len(map) = 0
      BY <1>4, <3>1
    <3>3. \A j \in 1..Len(M) : j = 1
      BY <1>6, <3>2
    <3> QED
      BY <1>1, <1>6, <1>8, <2>2, <3>3
  <2> QED
    BY <2>1, <2>2
<1>14. Compiled(M, vs, n + 1)
  BY <1>6, <1>10, <1>11, <1>12, <1>13 DEF Compiled
<1> QED
  BY <1>1, <1>2, <1>14

LEMMA VisitCompiles ==
  ASSUME CompileInv, Visit
  PROVE  CompileInv'
<1>1. PICK vs : vs = Journey
  OBVIOUS
<1>2. PICK n : n = Seen
  OBVIOUS
<1>3. VisitsAre(vs, request.payer, request.instructions)
  BY <1>1, JourneyMade DEF CompileInv
<1>4. vs \in Seq(KeyMetas) /\ Len(vs) \in Nat
  BY <1>3 DEF VisitsAre
<1>5. n \in 0..Len(vs) /\ todo = SubSeq(vs, n + 1, Len(vs)) /\ Compiled(entries, vs, n)
  BY <1>1, <1>2 DEF CompileInv
<1>6. vs' = vs /\ Journey' = vs /\ request' = request
  BY <1>1 DEF Visit, Journey
<1>7. n + 1 \in 1..Len(vs) /\ n \in Nat
  <2>1. n + 1 > Len(vs) => SubSeq(vs, n + 1, Len(vs)) = <<>>
    BY <1>4, <1>5, SubSeqEmpty
  <2> QED
    BY <1>4, <1>5, <2>1 DEF Visit
<1>8. /\ Head(todo) = vs[n + 1]
      /\ Tail(todo) = SubSeq(vs, (n + 1) + 1, Len(vs))
  <2>1. Len(vs) \in (n + 1)..Len(vs)
    BY <1>4, <1>7
  <2> QED
    BY <1>4, <1>5, <1>7, <2>1, HeadTailOfSubSeq
<1>9. Seen' = n + 1
  <2>1. Len(SubSeq(vs, (n + 1) + 1, Len(vs))) = Len(vs) - (n + 1)
    BY <1>4, <1>7
  <2>2. todo' = SubSeq(vs, (n + 1) + 1, Len(vs))
    BY <1>8 DEF Visit
  <2>3. Seen' = Len(vs) - (Len(vs) - (n + 1))
    BY <1>6, <2>1, <2>2 DEF Seen
  <2> QED
    BY <1>4, <1>7, <2>3
<1>10. Compiled(entries', vs, n + 1)
  BY <1>4, <1>5, <1>7, <1>8, CompiledNext DEF Visit
<1>11. todo' = SubSeq(vs, (n + 1) + 1, Len(vs)) /\ n + 1 \in 0..Len(vs)
  BY <1>4, <1>7, <1>8 DEF Visit
<1> QED
  BY <1>6, <1>9, <1>10, <1>11 DEF CompileInv

(* When all visits came, the flags of an entry are what was asked, the payer's
   entry is the first, and every key of an instruction has an entry. *)
LEMMA CompiledAll ==
  ASSUME CompileInv, todo = <<>>
  PROVE  /\ entries \in Seq(KeyMetas) /\ Len(entries) \in Nat \ {0}
         /\ \A j \in 1..Len(entries) :
              /\ entries[j].signer <=> Asked(entries[j].key, "signer")
              /\ entries[j].writable <=> Asked(entries[j].key, "writable")
         /\ entries[1].key = request.payer
         /\ \A n \in 1..Len(request.instructions) :
              \A i \in 1..Len(Calls(request.instructions[n])) :
                \E j \in 1..Len(entries) : entries[j].key = Calls(request.instructions[n])[i].key
<1>1. PICK vs : vs = Journey
  OBVIOUS
<1>2. PICK n : n = Seen
  OBVIOUS
<1>3. /\ VisitsAre(vs, request.payer, request.instructions)
      /\ request.payer \in Keys /\ request.instructions \in Seq(Instructions)
  BY <1>1, JourneyMade DEF CompileInv
<1>4. vs \in Seq(KeyMetas) /\ Len(vs) \in Nat \ {0} /\ vs[1] = PayerVisit(request.payer)
  BY <1>3 DEF VisitsAre
<1>5. Compiled(entries, vs, n)
  BY <1>1, <1>2 DEF CompileInv
<1>6. n = Len(vs)
  BY <1>1, <1>2, <1>4 DEF Seen
<1>7. entries \in Seq(KeyMetas) /\ Len(entries) \in Nat \ {0} /\ entries[1].key = request.payer
  BY <1>4, <1>5, <1>6 DEF Compiled, PayerVisit
<1>8. ASSUME NEW key, NEW flag \in {"signer", "writable"}
      PROVE  AskedIn(vs, n, key, flag) <=> Asked(key, flag)
  <2>1. AskedBy(request.payer, request.instructions, key, flag) <=> AskedIn(vs, n, key, flag)
    BY <1>3, <1>6, VisitsAsk DEF AskedIn
  <2> QED
    BY <2>1 DEF AskedBy, Asked
<1>9. \A j \in 1..Len(entries) :
        /\ entries[j].signer <=> Asked(entries[j].key, "signer")
        /\ entries[j].writable <=> Asked(entries[j].key, "writable")
  BY <1>5, <1>8 DEF Compiled
<1>10. ASSUME NEW m \in 1..Len(request.instructions),
              NEW i \in 1..Len(Calls(request.instructions[m]))
       PROVE  \E j \in 1..Len(entries) : entries[j].key = Calls(request.instructions[m])[i].key
  <2>1. PICK k \in 1..Len(vs) : vs[k] = Calls(request.instructions[m])[i]
    BY <1>3 DEF VisitsAre
  <2>2. \E j \in 1..Len(entries) : entries[j].key = vs[k].key
    BY <1>5, <1>6 DEF Compiled
  <2> QED
    BY <2>1, <2>2
<1> QED
  BY <1>7, <1>9, <1>10

LEMMA PayerFirst ==
  ASSUME CompileInv
  PROVE  PayerLeads
<1> SUFFICES ASSUME todo = <<>>
             PROVE  /\ Group(entries, TRUE, TRUE) # <<>>
                    /\ Group(entries, TRUE, TRUE)[1].key = request.payer
  BY DEF PayerLeads
<1>1. PICK map : map = entries
  OBVIOUS
<1>2. /\ map \in Seq(KeyMetas) /\ Len(map) \in Nat \ {0} /\ map[1].key = request.payer
      /\ map[1].signer <=> Asked(map[1].key, "signer")
      /\ map[1].writable <=> Asked(map[1].key, "writable")
  BY <1>1, CompiledAll
<1>3. map[1] \in KeyMetas
  BY <1>2
<1>4. Has(map[1], TRUE, TRUE)
  BY <1>2, <1>3 DEF Asked, Has, KeyMetas
<1>5. PICK G : G = Group(map, TRUE, TRUE)
  OBVIOUS
<1>6. 1 \in 1..Len(G) /\ G[1] = map[1]
  BY <1>2, <1>4, <1>5, GroupFirst
<1>7. G # <<>>
  BY <1>6
<1>8. G[1].key = request.payer
  BY <1>2, <1>6
<1> QED
  BY <1>1, <1>5, <1>7, <1>8

------------------------------------------------------------------------------
(* The cells of a message. *)

LEMMA SmallArrayLaid ==
  ASSUME NEW s \in Seq(Cells)
  PROVE  /\ SmallArray(s) \in Seq(Cells)
         /\ Len(s) \in Nat /\ Len(SmallArray(s)) = 1 + Len(s) /\ SmallArray(s)[1] = Len(s)
         /\ \A i \in 1..Len(s) : SmallArray(s)[1 + i] = s[i]
<1>1. Len(s) \in Nat
  OBVIOUS
<1>2. PICK n \in Nat : n = Len(s)
  BY <1>1
<1>3. PICK c : c = <<n>> \o s
  OBVIOUS
<1>4. <<n>> \in Seq(Cells) /\ Len(<<n>>) = 1 /\ <<n>>[1] = n
  BY DEF Cells
<1>5. /\ c \in Seq(Cells) /\ Len(c) = 1 + n
      /\ \A i \in 1..1 + n : c[i] = IF i <= 1 THEN <<n>>[i] ELSE s[i - 1]
  BY <1>2, <1>3, <1>4, ConcatProperties
<1>6. c[1] = n
  BY <1>4, <1>5
<1>7. ASSUME NEW i \in 1..n PROVE c[1 + i] = s[i]
  <2>1. 1 + i \in 1..1 + n /\ ~(1 + i <= 1) /\ (1 + i) - 1 = i
    OBVIOUS
  <2> QED
    BY <1>5, <2>1
<1> QED
  BY <1>2, <1>3, <1>5, <1>6, <1>7 DEF SmallArray

(* A message of a header, keys, a count and the bytes of the instructions. *)
Laid(msg, header, keys, count, body) ==
  /\ msg \in Seq(Cells) /\ Len(msg) = 5 + Len(keys) + Len(body)
  /\ msg[1] = header[1] /\ msg[2] = header[2] /\ msg[3] = header[3]
  /\ msg[4] = Len(keys)
  /\ \A i \in 1..Len(keys) : msg[4 + i] = keys[i]
  /\ msg[5 + Len(keys)] = count
  /\ \A i \in 1..Len(body) : msg[5 + Len(keys) + i] = body[i]

LEMMA MessageLaid ==
  ASSUME NEW x \in Nat, NEW y \in Nat, NEW z \in Nat,
         NEW keys \in Seq(Keys), NEW count \in Nat, NEW body \in Seq(Cells)
  PROVE  Laid(<<x, y, z>> \o SmallArray(keys) \o <<count>> \o body, <<x, y, z>>, keys, count, body)
<1>1. PICK h : h = <<x, y, z>>
  OBVIOUS
<1>2. h \in Seq(Cells) /\ Len(h) = 3
  BY <1>1 DEF Cells
<1>3. PICK N \in Nat : N = Len(keys)
  OBVIOUS
<1>4. PICK ks : ks = SmallArray(keys)
  OBVIOUS
<1>5. keys \in Seq(Cells)
  BY DEF Cells
<1>6. ks \in Seq(Cells) /\ Len(ks) = 1 + N /\ ks[1] = N /\ \A i \in 1..N : ks[1 + i] = keys[i]
  BY <1>3, <1>4, <1>5, SmallArrayLaid
<1>7. PICK c : c = <<count>>
  OBVIOUS
<1>8. c \in Seq(Cells) /\ Len(c) = 1 /\ c[1] = count
  BY <1>7 DEF Cells
<1>9. PICK msg : msg = h \o ks \o c \o body
  OBVIOUS
<1>10. PICK B \in Nat : B = Len(body)
  OBVIOUS
<1>11. /\ msg \in Seq(Cells) /\ Len(msg) = 3 + (1 + N) + 1 + B
       /\ \A i \in 1..3 + (1 + N) + 1 + B : msg[i] = FourParts(h, ks, c, body, i)
  <2>1. Quartet(msg, Cells, h, ks, c, body)
    BY <1>2, <1>6, <1>8, <1>9, FourJoined
  <2> QED
    BY <1>2, <1>6, <1>8, <1>10, <2>1 DEF Quartet
<1>12. Len(msg) = 5 + N + B /\ \A i \in 1..5 + N + B : msg[i] = FourParts(h, ks, c, body, i)
  BY <1>11
<1>13. \A i \in 1..3 : msg[i] = h[i]
  BY <1>2, <1>12 DEF FourParts
<1>14. ASSUME NEW i \in 1..1 + N PROVE msg[3 + i] = ks[i]
  <2>1. 3 + i \in 1..5 + N + B /\ FourParts(h, ks, c, body, 3 + i) = ks[(3 + i) - 3] /\ (3 + i) - 3 = i
    BY <1>2, <1>6 DEF FourParts
  <2> QED
    BY <1>12, <2>1
<1>15. msg[4] = N
  BY <1>6, <1>14
<1>16. ASSUME NEW i \in 1..N PROVE msg[4 + i] = keys[i]
  <2>1. 1 + i \in 1..1 + N /\ 3 + (1 + i) = 4 + i
    OBVIOUS
  <2> QED
    BY <1>6, <1>14, <2>1
<1>17. msg[5 + N] = count
  <2>1. /\ 5 + N \in 1..5 + N + B /\ (5 + N) - (3 + (1 + N)) = 1
        /\ FourParts(h, ks, c, body, 5 + N) = c[(5 + N) - (3 + (1 + N))]
    BY <1>2, <1>6, <1>8 DEF FourParts
  <2> QED
    BY <1>8, <1>12, <2>1
<1>18. ASSUME NEW i \in 1..B PROVE msg[5 + N + i] = body[i]
  <2>1. /\ 5 + N + i \in 1..5 + N + B /\ (5 + N + i) - (3 + (1 + N) + 1) = i
        /\ FourParts(h, ks, c, body, 5 + N + i) = body[(5 + N + i) - (3 + (1 + N) + 1)]
    BY <1>2, <1>6, <1>8 DEF FourParts
  <2> QED
    BY <1>12, <2>1
<1>19. Laid(msg, h, keys, count, body)
  BY <1>3, <1>10, <1>11, <1>12, <1>13, <1>15, <1>16, <1>17, <1>18 DEF Laid
<1> QED
  BY <1>1, <1>4, <1>7, <1>9, <1>19

(* The bytes of one instruction, when the keys it names are in the message. *)
Known(keys, ix) ==
  \A i \in 1..Len(Calls(ix)) : \E j \in 1..Len(keys) : keys[j] = Calls(ix)[i].key

Wrote(bytes, keys, ix) ==
  LET n == Len(ix.keys) IN
  /\ bytes \in Seq(Cells) /\ Len(bytes) = 4 + n + Len(ix.data)
  /\ bytes[1] \in 0..Len(keys) - 1 /\ keys[bytes[1] + 1] = ix.program
  /\ bytes[2] = n
  /\ \A i \in 1..n : bytes[2 + i] \in 0..Len(keys) - 1 /\ keys[bytes[2 + i] + 1] = ix.keys[i].key
  /\ bytes[3 + n] + Radix * bytes[4 + n] = Len(ix.data)
  /\ \A i \in 1..Len(ix.data) : bytes[4 + n + i] = ix.data[i]

LEMMA LowHigh ==
  ASSUME NEW x \in Nat
  PROVE  /\ x % Radix \in Int /\ x \div Radix \in Int
         /\ (x % Radix) + Radix * (x \div Radix) = x
  BY CellsAssumption

LEMMA InstructionWritten ==
  ASSUME NEW keys \in Seq(Keys), NEW ix \in Instructions, Known(keys, ix)
  PROVE  Wrote(InstructionBytes(keys, ix), keys, ix)
<1>1. PICK ks : ks = ix.keys
  OBVIOUS
<1>2. PICK ds : ds = ix.data
  OBVIOUS
<1>3. ks \in Seq(KeyMetas) /\ ds \in Seq(Data) /\ ds \in Seq(Cells)
  <2>1. ks \in Seq(KeyMetas) /\ ds \in Seq(Data)
    BY <1>1, <1>2 DEF Instructions
  <2> QED
    BY <2>1 DEF Cells
<1>4. PICK n \in Nat : n = Len(ks)
  BY <1>3
<1>5. PICK d \in Nat : d = Len(ds)
  BY <1>3
<1>6. PICK N \in Nat : N = Len(keys)
  OBVIOUS
<1>0. PICK cs : cs = Calls(ix)
  OBVIOUS
<1>7. /\ \A i \in 1..Len(cs) : \E j \in 1..N : keys[j] = cs[i].key
      /\ 1 \in 1..Len(cs) /\ cs[1] = ProgramVisit(ix)
      /\ \A i \in 1..n : 1 + i \in 1..Len(cs) /\ cs[1 + i] = ks[i]
  <2>1. \A i \in 1..Len(cs) : \E j \in 1..N : keys[j] = cs[i].key
    BY <1>0, <1>6 DEF Known
  <2>2. 1 \in 1..Len(cs) /\ cs[1] = ProgramVisit(ix)
    BY <1>0, CallsType
  <2>3. \A i \in 1..n : 1 + i \in 1..Len(cs) /\ cs[1 + i] = ks[i]
    BY <1>0, <1>1, <1>4, CallsType
  <2> QED
    BY <2>1, <2>2, <2>3
<1>8. (\E j \in 1..N : keys[j] = ix.program) /\ \A i \in 1..n : \E j \in 1..N : keys[j] = ks[i].key
  <2>1. cs[1].key = ix.program
    BY <1>7 DEF ProgramVisit
  <2>2. \E j \in 1..N : keys[j] = ix.program
    BY <1>7, <2>1
  <2>3. \A i \in 1..n : \E j \in 1..N : keys[j] = ks[i].key
    BY <1>7
  <2> QED
    BY <2>2, <2>3
<1>9. PICK p : p = Place(keys, ix.program) - 1
  OBVIOUS
<1>10. p \in 0..N - 1 /\ keys[p + 1] = ix.program
  <2>1. Place(keys, ix.program) \in 1..N /\ keys[Place(keys, ix.program)] = ix.program
    BY <1>6, <1>8, PlaceOfKey
  <2>2. p \in 0..N - 1 /\ p + 1 = Place(keys, ix.program)
    BY <1>9, <2>1
  <2> QED
    BY <2>1, <2>2
<1>11. PICK is : is = [i \in 1..n |-> Place(keys, ks[i].key) - 1]
  OBVIOUS
<1>12. \A i \in 1..n : is[i] \in 0..N - 1 /\ keys[is[i] + 1] = ks[i].key
  <2> TAKE i \in 1..n
  <2>1. Place(keys, ks[i].key) \in 1..N /\ keys[Place(keys, ks[i].key)] = ks[i].key
    BY <1>6, <1>8, PlaceOfKey
  <2>2. is[i] = Place(keys, ks[i].key) - 1
    BY <1>11
  <2>3. is[i] \in 0..N - 1 /\ is[i] + 1 = Place(keys, ks[i].key)
    BY <2>1, <2>2
  <2> QED
    BY <2>1, <2>3
<1>13. is \in Seq(Cells) /\ Len(is) = n
  <2>1. \A i \in 1..n : is[i] \in Cells
    BY <1>12 DEF Cells
  <2>2. is \in [1..n -> Cells]
    BY <1>11, <2>1
  <2> QED
    BY <2>2
<1>14. PICK a : a = <<p>>
  OBVIOUS
<1>15. a \in Seq(Cells) /\ Len(a) = 1 /\ a[1] = p
  BY <1>10, <1>14 DEF Cells
<1>16. PICK b : b = SmallArray(is)
  OBVIOUS
<1>17. b \in Seq(Cells) /\ Len(b) = 1 + n /\ b[1] = n /\ \A i \in 1..n : b[1 + i] = is[i]
  BY <1>13, <1>16, SmallArrayLaid
<1>18. PICK c : c = <<d % Radix, d \div Radix>>
  OBVIOUS
<1>19. c \in Seq(Cells) /\ Len(c) = 2 /\ c[1] + Radix * c[2] = d
  <2>1. PICK lo \in Int : lo = d % Radix
    BY LowHigh
  <2>2. PICK hi \in Int : hi = d \div Radix
    BY LowHigh
  <2>3. c = <<lo, hi>> /\ lo + Radix * hi = d
    BY <1>18, <2>1, <2>2, LowHigh
  <2> QED
    BY <2>1, <2>2, <2>3 DEF Cells
<1>20. PICK bytes : bytes = a \o b \o c \o ds
  OBVIOUS
<1>21. bytes = InstructionBytes(keys, ix)
  <2>1. is = Mapped(ks, LAMBDA m : Place(keys, m.key) - 1)
    <3>1. DOMAIN ks = 1..n
      BY <1>3, <1>4
    <3> QED
      BY <1>11, <3>1 DEF Mapped
  <2> QED
    BY <1>1, <1>2, <1>5, <1>9, <1>14, <1>16, <1>18, <1>20, <2>1
       DEF InstructionBytes, Place, Mapped
<1>22. /\ bytes \in Seq(Cells) /\ Len(bytes) = 4 + n + d
       /\ \A i \in 1..4 + n + d : bytes[i] = FourParts(a, b, c, ds, i)
  <2>1. a \in Seq(Cells) /\ b \in Seq(Cells) /\ c \in Seq(Cells) /\ ds \in Seq(Cells)
    BY <1>3, <1>15, <1>17, <1>19
  <2>2. Quartet(bytes, Cells, a, b, c, ds)
    BY <1>20, <2>1, FourJoined
  <2>3. Len(a) + Len(b) + Len(c) + Len(ds) = 4 + n + d
    BY <1>5, <1>15, <1>17, <1>19
  <2> QED
    BY <2>2, <2>3 DEF Quartet
<1>23. bytes[1] = p
  <2>1. 1 \in 1..4 + n + d /\ FourParts(a, b, c, ds, 1) = a[1]
    BY <1>15 DEF FourParts
  <2> QED
    BY <1>15, <1>22, <2>1
<1>24. \A j \in 1..1 + n : bytes[1 + j] = b[j]
  <2> TAKE j \in 1..1 + n
  <2>1. 1 + j \in 1..4 + n + d /\ FourParts(a, b, c, ds, 1 + j) = b[(1 + j) - 1] /\ (1 + j) - 1 = j
    BY <1>15, <1>17 DEF FourParts
  <2> QED
    BY <1>22, <2>1
<1>25. bytes[2] = n
  <2>1. 1 \in 1..1 + n /\ 1 + 1 = 2
    OBVIOUS
  <2> QED
    BY <1>17, <1>24, <2>1
<1>26. \A i \in 1..n : bytes[2 + i] = is[i]
  <2> TAKE i \in 1..n
  <2>1. 1 + i \in 1..1 + n /\ 1 + (1 + i) = 2 + i
    OBVIOUS
  <2> QED
    BY <1>17, <1>24, <2>1
<1>27. bytes[3 + n] = c[1] /\ bytes[4 + n] = c[2]
  <2>1. /\ 3 + n \in 1..4 + n + d /\ (3 + n) - (1 + (1 + n)) = 1
        /\ FourParts(a, b, c, ds, 3 + n) = c[(3 + n) - (1 + (1 + n))]
    BY <1>15, <1>17, <1>19 DEF FourParts
  <2>2. /\ 4 + n \in 1..4 + n + d /\ (4 + n) - (1 + (1 + n)) = 2
        /\ FourParts(a, b, c, ds, 4 + n) = c[(4 + n) - (1 + (1 + n))]
    BY <1>15, <1>17, <1>19 DEF FourParts
  <2> QED
    BY <1>22, <2>1, <2>2
<1>28. \A i \in 1..d : bytes[4 + n + i] = ds[i]
  <2> TAKE i \in 1..d
  <2>1. /\ 4 + n + i \in 1..4 + n + d /\ (4 + n + i) - (1 + (1 + n) + 2) = i
        /\ FourParts(a, b, c, ds, 4 + n + i) = ds[(4 + n + i) - (1 + (1 + n) + 2)]
    BY <1>15, <1>17, <1>19 DEF FourParts
  <2> QED
    BY <1>22, <2>1
<1>29. Wrote(bytes, keys, ix)
  <2>1. Len(ix.keys) = n /\ Len(ix.data) = d /\ Len(keys) = N
    BY <1>1, <1>2, <1>4, <1>5, <1>6
  <2>2. bytes[1] \in 0..N - 1 /\ keys[bytes[1] + 1] = ix.program
    BY <1>10, <1>23
  <2>3. \A i \in 1..n : bytes[2 + i] \in 0..N - 1 /\ keys[bytes[2 + i] + 1] = ix.keys[i].key
    BY <1>1, <1>12, <1>26
  <2>4. bytes[3 + n] + Radix * bytes[4 + n] = d
    BY <1>19, <1>27
  <2>5. \A i \in 1..d : bytes[4 + n + i] = ix.data[i]
    BY <1>2, <1>28
  <2> HIDE DEF Cells
  <2> QED
    BY <1>22, <1>25, <2>1, <2>2, <2>3, <2>4, <2>5 DEF Wrote
<1> QED
  BY <1>21, <1>29

------------------------------------------------------------------------------
(* Serialization. *)

LEMMA KeysKnown ==
  ASSUME CompileInv, todo = <<>>
  PROVE  \A n \in 1..Len(request.instructions) :
           Known(StaticKeys(entries), request.instructions[n])
<1>1. PICK map : map = entries
  OBVIOUS
<1>2. PICK keys : keys = StaticKeys(map)
  OBVIOUS
<1>3. map \in Seq(KeyMetas)
  BY <1>1, CompiledAll
<1>4. \A j \in 1..Len(map) : \E i \in 1..Len(keys) : keys[i] = map[j].key
  BY <1>2, <1>3, StaticKeysPlaced DEF KeysPlaced
<1>5. \A n \in 1..Len(request.instructions) :
        \A i \in 1..Len(Calls(request.instructions[n])) :
          \E j \in 1..Len(map) : map[j].key = Calls(request.instructions[n])[i].key
  BY <1>1, CompiledAll
<1> QED
  BY <1>1, <1>2, <1>4, <1>5 DEF Known

LEMMA PartsWritten ==
  ASSUME NEW map \in Seq(KeyMetas), NEW instructions \in Seq(Instructions),
         \A n \in 1..Len(instructions) : Known(StaticKeys(map), instructions[n])
  PROVE  /\ Parts(map, instructions) \in Seq(Seq(Cells))
         /\ Len(Parts(map, instructions)) = Len(instructions)
         /\ \A n \in 1..Len(instructions) :
              Wrote(Parts(map, instructions)[n], StaticKeys(map), instructions[n])
<1>1. PICK keys \in Seq(Keys) : keys = StaticKeys(map)
  BY StaticKeysPlaced
<1>2. PICK L \in Nat : L = Len(instructions) /\ DOMAIN instructions = 1..L
  OBVIOUS
<1>3. PICK ps : ps = [n \in 1..L |-> InstructionBytes(keys, instructions[n])]
  OBVIOUS
<1>4. ps = Parts(map, instructions)
  BY <1>1, <1>2, <1>3 DEF Parts, Mapped
<1>5. \A n \in 1..L : Wrote(InstructionBytes(keys, instructions[n]), keys, instructions[n])
  <2> TAKE n \in 1..L
  <2>1. instructions[n] \in Instructions /\ Known(keys, instructions[n])
    BY <1>1, <1>2
  <2> QED
    BY <2>1, InstructionWritten
<1>6. \A n \in 1..L : InstructionBytes(keys, instructions[n]) \in Seq(Cells)
  BY <1>5 DEF Wrote
<1>7. ps \in Seq(Seq(Cells)) /\ Len(ps) = L
  BY <1>3, <1>6
<1> QED
  BY <1>1, <1>2, <1>3, <1>4, <1>5, <1>7

(* What is in the message. *)
Reads(a, b, c, keys, ps, body) ==
  /\ keys \in Seq(Keys) /\ KeysPlaced(entries, keys, a, b, c)
  /\ ps = Parts(entries, request.instructions) /\ ps \in Seq(Seq(Cells))
  /\ Len(ps) = Len(request.instructions)
  /\ \A n \in 1..Len(ps) : Wrote(ps[n], keys, request.instructions[n])
  /\ body = FlattenSeq(ps) /\ body \in Seq(Cells)
  /\ Laid(message, <<a + b, a, c>>, keys, Len(request.instructions), body)

LEMMA MessageReads ==
  ASSUME CompileInv, MessageInv, message # None
  PROVE  /\ todo = <<>> /\ entries \in Seq(KeyMetas)
         /\ request.instructions \in Seq(Instructions)
         /\ \E a, b, c \in Nat : \E keys, ps, body : Reads(a, b, c, keys, ps, body)
<1>1. todo = <<>> /\ message = Encoded(entries, request.instructions)
  BY DEF MessageInv
<1>2. PICK map \in Seq(KeyMetas) : map = entries
  BY <1>1, CompiledAll
<1>3. PICK is \in Seq(Instructions) : is = request.instructions
  BY JourneyMade DEF CompileInv
<1>4. PICK keys : keys = StaticKeys(map)
  OBVIOUS
<1>5. PICK a \in Nat, b \in Nat, c \in Nat :
        /\ Header(map) = <<a + b, a, c>> /\ keys \in Seq(Keys)
        /\ KeysPlaced(map, keys, a, b, c)
  BY <1>4, StaticKeysPlaced
<1>6. PICK ps : ps = Parts(map, is)
  OBVIOUS
<1>7. ps \in Seq(Seq(Cells)) /\ Len(ps) = Len(is) /\ \A n \in 1..Len(is) : Wrote(ps[n], keys, is[n])
  <2>1. \A n \in 1..Len(is) : Known(StaticKeys(map), is[n])
    BY <1>1, <1>2, <1>3, KeysKnown
  <2> QED
    BY <1>4, <1>6, <2>1, PartsWritten
<1>8. PICK body : body = FlattenSeq(ps)
  OBVIOUS
<1>9. body \in Seq(Cells)
  BY <1>7, <1>8, FlattenType
<1>10. message = <<a + b, a, c>> \o SmallArray(keys) \o <<Len(is)>> \o body
  BY <1>1, <1>2, <1>3, <1>4, <1>5, <1>6, <1>8 DEF Encoded
<1>11. Laid(message, <<a + b, a, c>>, keys, Len(is), body)
  <2>1. a + b \in Nat /\ Len(is) \in Nat
    OBVIOUS
  <2> QED
    BY <1>5, <1>9, <1>10, <2>1, MessageLaid
<1>12. Reads(a, b, c, keys, ps, body)
  BY <1>2, <1>3, <1>5, <1>6, <1>7, <1>8, <1>9, <1>11 DEF Reads
<1> QED
  BY <1>1, <1>2, <1>3, <1>12

LEMMA SerializeKeeps ==
  ASSUME WInv, Serialize
  PROVE  WInv'
<1>1. CompileInv'
  BY DEF WInv, Serialize, CompileInv, Seen, Journey
<1>2. message' = Encoded(entries, request.instructions)
  BY DEF Serialize, Encoded, Parts, Mapped
<1>3. MessageInv'
  BY <1>2 DEF Serialize, MessageInv
<1>4. executor = None
  BY DEF WInv, ExecuteInv, Serialize
<1>5. ExecuteInv'
  BY <1>4 DEF WInv, ExecuteInv, Serialize
<1> QED
  BY <1>1, <1>3, <1>5 DEF WInv

(* Reading a message: indices count from 0. *)
LEMMA PlacesRead ==
  ASSUME NEW a \in Nat, NEW b \in Nat, NEW c \in Nat, NEW keys, NEW ps, NEW body,
         Reads(a, b, c, keys, ps, body)
  PROVE  /\ NumKeys = Len(keys) /\ Len(keys) \in Nat
         /\ At(message, 4 + NumKeys) = Len(request.instructions)
         /\ Len(message) = 5 + Len(keys) + Len(body) /\ Len(body) \in Nat
         /\ \A i \in 0..Len(keys) - 1 :
              /\ i + 1 \in 1..Len(keys) /\ At(message, 4 + i) = keys[i + 1]
              /\ IsSignerIndex(i) <=> i + 1 <= a + b
              /\ IsStaticWritableIndex(i) <=>
                   (i + 1 <= a \/ (i + 1 > a + b /\ i + 1 <= a + b + c))
<1>1. PICK N \in Nat : N = Len(keys)
  BY DEF Reads
<1>2. PICK h : h = <<a + b, a, c>>
  OBVIOUS
<1>3. h[1] = a + b /\ h[2] = a /\ h[3] = c
  BY <1>2
<1>4. Laid(message, h, keys, Len(request.instructions), body)
  BY <1>2 DEF Reads
<1>5. Len(body) \in Nat
  BY DEF Reads
<1>6. /\ message[1] = a + b /\ message[2] = a /\ message[3] = c /\ message[4] = N
      /\ \A i \in 1..N : message[4 + i] = keys[i]
      /\ message[5 + N] = Len(request.instructions) /\ Len(message) = 5 + N + Len(body)
  BY <1>1, <1>3, <1>4 DEF Laid
<1>7. NumKeys = N
  BY <1>6 DEF NumKeys, At
<1>8. At(message, 4 + NumKeys) = Len(request.instructions)
  <2>1. (4 + N) + 1 = 5 + N
    OBVIOUS
  <2> QED
    BY <1>6, <1>7, <2>1 DEF At
<1>9. At(message, 0) = a + b /\ At(message, 1) = a /\ At(message, 2) = c
  BY <1>6 DEF At
<1>10. ASSUME NEW i \in 0..N - 1
       PROVE  /\ i + 1 \in 1..N /\ At(message, 4 + i) = keys[i + 1]
              /\ IsSignerIndex(i) <=> i + 1 <= a + b
              /\ IsStaticWritableIndex(i) <=>
                   (i + 1 <= a \/ (i + 1 > a + b /\ i + 1 <= a + b + c))
  <2>1. i + 1 \in 1..N /\ (4 + i) + 1 = 4 + (i + 1)
    OBVIOUS
  <2>2. At(message, 4 + i) = keys[i + 1]
    BY <1>6, <2>1 DEF At
  <2>3. IsSignerIndex(i) <=> i < a + b
    BY <1>9 DEF IsSignerIndex
  <2>4. IsStaticWritableIndex(i) <=> i < N /\ (i < a \/ (i >= a + b /\ i - (a + b) < c))
    BY <1>7, <1>9 DEF IsStaticWritableIndex
  <2> QED
    BY <2>1, <2>2, <2>3, <2>4
<1> QED
  BY <1>1, <1>5, <1>6, <1>7, <1>8, <1>10

LEMMA Preserved ==
  ASSUME CompileInv, MessageInv
  PROVE  PrivilegesPreserved
<1> SUFFICES ASSUME message # None, NEW i \in 0..NumKeys - 1
             PROVE  /\ IsSignerIndex(i) <=> Asked(At(message, 4 + i), "signer")
                    /\ IsStaticWritableIndex(i) <=> Asked(At(message, 4 + i), "writable")
  BY DEF PrivilegesPreserved
<1>1. PICK a \in Nat, b \in Nat, c \in Nat : \E keys, ps, body : Reads(a, b, c, keys, ps, body)
  BY MessageReads
<1>2. PICK keys, ps, body : Reads(a, b, c, keys, ps, body)
  BY <1>1
<1>3. /\ i + 1 \in 1..Len(keys) /\ At(message, 4 + i) = keys[i + 1]
      /\ IsSignerIndex(i) <=> i + 1 <= a + b
      /\ IsStaticWritableIndex(i) <=>
           (i + 1 <= a \/ (i + 1 > a + b /\ i + 1 <= a + b + c))
  BY <1>2, PlacesRead
<1>4. KeysPlaced(entries, keys, a, b, c)
  BY <1>2 DEF Reads
<1>5. PICK j \in 1..Len(entries) :
        /\ keys[i + 1] = entries[j].key
        /\ entries[j].signer <=> i + 1 <= a + b
        /\ entries[j].writable <=> (i + 1 <= a \/ (i + 1 > a + b /\ i + 1 <= a + b + c))
  BY <1>3, <1>4 DEF KeysPlaced
<1>6. /\ entries[j].signer <=> Asked(entries[j].key, "signer")
      /\ entries[j].writable <=> Asked(entries[j].key, "writable")
  BY CompiledAll, MessageReads
<1> QED
  BY <1>3, <1>5, <1>6

------------------------------------------------------------------------------
(* Execution. *)

LEMMA WrittenSteps ==
  ASSUME NEW a, NEW b, NEW c, NEW keys, NEW ps, NEW body, Reads(a, b, c, keys, ps, body)
  PROVE  /\ Written(0) = <<>>
         /\ \A k : Written(k) = Upto(ps, k)
         /\ Written(Len(request.instructions)) = body
         /\ \A k \in 0..Len(request.instructions) : Len(Written(k)) \in 0..Len(body)
<1>1. ps \in Seq(Seq(Cells)) /\ Len(ps) = Len(request.instructions) /\ body = FlattenSeq(ps)
  BY DEF Reads
<1>2. \A k : Written(k) = Upto(ps, k)
  BY DEF Written, Upto, Reads
<1>3. Upto(ps, 0) = <<>> /\ FlattenSeq(ps) = Upto(ps, Len(ps))
  BY <1>1, FlattenSteps
<1>4. \A k \in 0..Len(ps) : Len(Upto(ps, k)) \in 0..Len(body)
  BY <1>1, UptoGrows
<1> QED
  BY <1>1, <1>2, <1>3, <1>4

LEMMA SendKeeps ==
  ASSUME WInv, NEW member \in Members, Send(member)
  PROVE  WInv'
<1>1. CompileInv'
  BY DEF WInv, Send, CompileInv, Seen, Journey
<1>2. MessageInv'
  BY DEF WInv, Send, MessageInv
<1>3. message # None /\ executor = None /\ invoked = <<>>
  BY DEF WInv, ExecuteInv, Send
<1>4. PICK a \in Nat, b \in Nat, c \in Nat : \E keys, ps, body : Reads(a, b, c, keys, ps, body)
  BY <1>3, MessageReads DEF WInv
<1>5. PICK keys, ps, body : Reads(a, b, c, keys, ps, body)
  BY <1>4
<1>6. NumKeys \in Nat /\ Written(0) = <<>>
  BY <1>5, PlacesRead, WrittenSteps
<1>7. NumKeys' = NumKeys /\ AccountMetas' = AccountMetas /\ Written(0)' = Written(0)
  <2>1. message' = message /\ request' = request /\ entries' = entries
    BY DEF Send
  <2>2. NumKeys' = NumKeys
    BY <2>1 DEF NumKeys, At
  <2>3. \A i : IsSignerIndex(i)' = IsSignerIndex(i) /\ IsStaticWritableIndex(i)' = IsStaticWritableIndex(i)
    BY <2>1, <2>2, Zenon DEF IsSignerIndex, IsStaticWritableIndex, At
  <2>4. AccountMetas' = AccountMetas
    BY <2>1, <2>2, <2>3, Zenon DEF AccountMetas, At
  <2>5. Written(0)' = Written(0)
    BY <2>1 DEF Written
  <2> QED
    BY <2>2, <2>4, <2>5
<1>8. /\ executor' = member /\ metas' = AccountMetas /\ invoked' = <<>>
      /\ message' # None /\ offset' = 4 + NumKeys + 1
  BY <1>3 DEF Send
<1>9. Signable(executor)'
  BY <1>7, <1>8 DEF Send, Signable
<1>10. invoked' \in Seq(Invocations) /\ Len(invoked') = 0
  BY <1>8
<1>11. offset' = 5 + NumKeys' + Len(Written(Len(invoked))')
  <2>1. Written(Len(invoked))' = Written(0)
    BY <1>7, <1>10 DEF Written
  <2>2. Len(Written(0)) = 0
    BY <1>6
  <2> QED
    BY <1>6, <1>7, <1>8, <2>1, <2>2
<1>12. request.instructions \in Seq(Instructions) /\ request' = request
  BY <1>3, MessageReads DEF WInv, Send
<1>13. ExecuteInv'
  <2>1. Len(invoked') <= Len(request'.instructions)
    BY <1>10, <1>12
  <2>2. \A n \in 1..Len(invoked') : FALSE
    BY <1>10
  <2>3. executor' # None
    BY <1>8, CellsAssumption
  <2> QED
    BY <1>7, <1>8, <1>9, <1>10, <1>11, <2>1, <2>2, <2>3 DEF ExecuteInv
<1> QED
  BY <1>1, <1>2, <1>13 DEF WInv

(* Two sequences of one length with the same elements. *)
LEMMA SameSeq ==
  ASSUME NEW S, NEW T, NEW s \in Seq(S), NEW t \in Seq(T), Len(s) = Len(t),
         \A i \in 1..Len(s) : s[i] = t[i]
  PROVE  s = t
<1>1. /\ s = [i \in 1..Len(s) |-> s[i]] /\ t = [i \in 1..Len(t) |-> t[i]]
  OBVIOUS
<1> QED
  BY <1>1

(* The bytes of the n-th instruction are those at the cursor. *)
Cursor(o, n, bytes, keys) ==
  /\ Wrote(bytes, keys, request.instructions[n])
  /\ \A i \in 1..Len(bytes) : o + i \in 1..Len(message) /\ message[o + i] = bytes[i]
  /\ o + Len(bytes) = 5 + NumKeys + Len(Written(n)) /\ Len(bytes) \in Nat
  /\ message \in Seq(Cells)

LEMMA AtCursor ==
  ASSUME NEW a \in Nat, NEW b \in Nat, NEW c \in Nat, NEW keys, NEW ps, NEW body,
         Reads(a, b, c, keys, ps, body),
         NEW n \in 1..Len(request.instructions), NEW o \in Nat,
         o = 5 + NumKeys + Len(Written(n - 1))
  PROVE  Cursor(o, n, ps[n], keys)
<1>1. /\ ps \in Seq(Seq(Cells)) /\ Len(ps) = Len(request.instructions) /\ body = FlattenSeq(ps)
      /\ keys \in Seq(Keys) /\ body \in Seq(Cells)
      /\ Wrote(ps[n], keys, request.instructions[n])
  BY DEF Reads
<1>2. PICK u : u = Upto(ps, n - 1)
  OBVIOUS
<1>3. PICK bytes : bytes = ps[n]
  OBVIOUS
<1>4. PICK to : to = Len(Upto(ps, n))
  OBVIOUS
<1>5. Piece(Cells, body, u, bytes, to)
  <2>1. n \in 1..Len(ps)
    BY <1>1
  <2> QED
    BY <1>1, <1>2, <1>3, <1>4, <2>1, FlattenParts
<1>6. PICK lu \in Nat, lb \in Nat : lu = Len(u) /\ lb = Len(bytes) /\ to = lu + lb
  BY <1>5 DEF Piece
<1>7. PICK N \in Nat : N = Len(keys) /\ N = NumKeys
  BY PlacesRead
<1>8. o = 5 + N + lu /\ Written(n) = Upto(ps, n)
  <2>1. Written(n - 1) = u /\ Written(n) = Upto(ps, n)
    BY <1>2, WrittenSteps
  <2> QED
    BY <1>6, <1>7, <2>1
<1>9. PICK B \in Nat : B = Len(body)
  BY <1>5 DEF Piece
<1>10. /\ message \in Seq(Cells) /\ Len(message) = 5 + N + B
       /\ \A i \in 1..B : message[5 + N + i] = body[i]
  BY <1>7, <1>9 DEF Reads, Laid
<1>11. \A i \in 1..lb : lu + i \in 1..B /\ body[lu + i] = bytes[i]
  BY <1>5, <1>6, <1>9 DEF Piece
<1>12. ASSUME NEW i \in 1..lb
       PROVE  o + i \in 1..Len(message) /\ message[o + i] = bytes[i]
  <2>1. PICK x \in 1..B : x = lu + i /\ body[x] = bytes[i]
    BY <1>11
  <2>2. o + i = 5 + N + x
    <3>1. (5 + N + lu) + i = 5 + N + x
      BY <2>1
    <3> QED
      BY <1>8, <3>1
  <2>4. 5 + N + x \in 1..5 + N + B
    OBVIOUS
  <2>3. message[5 + N + x] = body[x]
    BY <1>10
  <2> QED
    BY <1>10, <2>1, <2>2, <2>3, <2>4
<1>13. o + lb = 5 + N + to
  BY <1>6, <1>8
<1> QED
  BY <1>1, <1>3, <1>4, <1>6, <1>7, <1>8, <1>10, <1>12, <1>13 DEF Cursor

(* A part of a message. *)
Part(xs, S, msg, from, k) ==
  xs \in Seq(S) /\ Len(xs) = k /\ \A i \in 1..k : xs[i] = msg[from + i]

LEMMA SliceRead ==
  ASSUME NEW S, NEW msg \in Seq(S), NEW from \in Nat, NEW k \in Nat, from + k <= Len(msg)
  PROVE  Part(Slice(msg, from, from + k), S, msg, from, k)
<1>1. PICK xs : xs = Slice(msg, from, from + k)
  OBVIOUS
<1>2. PICK p \in Int : p = from + 1
  OBVIOUS
<1>3. PICK q \in Int : q = from + k
  OBVIOUS
<1>4. xs = SubSeq(msg, p, q)
  BY <1>1, <1>2, <1>3 DEF Slice
<1>5. \A j \in p..q : msg[j] \in S
  <2> TAKE j \in p..q
  <2>1. j \in 1..Len(msg)
    BY <1>2, <1>3
  <2> QED
    BY <2>1
<1>6. /\ xs \in Seq(S) /\ Len(xs) = (IF p <= q THEN q - p + 1 ELSE 0)
      /\ \A i \in 1..q - p + 1 : xs[i] = msg[p + i - 1]
  BY <1>4, <1>5, SubSeqProperties
<1>7. q - p + 1 = k /\ (IF p <= q THEN q - p + 1 ELSE 0) = k
  BY <1>2, <1>3
<1>8. Len(xs) = k
  BY <1>6, <1>7
<1>9. ASSUME NEW i \in 1..k PROVE xs[i] = msg[from + i]
  <2>1. i \in 1..q - p + 1 /\ p + i - 1 = from + i
    BY <1>2, <1>7
  <2> QED
    BY <1>6, <2>1
<1> QED
  BY <1>1, <1>6, <1>8, <1>9 DEF Part

(* One turn of the loop, in terms of the proposal: the instruction at the
   cursor is read in full, and the cursor moves to the next. *)
InvokedNext(ix, e) ==
  /\ e \in Invocations /\ SameCall(e, ix)
  /\ \A m \in ToSet(e.keys) : FromMessage(m)

LEMMA InvokeReads ==
  ASSUME WInv, Invoke
  PROVE  /\ Len(invoked) + 1 \in 1..Len(request.instructions)
         /\ \E e : /\ InvokedNext(request.instructions[Len(invoked) + 1], e)
                   /\ invoked' = Append(invoked, e)
         /\ offset' = 5 + NumKeys + Len(Written(Len(invoked) + 1))
<1>1. message # None /\ executor # None
  BY DEF WInv, ExecuteInv, Invoke
<1>2. PICK a \in Nat, b \in Nat, c \in Nat : \E keys, ps, body : Reads(a, b, c, keys, ps, body)
  BY <1>1, MessageReads DEF WInv
<1>3. PICK keys, ps, body : Reads(a, b, c, keys, ps, body)
  BY <1>2
<1>4. PICK N \in Nat : N = NumKeys /\ N = Len(keys) /\ keys \in Seq(Keys)
  BY <1>3, PlacesRead DEF Reads
<1>5. PICK is \in Seq(Instructions) : is = request.instructions
  BY <1>1, MessageReads DEF WInv
<1>6. invoked \in Seq(Invocations) /\ Len(invoked) \in Nat /\ metas = AccountMetas
  BY <1>1 DEF WInv, ExecuteInv
<1>7. PICK k \in Nat : k = Len(invoked)
  BY <1>6
<1>8. PICK n : n = k + 1
  OBVIOUS
<1>9. n \in 1..Len(is) /\ n - 1 = k
  <2>1. At(message, 4 + NumKeys) = Len(is)
    BY <1>3, <1>5, PlacesRead
  <2>2. k < Len(is)
    BY <1>7, <2>1 DEF Invoke
  <2> QED
    BY <1>8, <2>2
<1>10. PICK ix \in Instructions : ix = is[n]
  BY <1>9
<1>11. PICK u \in Nat : u = Len(Written(n - 1))
  <2>1. k \in 0..Len(is)
    BY <1>8, <1>9
  <2>2. Len(Written(k)) \in 0..Len(body) /\ Len(body) \in Nat
    BY <1>3, <1>5, <2>1, PlacesRead, WrittenSteps
  <2>3. Len(Written(n - 1)) \in Nat
    BY <1>9, <2>2
  <2> QED
    BY <2>3
<1>12. PICK o \in Nat : o = offset /\ o = 5 + NumKeys + Len(Written(n - 1))
  <2>1. offset = 5 + NumKeys + Len(Written(n - 1))
    BY <1>1, <1>7, <1>9 DEF WInv, ExecuteInv
  <2>2. 5 + N + u \in Nat
    OBVIOUS
  <2> QED
    BY <1>4, <1>11, <2>1, <2>2
<1>13. PICK bytes : bytes = ps[n]
  OBVIOUS
<1>14. PICK m \in Nat : m = Len(ix.keys) /\ ix.keys \in Seq(KeyMetas)
  BY CallsType
<1>15. PICK d \in Nat : d = Len(ix.data) /\ ix.data \in Seq(Data)
  BY DEF Instructions
<1>16. /\ \A i \in 1..Len(bytes) : o + i \in 1..Len(message) /\ message[o + i] = bytes[i]
       /\ o + Len(bytes) = 5 + NumKeys + Len(Written(n))
       /\ message \in Seq(Cells) /\ Wrote(bytes, keys, ix)
  <2>1. n \in 1..Len(request.instructions) /\ request.instructions[n] = ix
    BY <1>5, <1>9, <1>10
  <2>2. o = 5 + NumKeys + Len(Written(n - 1))
    BY <1>12
  <2>3. Cursor(o, n, ps[n], keys)
    BY <1>3, <2>1, <2>2, AtCursor
  <2> QED
    BY <1>13, <2>1, <2>3 DEF Cursor
<1>17. /\ Len(bytes) = 4 + m + d
       /\ bytes[1] \in 0..N - 1 /\ keys[bytes[1] + 1] = ix.program
       /\ bytes[2] = m
       /\ \A i \in 1..m : bytes[2 + i] \in 0..N - 1 /\ keys[bytes[2 + i] + 1] = ix.keys[i].key
       /\ bytes[3 + m] + Radix * bytes[4 + m] = d
       /\ \A i \in 1..d : bytes[4 + m + i] = ix.data[i]
  BY <1>4, <1>14, <1>15, <1>16 DEF Wrote
<1>18. ASSUME NEW j \in 0..3 + m + d PROVE At(message, o + j) = bytes[j + 1]
  <2>1. j + 1 \in 1..Len(bytes) /\ (o + j) + 1 = o + (j + 1)
    BY <1>17
  <2> QED
    BY <1>16, <2>1 DEF At
<1>19. At(message, o) = bytes[1] /\ At(message, o + 1) = m
  <2>1. 0 \in 0..3 + m + d /\ 1 \in 0..3 + m + d /\ o + 0 = o /\ 0 + 1 = 1 /\ 1 + 1 = 2
    OBVIOUS
  <2> QED
    BY <1>17, <1>18, <2>1
<1>20. PICK at \in Nat : at = o + 2 + m + 2
  OBVIOUS
<1>21. At(message, at - 2) + Radix * At(message, at - 1) = d
  <2>1. /\ at - 2 = o + (2 + m) /\ 2 + m \in 0..3 + m + d /\ (2 + m) + 1 = 3 + m
        /\ at - 1 = o + (3 + m) /\ 3 + m \in 0..3 + m + d /\ (3 + m) + 1 = 4 + m
    BY <1>20
  <2>2. At(message, at - 2) = bytes[3 + m] /\ At(message, at - 1) = bytes[4 + m]
    BY <1>18, <2>1
  <2> QED
    BY <1>17, <2>2
<1>22. /\ o + 4 + m + d <= Len(message) /\ Len(message) \in Nat
       /\ \A i \in 1..4 + m + d : message[o + i] = bytes[i]
  <2>1. PICK l \in 1..Len(bytes) : l = 4 + m + d /\ o + l = o + 4 + m + d
    <3>1. 4 + m + d \in 1..4 + m + d
      OBVIOUS
    <3> QED
      BY <1>17, <3>1
  <2>2. PICK M \in Nat : M = Len(message)
    BY <1>16
  <2>3. o + l \in 1..M
    BY <1>16, <2>2
  <2>4. \A i \in 1..l : message[o + i] = bytes[i]
    BY <1>16, <1>17, <2>1
  <2> QED
    BY <2>1, <2>2, <2>3, <2>4
<1>23. PICK xs : /\ xs = Slice(message, o + 2, o + 2 + m)
                 /\ Len(xs) = m /\ DOMAIN xs = 1..m /\ \A i \in 1..m : xs[i] = bytes[2 + i]
  <2>1. PICK from \in Nat : from = o + 2
    OBVIOUS
  <2>2. from + m <= Len(message)
    BY <1>22, <2>1
  <2>3. PICK xs : xs = Slice(message, from, from + m)
    OBVIOUS
  <2>4. xs \in Seq(Cells) /\ Len(xs) = m /\ \A i \in 1..m : xs[i] = message[from + i]
    <3>1. Part(xs, Cells, message, from, m)
      BY <1>16, <2>2, <2>3, SliceRead
    <3> QED
      BY <3>1 DEF Part
  <2>5. \A i \in 1..m : from + i = o + (2 + i) /\ 2 + i \in 1..4 + m + d
    BY <2>1
  <2>6. \A i \in 1..m : xs[i] = bytes[2 + i]
    BY <1>22, <2>4, <2>5
  <2>7. DOMAIN xs = 1..m
    BY <2>4
  <2>8. xs = Slice(message, o + 2, o + 2 + m)
    BY <2>1, <2>3
  <2> QED
    BY <2>4, <2>6, <2>7, <2>8
<1>24. PICK ds : ds = Slice(message, at, at + d)
  OBVIOUS
<1>25. ds = ix.data /\ ds \in Seq(Cells)
  <2>1. at + d <= Len(message) /\ \A i \in 1..d : at + i = o + (4 + m + i) /\ 4 + m + i \in 1..4 + m + d
    BY <1>20, <1>22
  <2>2. ds \in Seq(Cells) /\ Len(ds) = d /\ \A i \in 1..d : ds[i] = message[at + i]
    <3>1. Part(ds, Cells, message, at, d)
      BY <1>16, <1>24, <2>1, SliceRead
    <3> QED
      BY <3>1 DEF Part
  <2>3. \A i \in 1..d : ds[i] = ix.data[i]
    <3> TAKE i \in 1..d
    <3>1. PICK x \in 1..4 + m + d : x = 4 + m + i /\ at + i = o + x
      BY <2>1
    <3>2. ds[i] = message[o + x] /\ message[o + x] = bytes[x]
      BY <1>22, <2>2, <3>1
    <3>3. bytes[4 + m + i] = ix.data[i]
      BY <1>17
    <3> QED
      BY <3>1, <3>2, <3>3
  <2> QED
    <3>1. PICK data \in Seq(Data) : data = ix.data /\ Len(data) = d
      BY <1>15
    <3>2. ds = data
      <4>1. ds \in Seq(Cells) /\ Len(ds) = Len(data) /\ \A i \in 1..Len(ds) : ds[i] = data[i]
        BY <2>2, <2>3, <3>1
      <4> QED
        BY <4>1, SameSeq
    <3> QED
      BY <2>2, <3>1, <3>2
<1>26. ASSUME NEW i \in 0..N - 1
       PROVE  At(metas, i).key = keys[i + 1] /\ At(metas, i).key = At(message, 4 + i)
  <2>1. i + 1 \in 1..NumKeys /\ 3 + (i + 1) = 4 + i
    BY <1>4
  <2>2. metas[i + 1].key = At(message, 3 + (i + 1))
    BY <1>6, <2>1 DEF AccountMetas
  <2>3. At(message, 4 + i) = keys[i + 1]
    <3>1. i + 1 \in 1..Len(keys) /\ (4 + i) + 1 = 4 + (i + 1)
      BY <1>4
    <3>2. message[4 + (i + 1)] = keys[i + 1]
      BY <1>3, <3>1 DEF Reads, Laid
    <3> QED
      BY <3>1, <3>2 DEF At
  <2> QED
    BY <2>1, <2>2, <2>3 DEF At
<1> DEFINE Account(i) == [key |-> At(metas, i).key, signer |-> IsSignerIndex(i),
                          writable |-> IsStaticWritableIndex(i)]
<1>27. PICK ks : ks = [j \in 1..m |-> Account(xs[j])]
  OBVIOUS
<1>28. ASSUME NEW j \in 1..m
       PROVE  ks[j] \in KeyMetas /\ ks[j].key = ix.keys[j].key /\ FromMessage(ks[j])
  <2>1. PICK i \in 0..N - 1 : i = xs[j] /\ keys[i + 1] = ix.keys[j].key
    BY <1>17, <1>23
  <2>2. ks[j] = Account(i)
    BY <1>27, <2>1
  <2>3. At(metas, i).key = keys[i + 1] /\ At(metas, i).key = At(message, 4 + i)
    BY <1>26
  <2>4. keys[i + 1] \in Keys
    BY <1>4
  <2>5. IsSignerIndex(i) \in BOOLEAN /\ IsStaticWritableIndex(i) \in BOOLEAN
    BY DEF IsSignerIndex, IsStaticWritableIndex
  <2>6. ks[j] \in KeyMetas /\ ks[j].key = ix.keys[j].key
    BY <2>1, <2>2, <2>3, <2>4, <2>5 DEF KeyMetas
  <2>7. FromMessage(ks[j])
    BY <1>4, <2>2, <2>3 DEF FromMessage
  <2> QED
    BY <2>6, <2>7
<1>29. ks \in Seq(KeyMetas) /\ Len(ks) = m /\ DOMAIN ks = 1..m
  <2>1. ks \in [1..m -> KeyMetas]
    BY <1>27, <1>28
  <2>2. ks \in Seq(KeyMetas)
    BY <2>1, SeqDef
  <2>3. DOMAIN ks = 1..m
    BY <1>27
  <2>4. DOMAIN ks = 1..Len(ks) /\ Len(ks) \in Nat
    BY <2>2, LenProperties
  <2>5. Len(ks) = m
    BY <2>3, <2>4
  <2> QED
    BY <2>2, <2>3, <2>5
<1>30. PICK e : e = [program |-> At(metas, At(message, o)).key, keys |-> ks, data |-> ds]
  OBVIOUS
<1>31. e.program = ix.program /\ e.data = ix.data /\ e.keys = ks
  BY <1>17, <1>19, <1>25, <1>26, <1>30
<1>32. InvokedNext(ix, e)
  <2>1. ix.program \in Keys
    BY DEF Instructions
  <2>2. e \in Invocations
    BY <1>25, <1>29, <1>30, <1>31, <2>1 DEF Invocations
  <2>3. Mapped(ks, LAMBDA x : x.key) = Mapped(ix.keys, LAMBDA x : x.key)
    <3>1. DOMAIN ix.keys = 1..m
      BY <1>14
    <3> QED
      BY <1>28, <1>29, <3>1 DEF Mapped
  <2>4. \A x \in ToSet(ks) : FromMessage(x)
    BY <1>28, <1>29 DEF ToSet
  <2> QED
    BY <1>31, <2>2, <2>3, <2>4 DEF InvokedNext, SameCall
<1>33. invoked' = Append(invoked, e) /\ offset' = at + d
  <2>1. ks = Mapped(xs, LAMBDA i : Account(i))
    BY <1>23, <1>27 DEF Mapped
  <2> QED
    BY <1>12, <1>19, <1>20, <1>21, <1>23, <1>24, <1>30, <2>1 DEF Invoke, Mapped
<1>34. offset' = 5 + NumKeys + Len(Written(n))
  <2>1. at + d = o + (4 + m + d)
    BY <1>20
  <2> QED
    BY <1>16, <1>17, <1>33, <2>1
<1> QED
  BY <1>5, <1>7, <1>8, <1>9, <1>10, <1>32, <1>33, <1>34

(* What is read from the message depends on the message alone. *)
LEMMA ReadingStays ==
  ASSUME message' = message, executor' = executor
  PROVE  /\ NumKeys' = NumKeys /\ AccountMetas' = AccountMetas
         /\ Signable(executor)' = Signable(executor)
         /\ \A m : FromMessage(m)' <=> FromMessage(m)
<1>1. NumKeys' = NumKeys
  BY DEF NumKeys, At
<1>2. \A i : /\ IsSignerIndex(i)' = IsSignerIndex(i) /\ At(message, 4 + i)' = At(message, 4 + i)
             /\ IsStaticWritableIndex(i)' = IsStaticWritableIndex(i)
  BY <1>1, Zenon DEF IsSignerIndex, IsStaticWritableIndex, At
<1>3. AccountMetas' = AccountMetas
  BY <1>1, <1>2, Zenon DEF AccountMetas, At
<1>4. Signable(executor)' = Signable(executor)
  BY <1>3, Zenon DEF Signable
<1>5. \A m : FromMessage(m)' <=> FromMessage(m)
  BY <1>1, <1>2, Zenon DEF FromMessage
<1> QED
  BY <1>1, <1>3, <1>4, <1>5

LEMMA InvokeKeeps ==
  ASSUME WInv, Invoke
  PROVE  WInv'
<1>1. /\ message' = message /\ request' = request /\ entries' = entries /\ todo' = todo
      /\ executor' = executor /\ metas' = metas
  BY DEF Invoke
<1>2. CompileInv'
  BY <1>1 DEF WInv, CompileInv, Seen, Journey
<1>3. MessageInv'
  BY <1>1 DEF WInv, MessageInv
<1>4. message # None /\ executor # None
  BY DEF WInv, ExecuteInv, Invoke
<1>5. NumKeys' = NumKeys
  BY <1>1, ReadingStays
<1>7. AccountMetas' = AccountMetas /\ Signable(executor)' = Signable(executor)
  BY <1>1, ReadingStays
<1>8. \A m : FromMessage(m)' <=> FromMessage(m)
  BY <1>1, ReadingStays
<1>9. PICK is : is = request.instructions
  OBVIOUS
<1>10. PICK k : k = Len(invoked)
  OBVIOUS
<1>11. PICK e : InvokedNext(is[k + 1], e) /\ invoked' = Append(invoked, e)
  BY <1>9, <1>10, InvokeReads
<1>12. k + 1 \in 1..Len(is) /\ offset' = 5 + NumKeys + Len(Written(k + 1))
  BY <1>9, <1>10, InvokeReads
<1>13. PICK old \in Seq(Invocations) : old = invoked
  BY <1>4 DEF WInv, ExecuteInv
<1>14. k \in Nat /\ Len(old) = k
  BY <1>10, <1>13
<1>15. PICK new : new = invoked'
  OBVIOUS
<1>16. /\ new \in Seq(Invocations) /\ Len(new) = k + 1 /\ new[k + 1] = e
       /\ \A n \in 1..k : new[n] = old[n]
  <2>1. e \in Invocations /\ new = Append(old, e)
    BY <1>11, <1>13, <1>15 DEF InvokedNext
  <2> QED
    BY <1>14, <2>1, AppendProperties
<1>17. offset' = 5 + NumKeys' + Len(Written(Len(invoked))')
  <2>1. Written(Len(invoked))' = Written(k + 1)
    BY <1>1, <1>15, <1>16 DEF Written
  <2> QED
    BY <1>5, <1>12, <2>1
<1>18. ASSUME NEW n \in 1..k + 1
       PROVE  InvokedAsAsked(n)' /\ \A m \in ToSet(new[n].keys) : FromMessage(m)'
  <2>1. CASE n \in 1..k
    <3>1. InvokedAsAsked(n) /\ \A m \in ToSet(old[n].keys) : FromMessage(m)
      BY <1>4, <1>10, <1>13, <2>1 DEF WInv, ExecuteInv
    <3>2. invoked'[n] = invoked[n] /\ new[n] = old[n]
      BY <1>13, <1>15, <1>16, <2>1
    <3>3. InvokedAsAsked(n)'
      BY <1>1, <3>1, <3>2 DEF InvokedAsAsked
    <3> QED
      BY <1>8, <3>1, <3>2, <3>3
  <2>2. CASE n = k + 1
    <3>1. InvokedNext(is[n], new[n])
      BY <1>11, <1>16, <2>2
    <3>2. is = request'.instructions
      BY <1>1, <1>9
    <3>3. InvokedAsAsked(n)'
      BY <1>15, <3>1, <3>2 DEF InvokedAsAsked, InvokedNext
    <3>4. \A m \in ToSet(new[n].keys) : FromMessage(m)
      BY <3>1 DEF InvokedNext
    <3> QED
      BY <1>8, <3>3, <3>4
  <2> QED
    BY <1>14, <2>1, <2>2
<1>19. Len(invoked') <= Len(request'.instructions)
  BY <1>1, <1>9, <1>12, <1>15, <1>16
<1>20. \A n \in 1..Len(invoked') :
         InvokedAsAsked(n)' /\ \A m \in ToSet(invoked'[n].keys) : FromMessage(m)'
  BY <1>15, <1>16, <1>18
<1>21. executor \in Members \cup {None} /\ metas = AccountMetas /\ Signable(executor)
  BY <1>4 DEF WInv, ExecuteInv
<1>22. ExecuteInv'
  <2>1. executor' \in Members \cup {None} /\ executor' # None /\ message' # None
    BY <1>1, <1>4, <1>21
  <2>2. metas' = AccountMetas' /\ Signable(executor)'
    BY <1>1, <1>7, <1>21
  <2>3. invoked' \in Seq(Invocations)
    BY <1>15, <1>16
  <2> QED
    BY <1>17, <1>19, <1>20, <2>1, <2>2, <2>3 DEF ExecuteInv
<1> QED
  BY <1>2, <1>3, <1>22 DEF WInv

LEMMA VisitKeeps ==
  ASSUME WInv, Visit
  PROVE  WInv'
<1>1. CompileInv'
  BY VisitCompiles DEF WInv
<1>2. message = None /\ message' = None
  BY DEF WInv, MessageInv, Visit
<1>3. executor = None
  BY <1>2 DEF WInv, ExecuteInv
<1>4. MessageInv'
  BY <1>2 DEF MessageInv
<1>5. ExecuteInv'
  BY <1>3 DEF WInv, ExecuteInv, Visit
<1> QED
  BY <1>1, <1>4, <1>5 DEF WInv

LEMMA StutterKeeps ==
  ASSUME WInv, UNCHANGED vars
  PROVE  WInv'
<1>1. /\ message' = message /\ request' = request /\ entries' = entries /\ todo' = todo
      /\ executor' = executor /\ metas' = metas /\ invoked' = invoked /\ offset' = offset
  BY DEF vars
<1>2. CompileInv'
  BY <1>1 DEF WInv, CompileInv, Seen, Journey
<1>3. MessageInv'
  BY <1>1 DEF WInv, MessageInv
<1>4. NumKeys' = NumKeys /\ AccountMetas' = AccountMetas
  BY <1>1, ReadingStays
<1>7. Signable(executor)' = Signable(executor)
  BY <1>1, ReadingStays
<1>8. \A m : FromMessage(m)' <=> FromMessage(m)
  BY <1>1, ReadingStays
<1>9. \A n : InvokedAsAsked(n)' <=> InvokedAsAsked(n)
  BY <1>1 DEF InvokedAsAsked
<1>10. Written(Len(invoked))' = Written(Len(invoked))
  BY <1>1 DEF Written
<1>11. ExecuteInv'
  BY <1>1, <1>4, <1>7, <1>8, <1>9, <1>10 DEF WInv, ExecuteInv
<1> QED
  BY <1>2, <1>3, <1>11 DEF WInv

(* The key map, the message and the invocations stay what WInv says of them. *)
THEOREM WrappedInductive == Spec => []WInv
<1>1. Init => WInv
  BY InitWInv
<1>2. WInv /\ [Next]_vars => WInv'
  <2> SUFFICES ASSUME WInv, [Next]_vars PROVE WInv'
    OBVIOUS
  <2>1. CASE Visit
    BY <2>1, VisitKeeps
  <2>2. CASE Serialize
    BY <2>2, SerializeKeeps
  <2>3. CASE \E member \in Members : Send(member)
    BY <2>3, SendKeeps
  <2>4. CASE Invoke
    BY <2>4, InvokeKeeps
  <2>5. CASE UNCHANGED vars
    BY <2>5, StutterKeeps
  <2> QED
    BY <2>1, <2>2, <2>3, <2>4, <2>5 DEF Next
<1> QED
  BY <1>1, <1>2, PTL DEF Spec

------------------------------------------------------------------------------
(* The properties of the runs. *)

(* TypeOK: a key has one entry, and the cursor stays in the message. *)
THEOREM WrappedTypes == Spec => []TypeOK
<1>1. WInv => TypeOK
  <2> SUFFICES ASSUME WInv PROVE TypeOK
    OBVIOUS
  <2>1. entries \in Seq(KeyMetas) /\ \A j, k \in 1..Len(entries) : entries[j].key = entries[k].key => j = k
    BY DEF WInv, CompileInv, Compiled
  <2>2. PICK map \in Seq(KeyMetas) : map = entries /\ DOMAIN map = 1..Len(map)
    BY <2>1
  <2>3. \A e \in ToSet(map) : e \in KeyMetas
    BY <2>2 DEF ToSet
  <2>4. \A e \in ToSet(map) : e.key \in Keys /\ {e.signer, e.writable} \subseteq BOOLEAN
    <3> TAKE e \in ToSet(map)
    <3>1. e \in KeyMetas
      BY <2>3
    <3> QED
      BY <3>1 DEF KeyMetas
  <2>5. executor \in Members \cup {None}
    BY DEF WInv, ExecuteInv
  <2>6. ASSUME message # None PROVE offset \in 0..Len(message)
    <3>1. PICK a \in Nat, b \in Nat, c \in Nat : \E keys, ps, body : Reads(a, b, c, keys, ps, body)
      BY <2>6, MessageReads DEF WInv
    <3>2. PICK keys, ps, body : Reads(a, b, c, keys, ps, body)
      BY <3>1
    <3>3. PICK N \in Nat : N = NumKeys /\ Len(message) = 5 + N + Len(body) /\ Len(body) \in Nat
      BY <3>2, PlacesRead
    <3>4. CASE executor = None
      <4>1. offset = 0
        BY <3>4 DEF WInv, ExecuteInv
      <4> QED
        BY <3>3, <4>1
    <3>5. CASE executor # None
      <4>1. PICK k \in 0..Len(request.instructions) : k = Len(invoked)
        <5>1. invoked \in Seq(Invocations) /\ Len(invoked) <= Len(request.instructions)
          BY <3>5 DEF WInv, ExecuteInv
        <5>2. Len(request.instructions) \in Nat
          BY <2>6, MessageReads DEF WInv
        <5> QED
          BY <5>1, <5>2
      <4>2. PICK u \in 0..Len(body) : u = Len(Written(k))
        BY <3>2, WrittenSteps
      <4>3. offset = 5 + N + u
        BY <3>3, <3>5, <4>1, <4>2 DEF WInv, ExecuteInv
      <4> QED
        BY <3>3, <4>3
    <3> QED
      BY <3>4, <3>5
  <2> QED
    BY <2>1, <2>2, <2>4, <2>5, <2>6 DEF TypeOK
<1> QED
  BY <1>1, WrappedInductive, PTL

(* PrivilegesPreserved: four groups and three counts carry every key's flags. *)
THEOREM Privileges == Spec => []PrivilegesPreserved
<1>1. WInv => PrivilegesPreserved
  BY Preserved DEF WInv
<1> QED
  BY <1>1, WrappedInductive, PTL

(* PayerLeads: getMessageComponents finds the payer as the first writable signer. *)
THEOREM PayerIsFirst == Spec => []PayerLeads
<1>1. WInv => PayerLeads
  BY PayerFirst DEF WInv
<1> QED
  BY <1>1, WrappedInductive, PTL

(* InvokesProposal: the program invokes what was proposed and ends at the end. *)
THEOREM InvokesWhatWasProposed == Spec => []InvokesProposal
<1>1. WInv => InvokesProposal
  <2> SUFFICES ASSUME WInv PROVE InvokesProposal
    OBVIOUS
  <2>1. CASE executor = None
    <3>1. invoked = <<>>
      BY <2>1 DEF WInv, ExecuteInv
    <3>2. \A n \in DOMAIN invoked : FALSE
      BY <3>1
    <3> QED
      BY <2>1, <3>2 DEF InvokesProposal
  <2>2. CASE executor # None
    <3>1. invoked \in Seq(Invocations) /\ \A n \in 1..Len(invoked) : InvokedAsAsked(n)
      BY <2>2 DEF WInv, ExecuteInv
    <3>2. DOMAIN invoked = 1..Len(invoked)
      BY <3>1
    <3>3. ASSUME Len(invoked) = Len(request.instructions) PROVE offset = Len(message)
      <4>1. message # None /\ offset = 5 + NumKeys + Len(Written(Len(invoked)))
        BY <2>2 DEF WInv, ExecuteInv
      <4>2. PICK a \in Nat, b \in Nat, c \in Nat : \E keys, ps, body : Reads(a, b, c, keys, ps, body)
        BY <4>1, MessageReads DEF WInv
      <4>3. PICK keys, ps, body : Reads(a, b, c, keys, ps, body)
        BY <4>2
      <4>4. NumKeys = Len(keys) /\ Len(message) = 5 + Len(keys) + Len(body)
        BY <4>3, PlacesRead
      <4>5. Written(Len(invoked)) = body
        BY <3>3, <4>3, WrittenSteps
      <4> QED
        BY <4>1, <4>4, <4>5
    <3>4. \A n \in DOMAIN invoked : InvokedAsAsked(n)
      BY <3>1, <3>2
    <3> QED
      BY <3>3, <3>4, Zenon DEF InvokesProposal, InvokedAsAsked, SameCall
  <2> QED
    BY <2>1, <2>2
<1> QED
  BY <1>1, WrappedInductive, PTL

(* NoEscalation: an invoked instruction has no privilege the transaction lacks. *)
THEOREM NeverEscalates == Spec => []NoEscalation
<1>1. WInv => NoEscalation
  <2> SUFFICES ASSUME WInv, NEW ix \in ToSet(invoked), NEW m \in ToSet(ix.keys)
               PROVE  /\ m.writable => \E a \in ToSet(metas) : a.key = m.key /\ a.writable
                      /\ m.signer => m.key \in {executor, Vault}
    BY DEF NoEscalation
  <2>1. executor # None
    BY DEF WInv, ExecuteInv, ToSet
  <2>2. /\ invoked \in Seq(Invocations) /\ metas = AccountMetas /\ Signable(executor)
        /\ message # None
        /\ \A n \in 1..Len(invoked) : \A x \in ToSet(invoked[n].keys) : FromMessage(x)
    BY <2>1 DEF WInv, ExecuteInv
  <2>3. PICK n \in 1..Len(invoked) : ix = invoked[n]
    BY <2>2 DEF ToSet
  <2>4. PICK i \in 0..NumKeys - 1 :
          m = [key |-> At(message, 4 + i), signer |-> IsSignerIndex(i),
               writable |-> IsStaticWritableIndex(i)]
    BY <2>2, <2>3 DEF FromMessage
  <2>5. NumKeys \in Nat
    BY <2>2, MessageReads, PlacesRead DEF WInv
  <2>6. i + 1 \in 1..NumKeys /\ 3 + (i + 1) = 4 + i /\ (i + 1) - 1 = i
    BY <2>5
  <2>7. PICK a : a = metas[i + 1]
    OBVIOUS
  <2>8. /\ a.key = At(message, 4 + i) /\ a.writable = IsStaticWritableIndex(i)
        /\ a.signer = (IsSignerIndex(i) /\ At(message, 4 + i) # Vault)
    BY <2>2, <2>6, <2>7 DEF AccountMetas
  <2>9. a \in ToSet(metas)
    BY <2>2, <2>6, <2>7 DEF ToSet, AccountMetas
  <2>10. m.writable => a.key = m.key /\ a.writable
    BY <2>4, <2>8
  <2>11. m.signer => m.key \in {executor, Vault}
    BY <2>2, <2>4, <2>8, <2>9 DEF Signable
  <2> QED
    BY <2>9, <2>10, <2>11
<1> QED
  BY <1>1, WrappedInductive, PTL
=============================================================================
