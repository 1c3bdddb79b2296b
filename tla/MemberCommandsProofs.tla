-------------------------- MODULE MemberCommandsProofs --------------------------
(***************************************************************************)
(* Proofs about MemberCommands for any number of commands, members and     *)
(* proposals, and about TreasuryKey, whose shares create_multisig writes.  *)
(*                                                                         *)
(* What a command has read may be out of date when its transaction lands;  *)
(* what has landed never is: CInv says of every command that has landed    *)
(* what the chain owes it, and ChainFrame that no step of anybody takes it *)
(* back.                                                                   *)
(***************************************************************************)
EXTENDS MemberCommands, FortisMultisigProofs

------------------------------------------------------------------------------
(* The treasury's key, for every key, list of members and threshold that split *)
(* accepts.  A member reads the first entry under its key; these positions are *)
(* different for different members, also when the list repeats one, so that a  *)
(* set of members submits as many coordinates as it has members, and combine   *)
(* has enough shares exactly from threshold on.                                *)

Bytes == (0..Base - 1) \X (0..Base - 1)

MembersOf(members) == { members[j] : j \in DOMAIN members }

(* A number of two digits is what its digits say. *)
LEMMA Digits ==
  ASSUME NEW value \in 0..Base * Base - 1
  PROVE  /\ value % Base \in 0..Base - 1
         /\ value \div Base \in 0..Base - 1
         /\ (value \div Base) % Base = value \div Base
         /\ (value \div Base) * Base + (value % Base) = value
<1> DEFINE high == value \div Base
           low == value % Base
<1>1. Base \in Nat /\ Base > 0 /\ value \in Nat /\ value < Base * Base
  BY SecretsAssumption
<1>2. /\ low \in 0..Base - 1 /\ high \in Nat
      /\ value = Base * high + low
  BY <1>1
<1>3. high \in 0..Base - 1
  <2>1. SUFFICES ASSUME high >= Base PROVE FALSE
    BY <1>1, <1>2
  <2>2. Base * high >= Base * Base
    BY <2>1, <1>1, <1>2
  <2> QED
    BY <2>2, <1>1, <1>2
<1>4. high % Base = high
  BY <1>1, <1>3
<1>5. high * Base = Base * high
  BY <1>1, <1>3
<1> QED
  BY <1>2, <1>3, <1>4, <1>5

(* The bytes of a key are bytes, and the two byte orders cancel out. *)
LEMMA ByteOrder ==
  ASSUME NEW secret \in Secrets
  PROVE  /\ Backwards(LittleEndian(secret)) \in Bytes
         /\ FromBigEndian(Backwards(LittleEndian(secret))) = secret
<1>1. secret \in 0..Base * Base - 1
  BY SecretsAssumption
<1>2. Backwards(LittleEndian(secret)) = <<secret \div Base, secret % Base>>
  BY <1>1, Digits DEF Backwards, LittleEndian
<1> DEFINE high == secret \div Base
           low == secret % Base
<1>3. high \in 0..Base - 1 /\ low \in 0..Base - 1 /\ high * Base + low = secret
  BY <1>1, Digits
<1> HIDE DEF high, low
<1>4. <<high, low>> \in Bytes
  BY <1>3 DEF Bytes
<1>5. FromBigEndian(<<high, low>>) = high * Base + low
  BY DEF FromBigEndian
<1> QED
  BY <1>2, <1>3, <1>4, <1>5 DEF high, low

(* A public key comes out of the account as it went in. *)
LEMMA PublicKeyRoundTrip ==
  ASSUME NEW secret \in Secrets
  PROVE  FromLittleEndian(LittleEndian(PublicKeyOf[secret])) = PublicKeyOf[secret]
<1>1. PublicKeyOf[secret] \in 0..Base * Base - 1
  BY SecretsAssumption
<1> DEFINE high == PublicKeyOf[secret] \div Base
           low == PublicKeyOf[secret] % Base
<1>2. high % Base = high /\ high * Base + low = PublicKeyOf[secret]
  BY <1>1, Digits
<1>3. LittleEndian(PublicKeyOf[secret]) = <<low, high>>
  BY <1>2 DEF LittleEndian
<1> HIDE DEF high, low
<1>4. FromLittleEndian(<<low, high>>) = high * Base + low
  BY DEF FromLittleEndian
<1> QED
  BY <1>2, <1>3, <1>4

(* The numbers that split accepts. *)
LEMMA SplitBounds ==
  ASSUME NEW n, NEW threshold, CanSplit(n, threshold)
  PROVE  /\ n \in 2..255 /\ threshold \in 2..255 /\ threshold <= n
         /\ \A i \in 1..n : i \in 1..255
<1>1. n \in 2..255 /\ threshold \in 2..255 /\ threshold <= n
  BY DEF CanSplit
<1>2. n \in Int /\ n <= 255
  BY <1>1
<1> QED
  BY <1>1, <1>2

(* A share is never mistaken for a missing one. *)
LEMMA ShareIsThere ==
  ASSUME NEW bytes \in Bytes, NEW threshold \in 2..255, NEW coordinate \in 1..255
  PROVE  [secret |-> bytes, threshold |-> threshold, coordinate |-> coordinate] # NoShare
<1>1. NoShare \notin [secret : Bytes, threshold : 2..255, coordinate : 1..255]
  BY SecretsAssumption DEF Bytes
<1> QED
  BY <1>1

(* The least element of a set of natural numbers that has one. *)
LEMMA MinOfSome ==
  ASSUME NEW S \in SUBSET Nat, S # {}
  PROVE  Min(S) \in S
<1>1. PICK n \in S : TRUE
  OBVIOUS
<1>2. \E x \in S : \A y \in S : x <= y
  <2> DEFINE R == { p \in Nat \X Nat : p[1] < p[2] }
  <2>1. IsWellFoundedOn(R, Nat)
    BY NatLessThanWellFounded DEF OpToRel
  <2>2. \E x \in S : \A y \in S : ~(<<y, x>> \in R)
    <3> HIDE DEF R
    <3> QED
      BY <2>1, <1>1, WFMin
  <2>3. PICK x \in S : \A y \in S : ~(<<y, x>> \in R)
    BY <2>2
  <2>4. ASSUME NEW y \in S PROVE x <= y
    <3>1. ~(y < x)
      BY <2>3
    <3> QED
      BY <3>1
  <2> QED
    BY <2>4
<1> QED
  BY <1>2 DEF Min

(* What a member of the list finds and opens: the share at the first position of
   its key. *)
LEMMA MemberFindsShare ==
  ASSUME NEW secret \in Secrets, NEW M, NEW members \in Seq(M), NEW threshold,
         CanSplit(Len(members), threshold),
         NEW m \in MembersOf(members)
  PROVE  LET first == Min(Entries(SharesOfKey(secret, members, threshold), m)) IN
         /\ first \in DOMAIN members
         /\ members[first] = m
         /\ FetchShare(SharesOfKey(secret, members, threshold), m) =
              [secret |-> Backwards(LittleEndian(secret)), threshold |-> threshold,
               coordinate |-> first]
<1> DEFINE bytes == Backwards(LittleEndian(secret))
           share(i) == [secret |-> bytes, threshold |-> threshold, coordinate |-> i]
           entries == SharesOfKey(secret, members, threshold)
           first == Min(Entries(entries, m))
<1>1. DOMAIN members = 1..Len(members) /\ Len(members) \in Nat
  OBVIOUS
<1>2. entries = [i \in DOMAIN members |->
                   [member |-> members[i],
                    ciphertext |-> [to |-> members[i], share |-> share(i)]]]
  BY <1>1 DEF SharesOfKey, EncryptedShares, Split, Encrypt
<1> HIDE DEF entries, bytes
<1>3. Entries(entries, m) = {i \in DOMAIN members : members[i] = m}
  BY <1>2 DEF Entries
<1>4. Entries(entries, m) # {} /\ Entries(entries, m) \subseteq Nat
  BY <1>1, <1>3 DEF MembersOf
<1>5. first \in Entries(entries, m)
  BY <1>4, MinOfSome
<1>6. first \in DOMAIN members /\ members[first] = m
  BY <1>3, <1>5
<1>7. FetchShare(entries, m) = share(first)
  BY <1>2, <1>4, <1>6 DEF FetchShare, Decrypt
<1> QED
  BY <1>6, <1>7 DEF entries, bytes

(* What a set of members submits: shares of one splitting, and as many shares and
   coordinates as members. *)
LEMMA SubmittedShares ==
  ASSUME NEW secret \in Secrets, NEW M, NEW members \in Seq(M), NEW threshold,
         CanSplit(Len(members), threshold),
         NEW S \in SUBSET MembersOf(members)
  PROVE  LET shares == Submitted(SharesOfKey(secret, members, threshold), S) IN
         /\ IsFiniteSet(S)
         /\ Cardinality(S) <= Len(members)
         /\ NoShare \notin shares
         /\ Cardinality(Coordinates(shares)) = Cardinality(S)
         /\ Cardinality(shares) = Cardinality(S)
         /\ IsFiniteSet(shares)
         /\ \A s \in shares : /\ s.secret = Backwards(LittleEndian(secret))
                              /\ s.threshold = threshold
<1> DEFINE entries == SharesOfKey(secret, members, threshold)
           bytes == Backwards(LittleEndian(secret))
           first(m) == Min(Entries(entries, m))
           shares == Submitted(entries, S)
           position == [m \in S |-> first(m)]
           submits == [m \in S |-> FetchShare(entries, m)]
           n == Len(members)
<1>1. DOMAIN members = 1..n /\ n \in Nat
  OBVIOUS
<1>2. ASSUME NEW m \in S
      PROVE  /\ first(m) \in 1..n
             /\ members[first(m)] = m
             /\ FetchShare(entries, m) = [secret |-> bytes, threshold |-> threshold,
                                         coordinate |-> first(m)]
  BY MemberFindsShare, <1>1
<1>3. IsFiniteSet(S) /\ Cardinality(S) <= n
  <2>1. IsFiniteSet(1..n) /\ Cardinality(1..n) = n
    <3>1. n \in Int /\ 1 \in Int /\ (IF 1 > n THEN 0 ELSE n - 1 + 1) = n
      BY <1>1
    <3> HIDE DEF n
    <3> QED
      BY <3>1, FS_Interval
  <2>2. members \in Surjection(1..n, MembersOf(members))
    BY <1>1 DEF Surjection, MembersOf
  <2>3. /\ IsFiniteSet(MembersOf(members))
        /\ Cardinality(MembersOf(members)) <= n
    BY <2>1, <2>2, FS_Surjection
  <2>4. IsFiniteSet(S) /\ Cardinality(S) <= Cardinality(MembersOf(members))
    BY <2>3, FS_Subset
  <2> QED
    BY <1>1, <2>3, <2>4, FS_CardinalityType
<1> HIDE DEF entries, bytes, first, n
<1>4. \A s \in shares : s # NoShare /\ s.secret = bytes /\ s.threshold = threshold
  <2> SUFFICES ASSUME NEW m \in S
               PROVE  LET s == FetchShare(entries, m) IN
                      s # NoShare /\ s.secret = bytes /\ s.threshold = threshold
    BY DEF Submitted
  <2>1. bytes \in Bytes
    BY ByteOrder DEF bytes
  <2>2. threshold \in 2..255 /\ \A i \in 1..n : i \in 1..255
    BY SplitBounds DEF n
  <2>3. [secret |-> bytes, threshold |-> threshold, coordinate |-> first(m)] # NoShare
    BY <1>2, <2>1, <2>2, ShareIsThere
  <2> QED
    BY <1>2, <2>3
<1>5. IsFiniteSet(shares) /\ Cardinality(shares) = Cardinality(S)
  <2>1. \A x, y \in S : FetchShare(entries, x) = FetchShare(entries, y) => x = y
    BY <1>2
  <2>2. submits \in Bijection(S, shares)
    BY <2>1 DEF Bijection, Injection, Surjection, IsInjective, Submitted
  <2> QED
    BY <2>2, <1>3, FS_Bijection DEF ExistsBijection
<1>6. Cardinality(Coordinates(shares)) = Cardinality(S)
  <2>1. Coordinates(shares) = { first(m) : m \in S }
    BY <1>2 DEF Coordinates, Submitted
  <2>2. position \in Bijection(S, Coordinates(shares))
    BY <1>2, <2>1 DEF Bijection, Injection, Surjection, IsInjective
  <2> QED
    BY <2>2, <1>3, FS_Bijection DEF ExistsBijection
<1> QED
  BY <1>3, <1>4, <1>5, <1>6 DEF entries, bytes, n

(* Any set of at least threshold members of the list reconstructs the key that
   create_multisig has split, and no smaller set does. *)
THEOREM ThresholdReconstructs ==
  ASSUME NEW secret \in Secrets, NEW M, NEW members \in Seq(M), NEW threshold,
         CanSplit(Len(members), threshold),
         NEW S \in SUBSET MembersOf(members)
  PROVE  Reconstruct(SharesOfKey(secret, members, threshold), S) =
           IF Cardinality(S) >= threshold THEN secret ELSE NoKey
<1> DEFINE entries == SharesOfKey(secret, members, threshold)
           bytes == Backwards(LittleEndian(secret))
           shares == Submitted(entries, S)
           size == Cardinality(S)
           n == Len(members)
<1>1. IsFiniteSet(S) /\ size \in Nat /\ size <= n
  BY SubmittedShares, FS_CardinalityType
<1>2. /\ NoShare \notin shares
      /\ Cardinality(Coordinates(shares)) = size
      /\ Cardinality(shares) = size
      /\ IsFiniteSet(shares)
  BY SubmittedShares
<1>3. \A s \in shares : s.secret = bytes /\ s.threshold = threshold
  BY SubmittedShares
<1>4. n \in 2..255 /\ threshold \in 2..255
  BY SplitBounds
<1>5. FromBigEndian(bytes) = secret
  BY ByteOrder
<1>6. Reconstruct(entries, S) =
        IF ~CanCombine(shares, size) THEN NoKey
        ELSE IF SplitTogether(shares) THEN FromBigEndian((CHOOSE s \in shares : TRUE).secret)
        ELSE NoKey
  BY <1>2 DEF Reconstruct
<1>7. shares = {} <=> size = 0
  BY <1>2, FS_EmptySet
<1> SUFFICES Reconstruct(entries, S) = IF size >= threshold THEN secret ELSE NoKey
  OBVIOUS
<1> HIDE DEF entries, bytes, shares, size, n
<1>8. CanCombine(shares, size) <=> size \in 2..255
  BY <1>2 DEF CanCombine
<1>9. CASE size >= threshold
  <2>1. size \in 2..255 /\ size # 0
    BY <1>1, <1>4, <1>9
  <2>2. SplitTogether(shares)
    BY <1>2, <1>3, <1>9 DEF SplitTogether
  <2>3. (CHOOSE s \in shares : TRUE).secret = bytes
    BY <1>3, <1>7, <2>1
  <2> QED
    BY <1>5, <1>6, <1>8, <1>9, <2>1, <2>2, <2>3
<1>10. CASE ~(size >= threshold)
  <2>1. CASE shares = {}
    BY <1>6, <1>7, <1>8, <1>10, <2>1
  <2>2. CASE shares # {}
    <3>1. ~SplitTogether(shares)
      BY <1>2, <1>3, <1>10, <1>1, <1>4, <2>2 DEF SplitTogether
    <3> QED
      BY <3>1, <1>6, <1>10
  <2> QED
    BY <2>1, <2>2
<1> QED
  BY <1>9, <1>10

------------------------------------------------------------------------------
(* The commands. *)

SharesOf(c) == SharesOfKey(Arguments[c].secret, Arguments[c].members, Arguments[c].threshold)

ClientStates ==
  [pc : Steps, index : 0..MaxIndex + 1, deadline : Int,
   shares : {<<>>} \cup { SharesOf(c) : c \in Commands },
   content : {NoAccount} \cup Messages \cup Hashes,
   told : Tellings, remaining : Int]

(* The steps between the decision to send and the end. *)
Underway(c) == client[c].pc \notin {"unused", "start", "thrown", "skipped"}

(* The transaction of the command has been executed. *)
Past(c) == client[c].pc \in {"landed", "confirmed", "done", "unanswered"}

(* What a command sends is what it was called for. *)
KindAt(c) ==
  Underway(c) =>
    /\ Runs(c, "create_multisig") =>
         /\ CanSplit(Len(Arguments[c].members), Arguments[c].threshold)
         /\ client[c].shares = SharesOf(c)
    /\ Runs(c, "approve_proposal") \/ Runs(c, "execute_proposal") =>
         client[c].index = Arguments[c].index
    /\ Runs(c, "create_transfer_proposal") => client[c].deadline \in Deadlines
    /\ At(c, "done") => Runs(c, "approve_proposal")

(* What the chain owes to a command whose transaction was executed. *)
LandedAt(c) ==
  LET i == client[c].index IN
  Past(c) =>
    /\ Runs(c, "execute_proposal") => payouts[i] = 1
    /\ Runs(c, "create_transfer_proposal") =>
         /\ multisig # NoAccount /\ i \in Indices /\ i <= multisig.transaction_index
         /\ Live(i) => transaction[i].content = Arguments[c].message
    /\ Runs(c, "approve_proposal") =>
         /\ multisig # NoAccount /\ i <= multisig.transaction_index
         /\ Live(i) => Arguments[c].signer \in Votes(proposal[i])

(* What a command has told agrees with the account, as long as there is one, and
   nothing is told before the end. *)
ToldAt(c) ==
  LET p == proposal[client[c].index]
      told(what) == client[c].told = what
  IN
  /\ ~At(c, "done") => told("nothing")
  /\ At(c, "done") =>
       /\ told("waiting") => client[c].remaining >= 1
       /\ Live(client[c].index) =>
            /\ told("executable") \/ told("executed") =>
                 p.status # Active /\ Cardinality(Votes(p)) >= multisig.threshold
            /\ told("executed") => p.status = Executed
            /\ told("waiting") =>
                 Cardinality(Votes(p)) + client[c].remaining >= multisig.threshold

(* Two proposals or two executions never get the same index. *)
Apart(c, d) ==
  \A kind \in {"create_transfer_proposal", "execute_proposal"} :
    c # d /\ Past(c) /\ Past(d) /\ Runs(c, kind) /\ Runs(d, kind)
      => client[c].index # client[d].index

(* The account is the work of one create_multisig. *)
Founder(c) ==
  LET a == Arguments[c] IN
  /\ Runs(c, "create_multisig")
  /\ CanSplit(Len(a.members), a.threshold)
  /\ multisig.members = a.members /\ multisig.threshold = a.threshold
  /\ multisig.shares = SharesOf(c)
  /\ treasury = LittleEndian(PublicKeyOf[a.secret])

Founded == multisig # NoAccount => \E c \in Commands : Founder(c)

CInv ==
  /\ IInv
  /\ client \in [Commands -> ClientStates]
  /\ \A c \in Commands : KindAt(c) /\ LandedAt(c) /\ ToldAt(c)
  /\ \A c, d \in Commands : Apart(c, d)
  /\ Founded

------------------------------------------------------------------------------
(* Every step of a command is a step of the chain, or leaves it alone. *)

LEMMA StepIsChainStep == CInv /\ CommandsNext => [Next]_vars
<1> SUFFICES ASSUME CInv, CommandsNext PROVE [Next]_vars
  OBVIOUS
<1>1. CASE ChainStep
  BY <1>1 DEF ChainStep, Next
<1>2. ASSUME NEW c \in Commands, UNCHANGED <<vars, treasury>>
      PROVE  [Next]_vars
  BY <1>2
<1>3. ASSUME NEW c \in Commands, LandMultisig(c)
      PROVE  Next
  BY <1>3, ArgumentsAssumption DEF LandMultisig, Next
<1>4. ASSUME NEW c \in Commands, Sent(c)
      PROVE  Underway(c) /\ KindAt(c)
  BY <1>4 DEF Sent, Underway, CInv
<1>5. ASSUME NEW c \in Commands, LandProposal(c)
      PROVE  Next
  <2>1. Arguments[c].signer \in Keys /\ Arguments[c].message \in Messages
    BY <1>5, ArgumentsAssumption DEF LandProposal
  <2>2. client[c].deadline \in Deadlines /\ client[c].index \in Indices
    BY <1>5, <1>4 DEF LandProposal, KindAt
  <2> QED
    BY <1>5, <2>1, <2>2 DEF LandProposal, Next
<1>6. ASSUME NEW c \in Commands, LandApproval(c)
      PROVE  Next
  <2>1. Arguments[c].signer \in Keys /\ Arguments[c].index \in Indices
    BY <1>6, ArgumentsAssumption DEF LandApproval
  <2>2. client[c].index = Arguments[c].index
    BY <1>6, <1>4 DEF LandApproval, KindAt
  <2> QED
    BY <1>6, <2>1, <2>2 DEF LandApproval, Next
<1>7. ASSUME NEW c \in Commands, LandExecution(c)
      PROVE  Next
  <2>1. Arguments[c].signer \in Keys /\ Arguments[c].index \in Indices
    BY <1>7, ArgumentsAssumption DEF LandExecution
  <2>2. client[c].index = Arguments[c].index
    BY <1>7, <1>4 DEF LandExecution, KindAt
  <2>3. ASSUME NEW key \in Keys, NEW index \in Indices, NEW effect \in Effects,
               ExecutePublic(key, index, effect)
        PROVE  Next
    BY <2>3 DEF Next
  <2> QED
    BY <1>7, <2>1, <2>2, <2>3 DEF LandExecution
<1>8. ASSUME NEW c \in Commands, LandDeposit(c)
      PROVE  Next
  BY <1>8, ArgumentsAssumption DEF LandDeposit, Next
<1> QED
  BY <1>1, <1>2, <1>3, <1>5, <1>6, <1>7, <1>8
     DEF CommandsNext, BuildMultisig, ReadIndex, ReadProposal, ReadTransaction, ReadStatus,
         BuildDeposit, Throw, Confirm, Tell

(* What a step of the chain leaves to commands that do not move. *)
LEMMA ChainFrame ==
  ASSUME CInv, [Next]_vars, IInv'
  PROVE  /\ multisig # NoAccount =>
              /\ multisig' # NoAccount
              /\ multisig'.members = multisig.members
              /\ multisig'.threshold = multisig.threshold
              /\ multisig'.shares = multisig.shares
              /\ multisig'.transaction_index >= multisig.transaction_index
              /\ multisig.transaction_index \in Nat /\ multisig'.transaction_index \in Nat
         /\ \A i \in Indices : payouts[i] = 1 => payouts'[i] = 1
         /\ \A i \in Indices :
              multisig # NoAccount /\ i <= multisig.transaction_index /\ Live(i)' => Kept(i)
<1>1. multisig # NoAccount => multisig.transaction_index \in Nat
  BY DEF CInv, IInv, TypeOK, Multisigs
<1>2. multisig' # NoAccount => multisig'.transaction_index \in Nat
  BY DEF IInv, TypeOK, Multisigs
<1>3. CASE Next
  BY <1>1, <1>2, <1>3, AccountFrame, ContentFrame DEF CInv
<1>4. CASE UNCHANGED vars
  <2>1. \A i \in Indices : Live(i)' => Kept(i)
    BY <1>4 DEF vars, Live, Kept, Votes
  <2> QED
    BY <1>1, <1>4, <2>1 DEF vars
<1> QED
  BY <1>3, <1>4

LEMMA ClientFrame ==
  ASSUME CInv, [Next]_vars, IInv', NEW c \in Commands, client'[c] = client[c]
  PROVE  KindAt(c)' /\ LandedAt(c)' /\ ToldAt(c)'
<1> DEFINE i == client[c].index
<1>1. KindAt(c)' /\ (Past(c)' <=> Past(c)) /\ (Underway(c)' <=> Underway(c))
  BY DEF CInv, KindAt, Past, Underway, At
<1>2. ASSUME Past(c), Runs(c, "approve_proposal") \/ Runs(c, "execute_proposal")
      PROVE  i \in Indices
  <2>1. Underway(c)
    BY <1>2 DEF Past, Underway
  <2> QED
    BY <1>2, <2>1, ArgumentsAssumption DEF CInv, KindAt
<1>3. LandedAt(c)'
  <2>1. ASSUME Past(c), Runs(c, "execute_proposal")
        PROVE  payouts'[i] = 1
    BY <1>2, <2>1, ChainFrame DEF CInv, LandedAt
  <2>2. ASSUME Past(c), Runs(c, "create_transfer_proposal")
        PROVE  /\ multisig' # NoAccount /\ i \in Indices /\ i <= multisig'.transaction_index
               /\ Live(i)' => transaction'[i].content = Arguments[c].message
    <3>1. /\ multisig # NoAccount /\ i \in Indices /\ i <= multisig.transaction_index
          /\ Live(i) => transaction[i].content = Arguments[c].message
      BY <2>2 DEF CInv, LandedAt
    <3>2. Live(i)' => Kept(i)
      BY <3>1, ChainFrame
    <3> QED
      BY <3>1, <3>2, ChainFrame DEF Kept, Indices
  <2>3. ASSUME Past(c), Runs(c, "approve_proposal")
        PROVE  /\ multisig' # NoAccount /\ i <= multisig'.transaction_index
               /\ Live(i)' => Arguments[c].signer \in Votes(proposal'[i])
    <3>1. /\ multisig # NoAccount /\ i \in Indices /\ i <= multisig.transaction_index
          /\ Live(i) => Arguments[c].signer \in Votes(proposal[i])
      BY <1>2, <2>3 DEF CInv, LandedAt
    <3>2. Live(i)' => Kept(i)
      BY <3>1, ChainFrame
    <3> QED
      BY <3>1, <3>2, ChainFrame DEF Kept, Indices
  <2> QED
    BY <1>1, <2>1, <2>2, <2>3 DEF LandedAt, Votes, Live
<1>4. ToldAt(c)'
  <2>1. SUFFICES ASSUME At(c, "done") PROVE ToldAt(c)'
    BY DEF CInv, ToldAt, At
  <2>2. Past(c) /\ Underway(c) /\ Runs(c, "approve_proposal")
    BY <2>1 DEF CInv, KindAt, Past, Underway, At
  <2>3. multisig # NoAccount /\ i \in Indices /\ i <= multisig.transaction_index
    BY <1>2, <2>2 DEF CInv, LandedAt
  <2>4. client[c].told = "waiting" => client[c].remaining >= 1
    BY <2>1 DEF CInv, ToldAt
  <2>5. SUFFICES ASSUME Live(i)'
                 PROVE  /\ client[c].told \in {"executable", "executed"} =>
                             /\ proposal'[i].status # Active
                             /\ Cardinality(Votes(proposal'[i])) >= multisig'.threshold
                        /\ client[c].told = "executed" => proposal'[i].status = Executed
                        /\ client[c].told = "waiting" =>
                             Cardinality(Votes(proposal'[i])) + client[c].remaining
                               >= multisig'.threshold
    BY <2>1, <2>4 DEF ToldAt, At, Live, Votes, Active, Executed
  <2>6. Kept(i)
    BY <2>3, <2>5, ChainFrame
  <2>7. proposal'[i].status # Active => Cardinality(Votes(proposal'[i])) >= multisig'.threshold
    BY <2>3, <2>5 DEF IInv, IndexInv, QuorumAt, Live, Votes, Active
  <2>8. Cardinality(Votes(proposal[i])) <= Cardinality(Votes(proposal'[i]))
        /\ Cardinality(Votes(proposal[i])) \in Nat /\ Cardinality(Votes(proposal'[i])) \in Nat
    <3>1. IsFiniteSet(Votes(proposal'[i]))
      BY <2>3, <2>5 DEF IInv, IndexInv, Live, Votes
    <3> QED
      BY <2>6, <3>1, FS_Subset, FS_CardinalityType DEF Kept
  <2>9. multisig'.threshold = multisig.threshold /\ multisig.threshold \in Nat
        /\ client[c].remaining \in Int
    BY <2>3, AccountTypes, ChainFrame DEF CInv, IInv, ClientStates
  <2>10. /\ client[c].told \in {"executable", "executed"} => proposal[i].status # Active
         /\ client[c].told = "executed" => proposal[i].status = Executed
         /\ client[c].told = "waiting" =>
              Cardinality(Votes(proposal[i])) + client[c].remaining >= multisig.threshold
    BY <2>1, <2>6 DEF CInv, ToldAt, Kept
  <2> HIDE DEF i
  <2> QED
    BY <2>6, <2>7, <2>8, <2>9, <2>10 DEF Kept
<1> QED
  BY <1>1, <1>3, <1>4

(* The other commands stay apart, and the founder stays the founder. *)
LEMMA OthersApart ==
  ASSUME CInv, NEW c \in Commands, NEW r, client' = [client EXCEPT ![c] = r],
         NEW d \in Commands \ {c}, NEW e \in Commands \ {c}
  PROVE  Apart(d, e)'
<1>1. client'[d] = client[d] /\ client'[e] = client[e]
  OBVIOUS
<1> QED
  BY <1>1 DEF CInv, Apart, Past

LEMMA FoundedFrame ==
  ASSUME CInv, [Next]_vars, IInv', treasury' = treasury,
         multisig # NoAccount \/ multisig' = multisig
  PROVE  Founded'
<1>1. CASE multisig = NoAccount
  BY <1>1 DEF Founded
<1>2. CASE multisig # NoAccount
  <2>1. PICK c \in Commands : Founder(c)
    BY <1>2 DEF CInv, Founded
  <2>2. Founder(c)'
    BY <1>2, <2>1, ChainFrame DEF Founder
  <2> QED
    BY <2>2 DEF Founded
<1> QED
  BY <1>1, <1>2

(* One command moves, by itself or with the chain. *)
LEMMA OneMoves ==
  ASSUME CInv, [Next]_vars, NEW c \in Commands, NEW r \in ClientStates,
         client' = [client EXCEPT ![c] = r],
         KindAt(c)', LandedAt(c)', ToldAt(c)',
         \A d \in Commands \ {c} : Apart(c, d)',
         Founded'
  PROVE  CInv'
<1>1. IInv'
  BY NextIInv DEF CInv
<1>2. client' \in [Commands -> ClientStates]
  BY DEF CInv
<1>3. ASSUME NEW d \in Commands
      PROVE  KindAt(d)' /\ LandedAt(d)' /\ ToldAt(d)'
  <2>1. CASE d = c
    BY <2>1
  <2>2. CASE d # c
    BY <1>1, <2>2, ClientFrame
  <2> QED
    BY <2>1, <2>2
<1>4. ASSUME NEW d \in Commands, NEW e \in Commands
      PROVE  Apart(d, e)'
  <2>1. CASE d = e
    BY <2>1 DEF Apart
  <2>2. CASE d = c /\ e # c
    BY <2>2
  <2>3. CASE d # c /\ e = c
    <3>1. Apart(c, d)'
      BY <2>3
    <3> QED
      BY <2>3, <3>1 DEF Apart
  <2>4. CASE d # c /\ e # c
    BY <2>4, OthersApart
  <2> QED
    BY <2>1, <2>2, <2>3, <2>4
<1> QED
  BY <1>1, <1>2, <1>3, <1>4 DEF CInv

(* A command moves and the chain does not. *)
LEMMA Quiet ==
  ASSUME CInv, UNCHANGED <<vars, treasury>>, NEW c \in Commands, NEW r \in ClientStates,
         client' = [client EXCEPT ![c] = r],
         Past(c)' => Past(c) /\ r.index = client[c].index,
         KindAt(c)', ToldAt(c)'
  PROVE  CInv'
<1>1. client'[c] = r
  BY DEF CInv
<1>2. LandedAt(c)'
  BY <1>1 DEF CInv, LandedAt, vars, Live, Votes
<1>3. ASSUME NEW d \in Commands \ {c}
      PROVE  Apart(c, d)'
  <2>1. client'[d] = client[d]
    OBVIOUS
  <2> QED
    BY <1>1, <2>1 DEF CInv, Apart, Past
<1>4. [Next]_vars
  OBVIOUS
<1>5. IInv'
  BY <1>4, NextIInv DEF CInv
<1>6. Founded'
  BY <1>4, <1>5, FoundedFrame DEF vars
<1> QED
  BY <1>2, <1>3, <1>4, <1>6, OneMoves

(* The transaction of a command is executed. *)
LEMMA Landing ==
  ASSUME CInv, [Next]_vars, NEW c \in Commands, Sent(c), Lands(c), LandedAt(c)',
         \A d \in Commands \ {c} : Apart(c, d)', Founded'
  PROVE  CInv'
<1> DEFINE pc == IF At(c, "built") THEN "landed" ELSE "unanswered"
           r == [client[c] EXCEPT !.pc = pc]
<1>1. client' = [client EXCEPT ![c] = r] /\ r \in ClientStates
  BY DEF Lands, Goes, CInv, ClientStates, Steps
<1>2. /\ r.pc \in {"landed", "unanswered"} /\ r.index = client[c].index
      /\ r.shares = client[c].shares /\ r.deadline = client[c].deadline
      /\ r.told = client[c].told /\ client'[c] = r
  BY <1>1 DEF CInv, ClientStates
<1>3. KindAt(c) /\ ToldAt(c)
  BY DEF CInv
<1>4. Underway(c)
  BY DEF Sent, Underway
<1>5. KindAt(c)' /\ ToldAt(c)'
  BY <1>2, <1>3, <1>4 DEF KindAt, ToldAt, Underway, At, Sent
<1> HIDE DEF r
<1> QED
  BY <1>1, <1>5, OneMoves

------------------------------------------------------------------------------
(* The steps of the commands. *)

(* Before its transaction is sent, nothing is owed to a command. *)
LEMMA Before ==
  ASSUME CInv, UNCHANGED <<vars, treasury>>, NEW c \in Commands, NEW r \in ClientStates,
         client' = [client EXCEPT ![c] = r], r.pc \in {"read", "built", "thrown", "skipped"},
         ~At(c, "done"), r.told = client[c].told, KindAt(c)'
  PROVE  CInv'
<1>1. client'[c] = r
  BY DEF CInv
<1>2. ~Past(c)' /\ ToldAt(c)'
  BY <1>1 DEF CInv, Past, ToldAt, At
<1> QED
  BY <1>2, Quiet

(* A command that gives up is owed nothing either. *)
LEMMA GivesUp ==
  ASSUME CInv, UNCHANGED <<vars, treasury>>, NEW c \in Commands, NEW pc \in {"thrown", "skipped"},
         Goes(c, pc), ~At(c, "done")
  PROVE  CInv'
<1> DEFINE r == [client[c] EXCEPT !.pc = pc]
<1>1. client' = [client EXCEPT ![c] = r] /\ r \in ClientStates /\ r.pc = pc
      /\ r.told = client[c].told
  BY DEF Goes, CInv, ClientStates, Steps
<1>2. client'[c] = r
  BY <1>1 DEF CInv
<1>3. KindAt(c)'
  BY <1>1, <1>2 DEF KindAt, Underway
<1> HIDE DEF r
<1> QED
  BY <1>1, <1>3, Before

LEMMA BuildMultisigPreserves ==
  ASSUME CInv, NEW c \in Commands, BuildMultisig(c)
  PROVE  CInv'
<1> DEFINE r == [client[c] EXCEPT !.pc = "built", !.shares = SharesOf(c)]
<1>1. CASE Goes(c, "thrown")
  BY <1>1, GivesUp DEF BuildMultisig, At
<1>2. CASE ~Goes(c, "thrown")
  <2>1. /\ CanSplit(Len(Arguments[c].members), Arguments[c].threshold)
        /\ client' = [client EXCEPT ![c] = r]
    BY <1>2 DEF BuildMultisig, SharesOf
  <2>2. r \in ClientStates /\ r.pc = "built" /\ r.shares = SharesOf(c)
        /\ r.told = client[c].told
    BY DEF CInv, ClientStates, Steps
  <2>3. client'[c] = r
    BY <2>1, <2>2 DEF CInv
  <2>4. KindAt(c)'
    BY <2>1, <2>2, <2>3 DEF KindAt, At, Runs, BuildMultisig, SharesOf
  <2> HIDE DEF r
  <2> QED
    BY <2>1, <2>2, <2>4, Before DEF BuildMultisig, At
<1> QED
  BY <1>1, <1>2

LEMMA ReadIndexPreserves ==
  ASSUME CInv, NEW c \in Commands, ReadIndex(c)
  PROVE  CInv'
<1>1. CASE multisig = NoAccount
  BY <1>1, GivesUp DEF ReadIndex, At
<1>2. ASSUME multisig # NoAccount, NEW clock \in 0..MaxTime,
             client' = [client EXCEPT ![c].pc = "built",
                          ![c].index = multisig.transaction_index + 1,
                          ![c].deadline = clock + VotingPeriod]
      PROVE  CInv'
  <2> DEFINE r == [client[c] EXCEPT !.pc = "built", !.index = multisig.transaction_index + 1,
                                    !.deadline = clock + VotingPeriod]
  <2>1. client' = [client EXCEPT ![c] = r]
    BY <1>2
  <2>2. multisig.transaction_index + 1 \in 0..MaxIndex + 1
    BY <1>2, BoundsAssumption DEF CInv, IInv, TypeOK, Multisigs
  <2>3. clock + VotingPeriod \in Deadlines /\ clock + VotingPeriod \in Int
    BY ArgumentsAssumption, BoundsAssumption
  <2>4. r \in ClientStates /\ r.pc = "built" /\ r.deadline \in Deadlines
        /\ r.told = client[c].told
    BY <2>2, <2>3 DEF CInv, ClientStates, Steps
  <2>5. client'[c] = r
    BY <2>1 DEF CInv
  <2>6. KindAt(c)'
    BY <2>4, <2>5 DEF KindAt, At, Runs, ReadIndex
  <2> HIDE DEF r
  <2> QED
    BY <2>1, <2>4, <2>6, Before DEF ReadIndex, At
<1> QED
  BY <1>1, <1>2 DEF ReadIndex

(* approve_proposal and execute_proposal take the index they are called with. *)
LEMMA TakesIndex ==
  ASSUME CInv, UNCHANGED <<vars, treasury>>, NEW c \in Commands,
         NEW pc \in {"read", "built"}, ~At(c, "done"),
         NEW content \in {NoAccount} \cup Messages \cup Hashes,
         Runs(c, "approve_proposal") \/ Runs(c, "execute_proposal"),
         client' = [client EXCEPT ![c] = [client[c] EXCEPT !.pc = pc,
                      !.index = Arguments[c].index, !.content = content]]
  PROVE  CInv'
<1> DEFINE r == [client[c] EXCEPT !.pc = pc, !.index = Arguments[c].index,
                                  !.content = content]
<1>1. Arguments[c].index \in 0..MaxIndex + 1
  BY ArgumentsAssumption, BoundsAssumption DEF Indices
<1>2. client' = [client EXCEPT ![c] = r]
  OBVIOUS
<1>3. r \in ClientStates /\ r.pc = pc /\ r.index = Arguments[c].index
      /\ r.told = client[c].told
  BY <1>1 DEF CInv, ClientStates, Steps
<1>4. client'[c] = r
  BY <1>2 DEF CInv
<1>5. KindAt(c)'
  BY <1>3, <1>4 DEF KindAt, At, Runs
<1> HIDE DEF r
<1> QED
  BY <1>2, <1>3, <1>5, Before

LEMMA ReadProposalPreserves ==
  ASSUME CInv, NEW c \in Commands, ReadProposal(c)
  PROVE  CInv'
<1>1. UNCHANGED <<vars, treasury>> /\ Runs(c, "approve_proposal") /\ ~At(c, "done")
  BY DEF ReadProposal, At
<1>2. \/ Goes(c, "thrown") \/ Goes(c, "skipped")
      \/ client' = [client EXCEPT ![c].pc = "built", ![c].index = Arguments[c].index]
  BY DEF ReadProposal
<1> DEFINE content == client[c].content
<1>3. ASSUME client' = [client EXCEPT ![c].pc = "built", ![c].index = Arguments[c].index]
      PROVE  /\ content \in {NoAccount} \cup Messages \cup Hashes
             /\ client' = [client EXCEPT ![c] = [client[c] EXCEPT !.pc = "built",
                             !.index = Arguments[c].index, !.content = content]]
  <2>1. client[c] \in ClientStates
    BY DEF CInv
  <2> QED
    BY <1>3, <2>1 DEF ClientStates
<1>4. CASE Goes(c, "thrown") \/ Goes(c, "skipped")
  BY <1>1, <1>4, GivesUp
<1>5. CASE client' = [client EXCEPT ![c].pc = "built", ![c].index = Arguments[c].index]
  <2> HIDE DEF content
  <2> QED
    BY <1>1, <1>3, <1>5, TakesIndex
<1> QED
  BY <1>2, <1>4, <1>5

LEMMA ReadTransactionPreserves ==
  ASSUME CInv, NEW c \in Commands, ReadTransaction(c)
  PROVE  CInv'
<1>1. UNCHANGED <<vars, treasury>> /\ Runs(c, "execute_proposal") /\ ~At(c, "done")
  BY DEF ReadTransaction, At
<1> DEFINE content == transaction[Arguments[c].index].content
<1>2. CASE Goes(c, "thrown")
  BY <1>1, <1>2, GivesUp
<1>3. CASE ~Goes(c, "thrown")
  <2>1. /\ transaction[Arguments[c].index] # NoAccount
        /\ client' = [client EXCEPT ![c].pc = "read", ![c].index = Arguments[c].index,
                                    ![c].content = content]
    BY <1>3 DEF ReadTransaction
  <2>2. Arguments[c].index \in Indices
    BY <1>1, ArgumentsAssumption
  <2>3. content \in {NoAccount} \cup Messages \cup Hashes
    BY <2>1, <2>2 DEF CInv, IInv, TypeOK, Transactions
  <2> HIDE DEF content
  <2>4. client' = [client EXCEPT ![c] = [client[c] EXCEPT !.pc = "read",
                     !.index = Arguments[c].index, !.content = content]]
    BY <2>1
  <2> QED
    BY <1>1, <2>3, <2>4, TakesIndex
<1> QED
  BY <1>2, <1>3

(* A step that only moves on. *)
LEMMA GoesPreserves ==
  ASSUME CInv, UNCHANGED <<vars, treasury>>, NEW c \in Commands, NEW pc \in Steps, Goes(c, pc),
         pc # "done", ~At(c, "done"), Underway(c) \/ Runs(c, "public_deposit"),
         pc \in {"landed", "confirmed", "unanswered"} => Past(c)
  PROVE  CInv'
<1> DEFINE r == [client[c] EXCEPT !.pc = pc]
<1>1. client' = [client EXCEPT ![c] = r]
  BY DEF Goes
<1>2. /\ r \in ClientStates /\ r.pc = pc /\ r.index = client[c].index
      /\ r.shares = client[c].shares /\ r.deadline = client[c].deadline
      /\ r.told = client[c].told
  BY DEF CInv, ClientStates
<1>3. client'[c] = r
  BY <1>1 DEF CInv
<1>4. KindAt(c) /\ ToldAt(c)
  BY DEF CInv
<1> HIDE DEF r
<1>5. KindAt(c)'
  BY <1>2, <1>3, <1>4 DEF KindAt, At, Runs
<1>6. ToldAt(c)' /\ (Past(c)' => Past(c))
  BY <1>2, <1>3, <1>4 DEF ToldAt, At, Past
<1> QED
  BY <1>1, <1>2, <1>5, <1>6, Quiet

LEMMA MovesOnPreserves ==
  ASSUME CInv, NEW c \in Commands,
         ReadStatus(c) \/ BuildDeposit(c) \/ Throw(c) \/ Confirm(c)
  PROVE  CInv'
<1>1. CASE ReadStatus(c)
  BY <1>1, GoesPreserves DEF ReadStatus, Steps, Underway, At
<1>2. CASE BuildDeposit(c)
  BY <1>2, GoesPreserves DEF BuildDeposit, Steps, At
<1>3. CASE Throw(c)
  BY <1>3, GoesPreserves DEF Throw, Steps, Underway, At, Past
<1>4. CASE Confirm(c)
  BY <1>4, GoesPreserves DEF Confirm, Steps, Underway, At, Past
<1> QED
  BY <1>1, <1>2, <1>3, <1>4

LEMMA TellPreserves ==
  ASSUME CInv, NEW c \in Commands, Tell(c)
  PROVE  CInv'
<1> DEFINE i == client[c].index
           p == proposal[i]
           votes == Cardinality(Votes(p))
           told == CASE p.status = Approved -> "executable"
                     [] p.status = Executed -> "executed"
                     [] p.status = Active -> "waiting"
           remaining == IF p.status = Active THEN multisig.threshold - p.approvers_len ELSE 0
<1>1. /\ At(c, "confirmed") /\ Runs(c, "approve_proposal") /\ Past(c) /\ Underway(c)
      /\ UNCHANGED <<vars, treasury>>
  BY DEF Tell, Past, Underway, At
<1>2. KindAt(c) /\ LandedAt(c) /\ ToldAt(c)
  BY DEF CInv
<1>3. i \in Indices /\ multisig # NoAccount
  BY <1>1, <1>2, ArgumentsAssumption DEF KindAt, LandedAt
<1>4. UNCHANGED <<now, multisig, proposal, transaction, lamports, payouts>>
  BY <1>1 DEF vars
<1>5. CASE p = NoAccount
  <2> DEFINE r == [client[c] EXCEPT !.pc = "done"]
  <2>1. client' = [client EXCEPT ![c] = r]
    BY <1>5 DEF Tell, Goes
  <2>2. /\ r \in ClientStates /\ r.pc = "done" /\ r.index = i /\ r.told = client[c].told
        /\ client'[c] = r
    BY <2>1 DEF CInv, ClientStates, Steps
  <2> HIDE DEF r
  <2>3. KindAt(c)'
    BY <1>1, <1>2, <2>2 DEF KindAt, At, Runs
  <2>4. ToldAt(c)'
    BY <1>1, <1>2, <1>4, <1>5, <2>2 DEF ToldAt, At, Live
  <2> QED
    BY <1>1, <2>1, <2>2, <2>3, <2>4, Quiet
<1>6. CASE p # NoAccount
  <2> DEFINE r == [client[c] EXCEPT !.pc = "done", !.told = told, !.remaining = remaining]
  <2>1. client' = [client EXCEPT ![c] = r]
    BY <1>6 DEF Tell
  <2>2. p \in Proposals /\ p.status \in {Active, Approved, Executed} /\ p.approvers_len \in Nat
    BY <1>3, <1>6 DEF CInv, IInv, TypeOK, Proposals
  <2>3. multisig.threshold \in Nat
    BY <1>3, AccountTypes DEF CInv, IInv
  <2>4. /\ told \in {"executable", "executed", "waiting"}
        /\ told = "executable" => p.status = Approved
        /\ told = "executed" => p.status = Executed
        /\ told = "waiting" => p.status = Active
    BY <2>2 DEF Active, Approved, Executed
  <2>5. /\ remaining \in Int
        /\ told = "waiting" => remaining = multisig.threshold - p.approvers_len
    BY <2>2, <2>3, <2>4
  <2>6. /\ votes \in Nat /\ votes = p.approvers_len /\ votes # 0
        /\ p.status = Active => p.approvers_len = 0 \/ p.approvers_len < multisig.threshold
        /\ p.status # Active => votes >= multisig.threshold
    <3>1. IsFiniteSet(Votes(p)) /\ TallyAt(i) /\ QuorumAt(i)
      BY <1>3, <1>6 DEF CInv, IInv, IndexInv, Live
    <3>2. Votes(p) # {}
      BY <1>1, <1>2, <1>6 DEF LandedAt, Live
    <3> QED
      BY <1>6, <3>1, <3>2, FS_CardinalityType, FS_EmptySet DEF TallyAt, QuorumAt, Live
  <2> HIDE DEF told, remaining, votes
  <2>7. /\ r \in ClientStates /\ r.pc = "done" /\ r.index = i
        /\ r.told = told /\ r.remaining = remaining
    <3>1. client[c] \in ClientStates /\ "done" \in Steps /\ told \in Tellings
      BY <2>4 DEF CInv, Steps, Tellings
    <3> QED
      BY <2>5, <3>1 DEF ClientStates
  <2>8. client'[c] = r
    BY <2>1 DEF CInv
  <2> HIDE DEF r
  <2>9. KindAt(c)'
    BY <1>1, <1>2, <2>7, <2>8 DEF KindAt, At, Runs
  <2>10. /\ told = "waiting" => remaining >= 1 /\ votes + remaining >= multisig.threshold
         /\ told \in {"executable", "executed"} =>
              p.status # Active /\ votes >= multisig.threshold
    <3>1. ASSUME told = "waiting"
          PROVE  remaining >= 1 /\ votes + remaining >= multisig.threshold
      BY <2>2, <2>3, <2>4, <2>5, <2>6, <3>1
    <3>2. ASSUME told \in {"executable", "executed"}
          PROVE  p.status # Active /\ votes >= multisig.threshold
      BY <2>4, <2>6, <3>2 DEF Active, Approved, Executed
    <3> QED
      BY <3>1, <3>2
  <2>11. ToldAt(c)'
    <3>1. /\ proposal'[client'[c].index] = p /\ multisig' = multisig
          /\ Cardinality(Votes(proposal'[client'[c].index])) = votes
      BY <1>4, <2>7, <2>8 DEF votes
    <3>2. SUFFICES /\ told = "waiting" => remaining >= 1
                   /\ told \in {"executable", "executed"} =>
                        p.status # Active /\ votes >= multisig.threshold
                   /\ told = "executed" => p.status = Executed
                   /\ told = "waiting" => votes + remaining >= multisig.threshold
      BY <2>7, <2>8, <3>1 DEF ToldAt, At, Votes, Active, Executed
    <3> QED
      BY <2>4, <2>10
  <2> QED
    BY <1>1, <2>1, <2>7, <2>9, <2>11, Quiet
<1> QED
  BY <1>5, <1>6

(* A command that is about to land is what KindAt says. *)
LEMMA WhenSent ==
  ASSUME CInv, CommandsNext, NEW c \in Commands, Sent(c), Lands(c)
  PROVE  /\ KindAt(c) /\ Underway(c) /\ [Next]_vars /\ IInv /\ IInv'
         /\ client'[c].index = client[c].index
         /\ \A d \in Commands \ {c} : client'[d] = client[d]
  BY StepIsChainStep, NextIInv DEF Sent, Underway, CInv, Lands, Goes, ClientStates

LEMMA LandMultisigPreserves ==
  ASSUME CInv, CommandsNext, NEW c \in Commands, LandMultisig(c)
  PROVE  CInv'
<1>1. /\ Sent(c) /\ Lands(c) /\ Runs(c, "create_multisig")
  BY DEF LandMultisig
<1>2. /\ ~Runs(c, "create_transfer_proposal") /\ ~Runs(c, "approve_proposal")
      /\ ~Runs(c, "execute_proposal")
  BY <1>1 DEF Runs
<1>3. LandedAt(c)' /\ \A d \in Commands \ {c} : Apart(c, d)'
  BY <1>2 DEF LandedAt, Apart, Runs
<1>4. /\ CanSplit(Len(Arguments[c].members), Arguments[c].threshold)
      /\ client[c].shares = SharesOf(c)
  BY <1>1, WhenSent DEF KindAt
<1>5. /\ multisig'.members = Arguments[c].members
      /\ multisig'.threshold = Arguments[c].threshold
      /\ multisig'.shares = client[c].shares
      /\ treasury' = LittleEndian(PublicKeyOf[Arguments[c].secret])
  BY DEF LandMultisig, CreateMultisig
<1>6. Founder(c)'
  BY <1>1, <1>4, <1>5 DEF Founder, Runs, SharesOf
<1> QED
  BY <1>1, <1>3, <1>6, WhenSent, Landing DEF Founded

LEMMA LandProposalPreserves ==
  ASSUME CInv, CommandsNext, NEW c \in Commands, LandProposal(c)
  PROVE  CInv'
<1> DEFINE i == client[c].index
<1>1. /\ Sent(c) /\ Lands(c) /\ Runs(c, "create_transfer_proposal")
      /\ i \in Indices /\ multisig # NoAccount
      /\ OpenIndex(i, client[c].deadline, Public, Arguments[c].message)
      /\ treasury' = treasury
  BY DEF LandProposal, CreateProposal, IsMember
<1>2. multisig.transaction_index \in Nat /\ i = multisig.transaction_index + 1
  BY <1>1 DEF OpenIndex, CInv, IInv, TypeOK, Multisigs
<1>3. /\ multisig' # NoAccount /\ multisig'.transaction_index = i
      /\ transaction'[i].content = Arguments[c].message
  <2>1. /\ multisig' = [multisig EXCEPT !.transaction_index = i]
        /\ transaction' = [transaction EXCEPT
                             ![i] = NewTransaction(i, Arguments[c].message)]
    BY <1>1 DEF OpenIndex
  <2>2. multisig' # NoAccount
    BY <1>1, <2>1, NextIndexTypes DEF CInv
  <2> QED
    BY <1>1, <2>1, <2>2 DEF NewTransaction, CInv, IInv, TypeOK, Multisigs
<1>4. client'[c].index = i
  BY <1>1, WhenSent
<1>5. /\ ~Runs(c, "approve_proposal") /\ ~Runs(c, "execute_proposal")
  BY <1>1 DEF Runs
<1>6. LandedAt(c)'
  BY <1>1, <1>2, <1>3, <1>4, <1>5 DEF LandedAt, Runs
<1>7. ASSUME NEW d \in Commands \ {c}
      PROVE  Apart(c, d)'
  <2>1. SUFFICES ASSUME Past(d), Runs(d, "create_transfer_proposal")
                 PROVE  client[d].index # i
    BY <1>1, <1>4, <1>5, WhenSent DEF Apart, Past, Runs
  <2>2. client[d].index \in Indices /\ client[d].index <= multisig.transaction_index
    BY <2>1 DEF CInv, LandedAt
  <2> QED
    BY <1>2, <2>2 DEF Indices
<1>8. Founded'
  BY <1>1, WhenSent, FoundedFrame
<1> QED
  BY <1>1, <1>6, <1>7, <1>8, WhenSent, Landing

LEMMA LandApprovalPreserves ==
  ASSUME CInv, CommandsNext, NEW c \in Commands, LandApproval(c)
  PROVE  CInv'
<1> DEFINE i == client[c].index
           key == Arguments[c].signer
<1>1. /\ Sent(c) /\ Lands(c) /\ Runs(c, "approve_proposal") /\ Approve(key, i)
      /\ treasury' = treasury
  BY DEF LandApproval
<1>2. key \in Keys /\ i \in Indices
  BY <1>1, WhenSent, ArgumentsAssumption DEF KindAt
<1>3. multisig' = multisig /\ multisig # NoAccount /\ i = multisig.transaction_index
  BY <1>1 DEF Approve, IsMember
<1>4. Votes(proposal'[i]) = Votes(proposal[i]) \cup {key}
  BY <1>1, <1>2, ApproveEffect DEF CInv
<1>5. client'[c].index = i
  BY <1>1, WhenSent
<1>6. ~Runs(c, "create_transfer_proposal") /\ ~Runs(c, "execute_proposal")
  BY <1>1 DEF Runs
<1>7. LandedAt(c)'
  <2>1. i <= i
    BY <1>2 DEF Indices
  <2> QED
    BY <1>1, <1>3, <1>4, <1>5, <1>6, <2>1 DEF LandedAt, Runs, Votes
<1>8. \A d \in Commands \ {c} : Apart(c, d)'
  BY <1>6 DEF Apart, Runs
<1>9. Founded'
  BY <1>1, <1>3, WhenSent, FoundedFrame
<1> QED
  BY <1>1, <1>7, <1>8, <1>9, WhenSent, Landing

LEMMA LandExecutionPreserves ==
  ASSUME CInv, CommandsNext, NEW c \in Commands, LandExecution(c)
  PROVE  CInv'
<1> DEFINE i == client[c].index
<1>1. /\ Sent(c) /\ Lands(c) /\ Runs(c, "execute_proposal")
      /\ payouts' = [payouts EXCEPT ![i] = @ + 1]
      /\ multisig' = multisig /\ treasury' = treasury
  BY DEF LandExecution, ExecutePublic
<1>2. i \in Indices
  BY <1>1, WhenSent, ArgumentsAssumption DEF KindAt
<1>3. payouts[i] = 0 /\ payouts'[i] = 1
  <2>1. payouts \in [Indices -> Nat]
    BY DEF CInv, IInv, TypeOK
  <2>2. payouts'[i] <= 1
    BY <1>1, <1>2, WhenSent DEF IInv, IndexInv, PaidOnceAt
  <2> HIDE DEF i
  <2> QED
    BY <1>1, <1>2, <2>1, <2>2
<1>4. client'[c].index = i
  BY <1>1, WhenSent
<1>5. ~Runs(c, "create_transfer_proposal") /\ ~Runs(c, "approve_proposal")
  BY <1>1 DEF Runs
<1>6. LandedAt(c)'
  BY <1>1, <1>3, <1>4, <1>5 DEF LandedAt, Runs
<1>7. ASSUME NEW d \in Commands \ {c}
      PROVE  Apart(c, d)'
  <2>1. SUFFICES ASSUME Past(d), Runs(d, "execute_proposal")
                 PROVE  client[d].index # i
    BY <1>1, <1>4, <1>5, WhenSent DEF Apart, Past, Runs
  <2>2. payouts[client[d].index] = 1
    BY <2>1 DEF CInv, LandedAt
  <2> QED
    BY <1>3, <2>2
<1>8. Founded'
  BY <1>1, WhenSent, FoundedFrame
<1> QED
  BY <1>1, <1>6, <1>7, <1>8, WhenSent, Landing

LEMMA LandDepositPreserves ==
  ASSUME CInv, CommandsNext, NEW c \in Commands, LandDeposit(c)
  PROVE  CInv'
<1>1. /\ Sent(c) /\ Lands(c) /\ Runs(c, "public_deposit")
      /\ multisig' = multisig /\ treasury' = treasury
  BY DEF LandDeposit, Deposit
<1>2. /\ ~Runs(c, "create_transfer_proposal") /\ ~Runs(c, "approve_proposal")
      /\ ~Runs(c, "execute_proposal")
  BY <1>1 DEF Runs
<1>3. LandedAt(c)' /\ \A d \in Commands \ {c} : Apart(c, d)'
  BY <1>2 DEF LandedAt, Apart, Runs
<1>4. Founded'
  BY <1>1, WhenSent, FoundedFrame
<1> QED
  BY <1>1, <1>3, <1>4, WhenSent, Landing

(* Accounts are closed or time passes, and no command moves. *)
LEMMA ChainStepPreserves ==
  ASSUME CInv, CommandsNext, ChainStep
  PROVE  CInv'
<1>1. client' = client /\ treasury' = treasury /\ multisig' = multisig
  BY DEF ChainStep, commandVars, Close, Tick
<1>2. [Next]_vars
  BY StepIsChainStep
<1>3. IInv'
  BY <1>2, NextIInv DEF CInv
<1>4. \A c \in Commands : KindAt(c)' /\ LandedAt(c)' /\ ToldAt(c)'
  BY <1>1, <1>2, <1>3, ClientFrame
<1>5. \A c, d \in Commands : Apart(c, d)'
  BY <1>1 DEF CInv, Apart, Past
<1>6. Founded'
  BY <1>1, <1>2, <1>3, FoundedFrame
<1> QED
  BY <1>1, <1>3, <1>4, <1>5, <1>6 DEF CInv

------------------------------------------------------------------------------
(* Theorems. *)

LEMMA InitCInv ==
  ASSUME NEW w, CommandsInit(w)
  PROVE  CInv
<1>1. Init /\ multisig = NoAccount
  BY DEF CommandsInit, Init
<1>2. IInv /\ Founded
  BY <1>1, InitIInv DEF Founded
<1>3. ASSUME NEW c \in Commands
      PROVE  /\ client[c].pc \in {"start", "unused"} /\ client[c].told = "nothing"
             /\ client[c] \in ClientStates
  BY BoundsAssumption DEF CommandsInit, ClientStates, Steps, Tellings
<1>4. client \in [Commands -> ClientStates]
  BY <1>3 DEF CommandsInit
<1>5. ASSUME NEW c \in Commands
      PROVE  ~Past(c) /\ ~Underway(c) /\ ~At(c, "done")
  BY <1>3 DEF Past, Underway, At
<1>6. \A c \in Commands : KindAt(c) /\ LandedAt(c) /\ ToldAt(c)
  BY <1>3, <1>5 DEF KindAt, LandedAt, ToldAt
<1>7. \A c, d \in Commands : Apart(c, d)
  BY <1>5 DEF Apart
<1> QED
  BY <1>2, <1>4, <1>6, <1>7 DEF CInv

LEMMA NextCInv == CInv /\ [CommandsNext]_<<vars, commandVars>> => CInv'
<1> SUFFICES ASSUME CInv, [CommandsNext]_<<vars, commandVars>> PROVE CInv'
  OBVIOUS
<1>1. CASE ChainStep /\ CommandsNext
  BY <1>1, ChainStepPreserves
<1>2. ASSUME NEW c \in Commands, CommandsNext,
             \/ BuildMultisig(c) \/ ReadIndex(c) \/ ReadProposal(c)
             \/ ReadTransaction(c) \/ ReadStatus(c) \/ BuildDeposit(c)
             \/ LandMultisig(c) \/ LandProposal(c) \/ LandApproval(c)
             \/ LandExecution(c) \/ LandDeposit(c)
             \/ Throw(c) \/ Confirm(c) \/ Tell(c)
      PROVE  CInv'
  BY <1>2, BuildMultisigPreserves, ReadIndexPreserves, ReadProposalPreserves,
     ReadTransactionPreserves, MovesOnPreserves, LandMultisigPreserves,
     LandProposalPreserves, LandApprovalPreserves, LandExecutionPreserves,
     LandDepositPreserves, TellPreserves
<1>3. CASE UNCHANGED <<vars, commandVars>>
  <2>1. /\ UNCHANGED <<now, multisig, proposal, transaction, lamports, payouts>>
        /\ client' = client /\ treasury' = treasury
    BY <1>3 DEF vars, commandVars
  <2>2. IInv'
    BY <1>3, NextIInv DEF CInv
  <2>3. \A c \in Commands : KindAt(c)' /\ LandedAt(c)' /\ ToldAt(c)'
    BY <1>3, <2>1, <2>2, ClientFrame
  <2>4. \A c, d \in Commands : Apart(c, d)'
    BY <2>1 DEF CInv, Apart, Past
  <2>5. Founded'
    BY <1>3, <2>1, <2>2, FoundedFrame
  <2> QED
    BY <2>1, <2>2, <2>3, <2>4, <2>5 DEF CInv
<1> QED
  BY <1>1, <1>2, <1>3 DEF CommandsNext

(* The inductive invariant of the members' commands. *)
THEOREM CommandsInvariance == CommandsSpec => []CInv
<1>1. (\E w \in Workloads : CommandsInit(w)) => CInv
  BY InitCInv
<1> QED
  BY <1>1, NextCInv, PTL DEF CommandsSpec

(* Whatever commands ran, in whatever order: the members that can reconstruct the
   treasury's private key are the sets of at least threshold members. *)
THEOREM KeyByThreshold == CommandsSpec => []TreasuryByThreshold
<1>1. ASSUME CInv PROVE TreasuryByThreshold
  <2>1. SUFFICES ASSUME multisig # NoAccount, NEW S \in SUBSET MemberSet
                 PROVE  LET key == Reconstruct(multisig.shares, S) IN
                        IF Cardinality(S) >= multisig.threshold
                          THEN /\ key \in Secrets
                               /\ PublicKeyOf[key] = FromLittleEndian(treasury)
                          ELSE key = NoKey
    BY DEF TreasuryByThreshold
  <2>2. PICK c \in Commands : Founder(c)
    BY <1>1, <2>1 DEF CInv, Founded
  <2> DEFINE secret == Arguments[c].secret
             members == Arguments[c].members
             threshold == Arguments[c].threshold
  <2>3. secret \in Secrets /\ members \in Seq(Keys)
    BY <2>2, ArgumentsAssumption, KeysAssumption DEF Founder
  <2>4. /\ CanSplit(Len(members), threshold)
        /\ multisig.members = members /\ multisig.threshold = threshold
        /\ multisig.shares = SharesOfKey(secret, members, threshold)
        /\ treasury = LittleEndian(PublicKeyOf[secret])
    BY <2>2 DEF Founder, SharesOf
  <2>5. S \in SUBSET MembersOf(members)
    BY <2>4 DEF MemberSet, MembersOf
  <2> HIDE DEF secret, members, threshold
  <2>6. Reconstruct(multisig.shares, S) =
          IF Cardinality(S) >= multisig.threshold THEN secret ELSE NoKey
    BY <2>3, <2>4, <2>5, ThresholdReconstructs
  <2>7. FromLittleEndian(treasury) = PublicKeyOf[secret]
    BY <2>3, <2>4, PublicKeyRoundTrip
  <2> QED
    BY <2>3, <2>6, <2>7
<1> QED
  BY <1>1, CommandsInvariance, PTL

(* A vote that was confirmed to a member stays in the proposal, and confirmed
   votes of threshold members have approved it. *)
THEOREM VotesCount == CommandsSpec => []ConfirmedVotesCount
<1>1. ASSUME CInv PROVE ConfirmedVotesCount
  <2> SUFFICES ASSUME NEW i \in Indices, Live(i)
               PROVE  LET voters == { Arguments[c].signer : c \in
                            { d \in Commands : Confirmed(d, "approve_proposal")
                                               /\ client[d].index = i } }
                      IN  /\ voters \subseteq Votes(proposal[i])
                          /\ voters # {} /\ Cardinality(voters) >= multisig.threshold
                               => proposal[i].status # Active
    BY DEF ConfirmedVotesCount
  <2> DEFINE voters == { Arguments[c].signer : c \in
                 { d \in Commands : Confirmed(d, "approve_proposal")
                                    /\ client[d].index = i } }
             votes == Votes(proposal[i])
  <2>1. voters \subseteq votes
    BY <1>1 DEF CInv, LandedAt, Past, Confirmed
  <2>2. IsFiniteSet(votes) /\ TallyAt(i) /\ multisig # NoAccount
    BY <1>1 DEF CInv, IInv, IndexInv, PairedAt
  <2>3. multisig.threshold \in Nat
    BY <1>1, <2>2, AccountTypes DEF CInv, IInv
  <2>4. /\ Cardinality(votes) = proposal[i].approvers_len
        /\ proposal[i].status = Active =>
             proposal[i].approvers_len = 0 \/ proposal[i].approvers_len < multisig.threshold
    BY <2>2 DEF TallyAt
  <2> HIDE DEF voters, votes
  <2>5. /\ Cardinality(voters) <= Cardinality(votes)
        /\ Cardinality(voters) \in Nat /\ Cardinality(votes) \in Nat
        /\ voters # {} => Cardinality(voters) # 0
    BY <2>1, <2>2, FS_Subset, FS_CardinalityType, FS_EmptySet
  <2>6. voters # {} /\ Cardinality(voters) >= multisig.threshold
          => proposal[i].status # Active
    BY <2>3, <2>4, <2>5
  <2> QED
    BY <2>1, <2>6 DEF voters, votes
<1> QED
  BY <1>1, CommandsInvariance, PTL

(* The number a confirmed proposal was created under is its own. *)
THEOREM ProposalStands == CommandsSpec => []ConfirmedProposalStands
<1>1. ASSUME CInv PROVE ConfirmedProposalStands
  <2>1. ASSUME NEW c \in Commands, Confirmed(c, "create_transfer_proposal")
        PROVE  Past(c) /\ Runs(c, "create_transfer_proposal")
    BY <2>1 DEF Confirmed, Past
  <2> QED
    BY <1>1, <2>1 DEF CInv, LandedAt, Apart, ConfirmedProposalStands
<1> QED
  BY <1>1, CommandsInvariance, PTL

(* A confirmed execution has paid, once, and is nobody else's. *)
THEOREM ExecutionPaid == CommandsSpec => []ConfirmedExecutionPaid
<1>1. ASSUME CInv PROVE ConfirmedExecutionPaid
  <2>1. ASSUME NEW c \in Commands, Confirmed(c, "execute_proposal")
        PROVE  /\ Past(c) /\ Runs(c, "execute_proposal")
               /\ client[c].index \in Indices
               /\ payouts[client[c].index] = 1
    <3>1. Past(c) /\ Underway(c) /\ Runs(c, "execute_proposal")
      BY <2>1 DEF Confirmed, Past, Underway
    <3>2. client[c].index \in Indices
      BY <1>1, <3>1, ArgumentsAssumption DEF CInv, KindAt
    <3> QED
      BY <1>1, <3>1, <3>2 DEF CInv, LandedAt
  <2>2. ASSUME NEW i \in Indices, payouts[i] = 1, Live(i)
        PROVE  proposal[i].status = Executed
    BY <1>1, <2>2 DEF CInv, IInv, IndexInv, PaidOnceAt
  <2> QED
    BY <1>1, <2>1, <2>2 DEF CInv, Apart, ConfirmedExecutionPaid
<1> QED
  BY <1>1, CommandsInvariance, PTL


------------------------------------------------------------------------------
(* Type correctness. *)

(* The index a command is about is one of the chain, or the next. *)
IndexAt(c) ==
  client[c].index > 0 =>
    multisig # NoAccount /\ client[c].index <= multisig.transaction_index + 1

TInv ==
  /\ CInv
  /\ \A c \in Commands : IndexAt(c)
  /\ multisig = NoAccount <=> treasury = <<>>

LEMMA IndexStays ==
  ASSUME TInv, CommandsNext, NEW c \in Commands, client'[c].index = client[c].index
  PROVE  IndexAt(c)'
<1>1. [Next]_vars /\ IInv' /\ CInv /\ IndexAt(c)
  BY StepIsChainStep, NextIInv DEF TInv, CInv
<1>2. client[c].index \in Int
  BY <1>1, BoundsAssumption DEF CInv, ClientStates
<1> QED
  BY <1>1, <1>2, ChainFrame DEF IndexAt

LEMMA KeyWithAccount ==
  ASSUME TInv, CommandsNext
  PROVE  (multisig = NoAccount <=> treasury = <<>>)'
<1>1. [Next]_vars /\ IInv' /\ CInv
  BY StepIsChainStep, NextIInv DEF TInv, CInv
<1>2. CASE \E c \in Commands : LandMultisig(c)
  <2>1. PICK c \in Commands : LandMultisig(c)
    BY <1>2
  <2>2. CreateMultisig(Arguments[c].threshold, Arguments[c].signer, Arguments[c].members,
                       client[c].shares)
    BY <2>1 DEF LandMultisig
  <2>3. /\ Arguments[c].signer \in RentCollectors /\ Arguments[c].members \in MemberLists
        /\ Arguments[c].threshold \in Thresholds /\ client[c].shares \in ShareLists
    BY <2>1, ArgumentsAssumption DEF LandMultisig
  <2>4. multisig' \in Multisigs
    BY <2>2, <2>3, BoundsAssumption DEF CreateMultisig, Multisigs
  <2>5. multisig' # NoAccount
    BY <2>4, KeysAssumption
  <2>6. treasury' # <<>>
    BY <2>1 DEF LandMultisig, LittleEndian
  <2> QED
    BY <2>5, <2>6
<1>3. CASE ~\E c \in Commands : LandMultisig(c)
  <2>1. treasury' = treasury
    BY <1>3
    DEF CommandsNext, ChainStep, commandVars, BuildMultisig, ReadIndex, ReadProposal,
        ReadTransaction, ReadStatus, BuildDeposit, LandProposal, LandApproval, LandExecution,
        LandDeposit, Throw, Confirm, Tell
  <2>2. CASE multisig # NoAccount
    BY <1>1, <2>1, <2>2, ChainFrame DEF TInv
  <2>3. CASE multisig = NoAccount
    <3>1. multisig' = multisig
      BY <1>3, <2>3
      DEF CommandsNext, ChainStep, BuildMultisig, ReadIndex, ReadProposal, ReadTransaction,
          ReadStatus, BuildDeposit, LandProposal, LandApproval, LandExecution, LandDeposit,
          Throw, Confirm, Tell, vars, CreateProposal, IsMember, Approve, ExecutePublic,
          Deposit, Close, Tick
    <3> QED
      BY <2>1, <3>1 DEF TInv
  <2> QED
    BY <2>2, <2>3
<1> QED
  BY <1>2, <1>3

(* An account that was read has an index of the chain. *)
LEMMA LiveIndex ==
  ASSUME TInv, NEW i \in Indices, proposal[i] # NoAccount \/ transaction[i] # NoAccount
  PROVE  multisig # NoAccount /\ i <= multisig.transaction_index + 1
<1>1. multisig # NoAccount /\ i <= multisig.transaction_index
  BY DEF TInv, CInv, IInv, IndexInv, PairedAt, Live
<1>2. multisig.transaction_index \in Nat
  BY <1>1 DEF TInv, CInv, IInv, TypeOK, Multisigs
<1> QED
  BY <1>1, <1>2 DEF Indices

LEMMA IndexPreserved ==
  ASSUME TInv, CommandsNext, NEW c \in Commands,
         \/ BuildMultisig(c) \/ ReadIndex(c) \/ ReadProposal(c)
         \/ ReadTransaction(c) \/ ReadStatus(c) \/ BuildDeposit(c)
         \/ LandMultisig(c) \/ LandProposal(c) \/ LandApproval(c)
         \/ LandExecution(c) \/ LandDeposit(c)
         \/ Throw(c) \/ Confirm(c) \/ Tell(c)
  PROVE  \A d \in Commands : IndexAt(d)'
<1> USE DEF Goes, Lands
<1>1. client \in [Commands -> ClientStates]
  BY DEF TInv, CInv
<1>2. \A d \in Commands \ {c} : client'[d] = client[d]
  BY <1>1 DEF BuildMultisig, ReadIndex, ReadProposal, ReadTransaction, ReadStatus, BuildDeposit,
              LandMultisig, LandProposal, LandApproval, LandExecution, LandDeposit, Throw,
              Confirm, Tell
<1>3. CASE client'[c].index = client[c].index
  BY <1>2, <1>3, IndexStays
<1>4. CASE client'[c].index # client[c].index
  <2>1. ReadIndex(c) \/ ReadProposal(c) \/ ReadTransaction(c)
    BY <1>1, <1>4
    DEF BuildMultisig, ReadStatus, BuildDeposit, LandMultisig, LandProposal, LandApproval,
        LandExecution, LandDeposit, Throw, Confirm, Tell, ClientStates
  <2>2. multisig' = multisig
    BY <2>1 DEF ReadIndex, ReadProposal, ReadTransaction, vars
  <2>3. CASE ReadIndex(c)
    <3>1. multisig # NoAccount /\ client'[c].index = multisig.transaction_index + 1
      BY <1>1, <1>4, <2>3 DEF ReadIndex, ClientStates
    <3>2. multisig.transaction_index \in Nat
      BY <3>1 DEF TInv, CInv, IInv, TypeOK, Multisigs
    <3>3. IndexAt(c)'
      BY <2>2, <3>1, <3>2 DEF IndexAt
    <3> QED
      BY <1>2, <3>3, IndexStays
  <2>4. CASE ReadProposal(c) \/ ReadTransaction(c)
    <3>1. /\ client'[c].index = Arguments[c].index /\ Arguments[c].index \in Indices
          /\ \/ proposal[Arguments[c].index] # NoAccount
             \/ transaction[Arguments[c].index] # NoAccount
      <4>1. Arguments[c].index \in Indices
        BY <2>4, ArgumentsAssumption DEF ReadProposal, ReadTransaction
      <4>2. CASE ReadProposal(c)
        BY <1>1, <1>4, <4>1, <4>2 DEF ReadProposal, ClientStates
      <4>3. CASE ReadTransaction(c)
        BY <1>1, <1>4, <4>1, <4>3 DEF ReadTransaction, ClientStates
      <4> QED
        BY <2>4, <4>1, <4>2, <4>3
    <3>2. IndexAt(c)'
      BY <2>2, <3>1, LiveIndex DEF IndexAt
    <3> QED
      BY <1>2, <3>2, IndexStays
  <2> QED
    BY <2>1, <2>3, <2>4
<1> QED
  BY <1>3, <1>4

LEMMA NextTInv == TInv /\ [CommandsNext]_<<vars, commandVars>> => TInv'
<1> SUFFICES ASSUME TInv, [CommandsNext]_<<vars, commandVars>> PROVE TInv'
  OBVIOUS
<1>1. CInv'
  BY NextCInv DEF TInv
<1>2. CASE CommandsNext
  <2>1. CASE ChainStep
    BY <1>2, <2>1, IndexStays, <1>1, KeyWithAccount DEF ChainStep, commandVars, TInv
  <2>2. CASE ~ChainStep
    BY <1>1, <1>2, <2>2, IndexPreserved, KeyWithAccount DEF TInv, CommandsNext
  <2> QED
    BY <2>1, <2>2
<1>3. CASE UNCHANGED <<vars, commandVars>>
  BY <1>1, <1>3 DEF TInv, IndexAt, vars, commandVars
<1> QED
  BY <1>2, <1>3

(* What a command keeps about the chain was there when it read it. *)
THEOREM CommandsTyped == CommandsSpec => []CommandsTypeOK
<1>1. (\E w \in Workloads : CommandsInit(w)) => TInv
  <2>1. SUFFICES ASSUME NEW w \in Workloads, CommandsInit(w) PROVE TInv
    OBVIOUS
  <2>2. CInv
    BY <2>1, InitCInv
  <2> QED
    BY <2>1, <2>2 DEF CommandsInit, Init, TInv, IndexAt
<1>2. TInv => CommandsTypeOK
  BY DEF TInv, CInv, ClientStates, IndexAt, CommandsTypeOK
<1> QED
  BY <1>1, <1>2, NextTInv, PTL DEF CommandsSpec


------------------------------------------------------------------------------
(* What is told, and what is paid.  Nobody closes a proposal that was approved      *)
(* before it is paid, and here only the commands vote and execute: behind every    *)
(* vote there is a member's own command, behind every message the command that     *)
(* proposed it.                                                                   *)

(* A proposal of these commands is executed by paying. *)
PaidAt(i) == Live(i) /\ proposal[i].status = Executed => payouts[i] = 1

(* Members have voted by their own commands, and proposed what is to be paid. *)
ProposedAt(i) ==
  Live(i) =>
    /\ Votes(proposal[i]) \subseteq Supporters(i)
    /\ \E c \in Commands :
         /\ Runs(c, "create_transfer_proposal") /\ Past(c) /\ client[c].index = i
         /\ transaction[i].content = Arguments[c].message

(* An execution passes the accounts of the message that is there. *)
ReadAt(c) ==
  Underway(c) /\ Runs(c, "execute_proposal") =>
    /\ multisig # NoAccount /\ client[c].index <= multisig.transaction_index
    /\ Live(client[c].index) => client[c].content = transaction[client[c].index].content

(* What was told executable is there until it is paid. *)
OpenAt(c) ==
  At(c, "done") =>
    /\ client[c].told \in {"executable", "executed"} =>
         payouts[client[c].index] = 1 \/ Live(client[c].index)
    /\ client[c].told = "executed" => payouts[client[c].index] = 1

PInv ==
  /\ CInv
  /\ \A i \in Indices : PaidAt(i) /\ ProposedAt(i)
  /\ \A c \in Commands : ReadAt(c) /\ OpenAt(c)

(* The instructions that the commands and ChainStep send. *)
LEMMA CommandSteps ==
  ASSUME CInv, CommandsNext
  PROVE  \/ UNCHANGED vars
         \/ \E c \in Commands : \/ LandMultisig(c) \/ LandProposal(c) \/ LandApproval(c)
                                \/ LandExecution(c) \/ LandDeposit(c)
         \/ ChainStep
  BY DEF CommandsNext, BuildMultisig, ReadIndex, ReadProposal, ReadTransaction, ReadStatus,
         BuildDeposit, Throw, Confirm, Tell

(* The parameters of an instruction that a command sends. *)
LEMMA SentParameters ==
  ASSUME CInv, CommandsNext, NEW c \in Commands, Sent(c), Lands(c),
         Runs(c, "approve_proposal") \/ Runs(c, "execute_proposal")
  PROVE  Arguments[c].signer \in Keys /\ client[c].index \in Indices
  BY WhenSent, ArgumentsAssumption DEF KindAt

(* No step takes a command back. *)
LEMMA PastStays ==
  ASSUME CInv, CommandsNext, NEW c \in Commands, Past(c)
  PROVE  Past(c)' /\ client'[c].index = client[c].index
<1> USE DEF Goes, Lands
<1>1. client \in [Commands -> ClientStates]
  BY DEF CInv
<1>2. ASSUME NEW d \in Commands,
             \/ BuildMultisig(d) \/ ReadIndex(d) \/ ReadProposal(d)
             \/ ReadTransaction(d) \/ ReadStatus(d) \/ BuildDeposit(d)
      PROVE  d # c /\ client'[c] = client[c]
  BY <1>1, <1>2 DEF BuildMultisig, ReadIndex, ReadProposal, ReadTransaction, ReadStatus,
                    BuildDeposit, Past, At
<1>3. ASSUME NEW d \in Commands,
             \/ LandMultisig(d) \/ LandProposal(d) \/ LandApproval(d)
             \/ LandExecution(d) \/ LandDeposit(d)
      PROVE  d # c /\ client'[c] = client[c]
  BY <1>1, <1>3 DEF LandMultisig, LandProposal, LandApproval, LandExecution, LandDeposit,
                    Sent, Past
<1>4. ASSUME NEW d \in Commands, Throw(d) \/ Confirm(d) \/ Tell(d)
      PROVE  Past(c)' /\ client'[c].index = client[c].index
  <2>1. CASE d # c
    BY <1>1, <1>4, <2>1 DEF Throw, Confirm, Tell, Past
  <2>2. CASE d = c
    BY <1>1, <1>4, <2>2 DEF Throw, Confirm, Tell, Past, At, ClientStates
  <2> QED
    BY <2>1, <2>2
<1>5. CASE ChainStep
  BY <1>5 DEF ChainStep, commandVars, Past
<1> QED
  BY <1>2, <1>3, <1>4, <1>5 DEF CommandsNext, Past

(* Supporters are not lost. *)
LEMMA SupportersStay ==
  ASSUME CInv, CommandsNext, NEW i \in Indices
  PROVE  Supporters(i) \subseteq Supporters(i)'
<1>1. ASSUME NEW d \in Commands, Runs(d, "approve_proposal"), client[d].index = i, Past(d)
      PROVE  client'[d].index = i /\ Past(d)'
  BY <1>1, PastStays
<1> QED
  BY <1>1 DEF Supporters, Past, Runs

(* The proposal of an index whose accounts stay is still backed. *)
LEMMA ProposedFrame ==
  ASSUME PInv, CommandsNext, NEW i \in Indices, Live(i)', Kept(i),
         Votes(proposal'[i]) \subseteq Votes(proposal[i]) \cup Supporters(i)'
  PROVE  ProposedAt(i)'
<1>1. CInv /\ ProposedAt(i) /\ Live(i)
  BY DEF PInv, Kept
<1>2. Votes(proposal'[i]) \subseteq Supporters(i)'
  BY <1>1, SupportersStay DEF ProposedAt
<1>3. PICK c \in Commands :
        /\ Runs(c, "create_transfer_proposal") /\ Past(c) /\ client[c].index = i
        /\ transaction[i].content = Arguments[c].message
  BY <1>1 DEF ProposedAt
<1>4. Past(c)' /\ client'[c].index = i
  BY <1>1, <1>3, PastStays
<1>5. transaction'[i].content = Arguments[c].message
  BY <1>3 DEF Kept
<1> QED
  BY <1>2, <1>3, <1>4, <1>5 DEF ProposedAt, Votes, Runs

(* Nothing happens to an index: what is said of it stays. *)
LEMMA IndexUntouched ==
  ASSUME PInv, CommandsNext, NEW i \in Indices,
         proposal'[i] = proposal[i], transaction'[i] = transaction[i],
         payouts[i] = 1 => payouts'[i] = 1
  PROVE  PaidAt(i)' /\ ProposedAt(i)'
<1>1. PaidAt(i)'
  BY DEF PInv, PaidAt, Live
<1>2. CASE Live(i)'
  <2>1. Kept(i)
    BY <1>2, Untouched
  <2>2. Votes(proposal'[i]) = Votes(proposal[i])
    BY DEF Votes
  <2> QED
    BY <1>1, <1>2, <2>1, <2>2, ProposedFrame
<1>3. CASE ~Live(i)'
  BY <1>1, <1>3 DEF ProposedAt
<1> QED
  BY <1>2, <1>3

LEMMA LandProposalBacks ==
  ASSUME PInv, CommandsNext, NEW c \in Commands, LandProposal(c), NEW i \in Indices
  PROVE  PaidAt(i)' /\ ProposedAt(i)'
<1> DEFINE j == client[c].index
           message == Arguments[c].message
<1>1. /\ CInv /\ Sent(c) /\ Lands(c) /\ Runs(c, "create_transfer_proposal")
      /\ j \in Indices /\ multisig # NoAccount
      /\ OpenIndex(j, client[c].deadline, Public, message)
  BY DEF PInv, LandProposal, CreateProposal, IsMember
<1>2. /\ proposal' = [proposal EXCEPT ![j] = NewProposal(j, client[c].deadline, Public)]
      /\ transaction' = [transaction EXCEPT ![j] = NewTransaction(j, message)]
      /\ payouts' = payouts
  BY <1>1 DEF OpenIndex
<1>3. proposal \in [Indices -> Proposals \cup {NoAccount}]
      /\ transaction \in [Indices -> Transactions \cup {NoAccount}]
  BY <1>1 DEF CInv, IInv, TypeOK
<1>4. CASE i # j
  <2>1. proposal'[i] = proposal[i] /\ transaction'[i] = transaction[i]
    BY <1>2, <1>3, <1>4
  <2> QED
    BY <1>2, <2>1, IndexUntouched
<1>5. CASE i = j
  <2>1. /\ proposal'[i] = NewProposal(j, client[c].deadline, Public)
        /\ transaction'[i] = NewTransaction(j, message)
    BY <1>1, <1>2, <1>3, <1>5
  <2>2. PaidAt(i)'
    BY <2>1 DEF PaidAt, NewProposal, Active, Executed
  <2>3. Votes(proposal'[i]) = {}
    BY <2>1 DEF NewProposal, Votes
  <2>4. Past(c)' /\ client'[c].index = i
    <3>1. client' \in [Commands -> ClientStates] /\ client \in [Commands -> ClientStates]
      BY <1>1, NextCInv DEF CInv
    <3> QED
      BY <1>1, <1>5, <3>1, WhenSent DEF Lands, Goes, Past
  <2>5. transaction'[i].content = message
    BY <2>1 DEF NewTransaction
  <2> QED
    BY <1>1, <2>2, <2>3, <2>4, <2>5 DEF ProposedAt, Votes, Runs
<1> QED
  BY <1>4, <1>5

LEMMA LandApprovalBacks ==
  ASSUME PInv, CommandsNext, NEW c \in Commands, LandApproval(c), NEW i \in Indices
  PROVE  PaidAt(i)' /\ ProposedAt(i)'
<1> DEFINE j == client[c].index
           key == Arguments[c].signer
<1>1. /\ CInv /\ Sent(c) /\ Lands(c) /\ Runs(c, "approve_proposal") /\ Approve(key, j)
  BY DEF PInv, LandApproval
<1>2. key \in Keys /\ j \in Indices
  BY <1>1, SentParameters
<1>3. /\ transaction' = transaction /\ payouts' = payouts /\ multisig # NoAccount
      /\ j = multisig.transaction_index /\ j <= multisig.transaction_index
  BY <1>1, <1>2 DEF Approve, IsMember, Indices
<1>4. /\ proposal' = [proposal EXCEPT ![j] = proposal'[j]]
      /\ proposal'[j] \in Proposals /\ proposal'[j].status \in {Active, Approved}
      /\ Votes(proposal'[j]) = Votes(proposal[j]) \cup {key}
  <2>1. IInv /\ Approve(key, j) /\ key \in Keys /\ j \in Indices
    BY <1>1, <1>2 DEF CInv
  <2> HIDE DEF key, j
  <2>2. proposal' = [proposal EXCEPT ![j] = proposal'[j]] /\ proposal'[j] \in Proposals
    BY <2>1, ApproveEffect
  <2>3. proposal'[j].status \in {Active, Approved}
    BY <2>1, ApproveEffect
  <2>4. Votes(proposal'[j]) = Votes(proposal[j]) \cup {key}
    BY <2>1, ApproveEffect
  <2> QED
    BY <2>2, <2>3, <2>4
<1>5. proposal \in [Indices -> Proposals \cup {NoAccount}]
  BY <1>1 DEF CInv, IInv, TypeOK
<1>6. CASE i # j
  <2>1. proposal'[i] = proposal[i]
    BY <1>4, <1>5, <1>6
  <2> QED
    BY <1>3, <2>1, IndexUntouched
<1>7. CASE i = j
  <2>1. PaidAt(i)'
    BY <1>4, <1>7 DEF PaidAt, Active, Approved, Executed
  <2>2. Live(i)'
    BY <1>4, <1>7, KeysAssumption DEF Live
  <2>3. Kept(i)
    BY <1>1, <1>2, <1>3, <1>7, <2>2, StepIsChainStep, WhenSent, ChainFrame
  <2>4. Past(c)' /\ client'[c].index = i /\ client'[c].pc \in {"landed", "unanswered"}
    BY <1>1, <1>7, WhenSent DEF Lands, Goes, Past, CInv, ClientStates
  <2>5. key \in Supporters(i)'
    BY <1>1, <2>4 DEF Supporters, Runs
  <2> QED
    BY <1>4, <1>7, <2>1, <2>2, <2>3, <2>5, ProposedFrame
<1> QED
  BY <1>6, <1>7

LEMMA LandExecutionBacks ==
  ASSUME PInv, CommandsNext, NEW c \in Commands, LandExecution(c), NEW i \in Indices
  PROVE  PaidAt(i)' /\ ProposedAt(i)'
<1> DEFINE j == client[c].index
           key == Arguments[c].signer
<1>1. /\ CInv /\ Sent(c) /\ Lands(c) /\ Runs(c, "execute_proposal")
      /\ CanExecute(key, j) /\ MarkExecuted(j)
      /\ payouts' = [payouts EXCEPT ![j] = @ + 1]
      /\ transaction' = transaction
  BY DEF PInv, LandExecution, ExecutePublic
<1>2. key \in Keys /\ j \in Indices
  BY <1>1, SentParameters
<1>3. CInv' /\ client'[c].index = j /\ Past(c)'
  <2>1. CInv' /\ client'[c].index = j
    BY <1>1, NextCInv, WhenSent
  <2> QED
    BY <1>1, <2>1 DEF Lands, Goes, Past, CInv
<1>4. payouts'[j] = 1
  BY <1>1, <1>3 DEF CInv, LandedAt, Runs
<1>5. payouts[i] = 1 => payouts'[i] = 1
  BY <1>1, WhenSent, ChainFrame
<1>6. /\ Live(j) /\ proposal[j] \in Proposals /\ multisig # NoAccount
      /\ j <= multisig.transaction_index
  BY <1>1, <1>2, AccountTypes DEF CanExecute, IsMember, Live, CInv, IInv, Indices
<1>7. /\ proposal \in [Indices -> Proposals \cup {NoAccount}]
      /\ proposal' = [proposal EXCEPT ![j] = [@ EXCEPT !.status = Executed, !.timestamp = now]]
  BY <1>1 DEF CInv, IInv, TypeOK, MarkExecuted
<1>8. CASE i # j
  <2>1. proposal'[i] = proposal[i]
    BY <1>7, <1>8
  <2> QED
    BY <1>1, <1>5, <2>1, IndexUntouched
<1>9. CASE i = j
  <2>1. PaidAt(i)'
    BY <1>4, <1>9 DEF PaidAt
  <2>2. proposal'[i].approvers = proposal[i].approvers
    BY <1>2, <1>6, <1>7, <1>9 DEF Proposals
  <2>3. Votes(proposal'[i]) = Votes(proposal[i])
    BY <2>2 DEF Votes
  <2>4. CASE Live(i)'
    <3>1. Kept(i)
      BY <1>1, <1>2, <1>6, <1>9, <2>4, WhenSent, ChainFrame
    <3> QED
      BY <2>1, <2>3, <2>4, <3>1, ProposedFrame
  <2>5. CASE ~Live(i)'
    BY <2>1, <2>5 DEF ProposedAt
  <2> QED
    BY <2>4, <2>5
<1> QED
  BY <1>8, <1>9

LEMMA ChainStepBacks ==
  ASSUME PInv, CommandsNext, ChainStep, NEW i \in Indices
  PROVE  PaidAt(i)' /\ ProposedAt(i)'
<1>1. CInv
  BY DEF PInv
<1>2. ASSUME NEW j \in Indices, NEW collector \in RentCollectors, Close(j, collector)
      PROVE  PaidAt(i)' /\ ProposedAt(i)'
  <2>1. /\ transaction[j].transaction_index = j
        /\ proposal' = [proposal EXCEPT ![j] = NoAccount]
        /\ transaction' = [transaction EXCEPT ![j] = NoAccount]
        /\ payouts' = payouts
    BY <1>1, <1>2 DEF Close, CInv, IInv, IndexInv, PairedAt
  <2>2. CASE i = j
    <3>1. ~Live(i)'
      BY <1>1, <2>1, <2>2 DEF Live, CInv, IInv, TypeOK
    <3> QED
      BY <3>1 DEF PaidAt, ProposedAt
  <2>3. CASE i # j
    <3>1. proposal'[i] = proposal[i] /\ transaction'[i] = transaction[i]
      BY <1>1, <2>1, <2>3 DEF CInv, IInv, TypeOK
    <3> QED
      BY <2>1, <3>1, IndexUntouched
  <2> QED
    BY <2>2, <2>3
<1>3. CASE Tick
  BY <1>3, IndexUntouched DEF Tick
<1> QED
  BY <1>2, <1>3 DEF ChainStep

(* Behind every vote and message there is a command, and nothing is marked executed
   that was not paid. *)
LEMMA Backed ==
  ASSUME PInv, CommandsNext, NEW i \in Indices
  PROVE  PaidAt(i)' /\ ProposedAt(i)'
<1>1. CInv
  BY DEF PInv
<1>2. CASE UNCHANGED vars
  BY <1>2, IndexUntouched DEF vars
<1>3. ASSUME NEW c \in Commands, LandMultisig(c) \/ LandDeposit(c)
      PROVE  PaidAt(i)' /\ ProposedAt(i)'
  BY <1>3, IndexUntouched DEF LandMultisig, LandDeposit, CreateMultisig, Deposit
<1> QED
  BY <1>1, <1>2, <1>3, CommandSteps, LandProposalBacks, LandApprovalBacks,
     LandExecutionBacks, ChainStepBacks

(* An approved proposal is closed only once it is paid. *)
LEMMA StaysOpen ==
  ASSUME PInv, CommandsNext, NEW i \in Indices, Live(i), proposal[i].status # Active
  PROVE  Live(i)' \/ payouts'[i] = 1
<1>1. CInv /\ PaidAt(i)
  BY DEF PInv
<1>2. proposal \in [Indices -> Proposals \cup {NoAccount}] /\ now \in 0..MaxTime
  BY <1>1 DEF CInv, IInv, TypeOK
<1>3. CASE proposal'[i] = proposal[i]
  BY <1>3 DEF Live
<1>4. CASE proposal'[i] # proposal[i]
  <2>1. ASSUME NEW c \in Commands, LandProposal(c)
        PROVE  FALSE
    <3> DEFINE j == client[c].index
    <3>1. /\ proposal[j] = NoAccount
          /\ proposal' = [proposal EXCEPT ![j] = NewProposal(j, client[c].deadline, Public)]
      BY <2>1 DEF LandProposal, CreateProposal, OpenIndex
    <3>2. i # j
      BY <3>1 DEF Live
    <3> HIDE DEF j
    <3> QED
      BY <1>2, <1>4, <3>1, <3>2
  <2>2. ASSUME NEW c \in Commands, LandApproval(c)
        PROVE  FALSE
    <3> DEFINE j == client[c].index
    <3>1. /\ proposal[j].status = Active
          /\ proposal' = [proposal EXCEPT
                            ![j] = Tally(RecordApproval(@, Arguments[c].signer))]
      BY <2>2 DEF LandApproval, Approve
    <3> HIDE DEF j
    <3> QED
      BY <1>2, <1>4, <3>1
  <2>3. ASSUME NEW c \in Commands, LandExecution(c)
        PROVE  Live(i)'
    <3> DEFINE j == client[c].index
               r == [proposal[i] EXCEPT !.status = Executed, !.timestamp = now]
    <3>1. proposal' = [proposal EXCEPT ![j].status = Executed, ![j].timestamp = now]
      BY <2>3 DEF LandExecution, ExecutePublic, MarkExecuted
    <3> HIDE DEF j
    <3>2. proposal'[i] = r
      BY <1>2, <1>4, <3>1
    <3>3. r \in Proposals
      <4>1. proposal[i] \in Proposals
        BY <1>2 DEF Live
      <4> QED
        BY <1>2, <4>1 DEF Proposals, Executed
    <3> HIDE DEF r
    <3> QED
      BY <3>2, <3>3, KeysAssumption DEF Live
  <2>4. ASSUME NEW j \in Indices, NEW collector \in RentCollectors, Close(j, collector)
        PROVE  payouts'[i] = 1
    <3>1. /\ transaction[j].transaction_index = j /\ Closable(proposal[j])
          /\ proposal' = [proposal EXCEPT ![j] = NoAccount] /\ payouts' = payouts
      BY <1>1, <2>4 DEF Close, CInv, IInv, IndexInv, PairedAt
    <3>2. i = j
      BY <1>2, <1>4, <3>1
    <3>3. proposal[i].status = Executed
      BY <3>1, <3>2 DEF Closable
    <3> QED
      BY <1>1, <3>1, <3>3 DEF PaidAt
  <2>5. ASSUME NEW c \in Commands, LandMultisig(c) \/ LandDeposit(c)
        PROVE  FALSE
    BY <1>4, <2>5 DEF LandMultisig, LandDeposit, CreateMultisig, Deposit
  <2>6. CASE ChainStep
    BY <1>4, <2>4, <2>6 DEF ChainStep, Tick
  <2>7. ~UNCHANGED vars
    BY <1>4 DEF vars
  <2> QED
    BY <1>1, <2>1, <2>2, <2>3, <2>5, <2>6, <2>7, CommandSteps
<1> QED
  BY <1>3, <1>4

(* A step of a command is the only one that changes what it keeps. *)
Moves(c) ==
  \/ BuildMultisig(c) \/ ReadIndex(c) \/ ReadProposal(c)
  \/ ReadTransaction(c) \/ ReadStatus(c) \/ BuildDeposit(c)
  \/ LandMultisig(c) \/ LandProposal(c) \/ LandApproval(c)
  \/ LandExecution(c) \/ LandDeposit(c)
  \/ Throw(c) \/ Confirm(c) \/ Tell(c)

LEMMA OnlyItself ==
  ASSUME CInv, CommandsNext, NEW c \in Commands
  PROVE  client'[c] = client[c] \/ Moves(c)
<1>1. client \in [Commands -> ClientStates]
  BY DEF CInv
<1>2. ASSUME NEW d \in Commands, Moves(d), d # c
      PROVE  client'[c] = client[c]
  <2>1. ASSUME NEW pc, Goes(d, pc)
        PROVE  client'[c] = client[c]
    BY <1>1, <1>2, <2>1 DEF Goes
  <2>2. CASE BuildMultisig(d) \/ ReadIndex(d)
    BY <1>1, <1>2, <2>1, <2>2 DEF BuildMultisig, ReadIndex
  <2>3. CASE ReadProposal(d) \/ ReadTransaction(d)
    BY <1>1, <1>2, <2>1, <2>3 DEF ReadProposal, ReadTransaction
  <2>4. CASE \/ ReadStatus(d) \/ BuildDeposit(d) \/ Throw(d) \/ Confirm(d)
    BY <2>1, <2>4 DEF ReadStatus, BuildDeposit, Throw, Confirm
  <2>5. CASE \/ LandMultisig(d) \/ LandProposal(d) \/ LandApproval(d)
             \/ LandExecution(d) \/ LandDeposit(d)
    BY <2>1, <2>5
    DEF LandMultisig, LandProposal, LandApproval, LandExecution, LandDeposit, Lands
  <2>6. CASE Tell(d)
    BY <1>1, <1>2, <2>1, <2>6 DEF Tell
  <2> QED
    BY <1>2, <2>2, <2>3, <2>4, <2>5, <2>6 DEF Moves
<1>3. CASE ChainStep
  BY <1>3 DEF ChainStep, commandVars
<1>4. CASE \E d \in Commands : Moves(d)
  BY <1>2, <1>4
<1>5. ChainStep \/ \E d \in Commands : Moves(d)
  BY DEF CommandsNext, Moves
<1> QED
  BY <1>3, <1>4, <1>5

(* A command that is done does nothing more, and only Tell ends one so. *)
LEMMA DoneIsDone ==
  ASSUME CInv, CommandsNext, NEW c \in Commands
  PROVE  /\ At(c, "done") => client'[c] = client[c]
         /\ At(c, "done")' => At(c, "done") \/ Tell(c)
<1>1. client \in [Commands -> ClientStates]
  BY DEF CInv
<1>2. At(c, "done") => ~Moves(c)
  BY DEF Moves, At, Sent, BuildMultisig, ReadIndex, ReadProposal, ReadTransaction, ReadStatus,
      BuildDeposit, LandMultisig, LandProposal, LandApproval, LandExecution, LandDeposit,
      Throw, Confirm, Tell
<1>3. ASSUME Goes(c, "thrown") \/ Goes(c, "skipped") \/ Goes(c, "built")
             \/ Goes(c, "silent") \/ Goes(c, "unanswered") \/ Goes(c, "confirmed") \/ Lands(c)
      PROVE  ~At(c, "done")'
  BY <1>1, <1>3 DEF Goes, Lands, At, ClientStates
<1>4. ASSUME BuildMultisig(c) \/ ReadIndex(c)
      PROVE  ~At(c, "done")'
  <2>1. CASE BuildMultisig(c)
    BY <1>1, <1>3, <2>1 DEF BuildMultisig, At, ClientStates
  <2>2. CASE ReadIndex(c)
    BY <1>1, <1>3, <2>2 DEF ReadIndex, At, ClientStates
  <2> QED
    BY <1>4, <2>1, <2>2
<1>5. ASSUME ReadProposal(c)
      PROVE  ~At(c, "done")'
  BY <1>1, <1>3, <1>5 DEF ReadProposal, At, ClientStates
<1>6. ASSUME ReadTransaction(c)
      PROVE  ~At(c, "done")'
  BY <1>1, <1>3, <1>6 DEF ReadTransaction, At, ClientStates
<1>7. ASSUME ReadStatus(c) \/ BuildDeposit(c) \/ Throw(c) \/ Confirm(c)
      PROVE  ~At(c, "done")'
  BY <1>3, <1>7 DEF ReadStatus, BuildDeposit, Throw, Confirm
<1>8. ASSUME \/ LandMultisig(c) \/ LandProposal(c) \/ LandApproval(c)
             \/ LandExecution(c) \/ LandDeposit(c)
      PROVE  ~At(c, "done")'
  BY <1>3, <1>8 DEF LandMultisig, LandProposal, LandApproval, LandExecution, LandDeposit
<1>9. At(c, "done")' /\ ~At(c, "done") => Moves(c)
  BY OnlyItself DEF At
<1> QED
  BY <1>2, <1>4, <1>5, <1>6, <1>7, <1>8, <1>9, OnlyItself DEF Moves

(* What was told executable stays so until it is paid. *)
LEMMA OpenStays ==
  ASSUME PInv, CommandsNext, NEW c \in Commands
  PROVE  OpenAt(c)'
<1> USE DEF Goes, Lands
<1> DEFINE i == client[c].index
<1>1. CInv /\ client \in [Commands -> ClientStates] /\ OpenAt(c) /\ ToldAt(c) /\ KindAt(c)
  BY DEF PInv, CInv
<1>2. [Next]_vars /\ IInv'
  BY <1>1, StepIsChainStep, NextIInv DEF CInv
<1>3. CASE At(c, "done")
  <2>1. client'[c] = client[c]
    BY <1>1, <1>3, DoneIsDone
  <2>2. i \in Indices
    <3>1. Underway(c) /\ Runs(c, "approve_proposal")
      BY <1>1, <1>3 DEF KindAt, Underway, At
    <3> QED
      BY <1>1, <3>1, ArgumentsAssumption DEF KindAt
  <2>3. payouts[i] = 1 => payouts'[i] = 1
    BY <1>1, <1>2, <2>2, ChainFrame
  <2>4. ASSUME client[c].told \in {"executable", "executed"},
               NEW j \in Indices, j = i, Live(j)
        PROVE  Live(j)' \/ payouts'[j] = 1
    <3>1. proposal[j].status # Active
      BY <1>1, <1>3, <2>4 DEF ToldAt
    <3> QED
      BY <2>4, <3>1, StaysOpen
  <2> QED
    BY <1>1, <1>3, <2>1, <2>2, <2>3, <2>4 DEF OpenAt, At, Live
<1>4. CASE Tell(c)
  <2>1. /\ Runs(c, "approve_proposal") /\ Underway(c) /\ UNCHANGED vars
        /\ At(c, "confirmed")
    BY <1>4 DEF Tell, Underway, At
  <2>2. i \in Indices
    BY <1>1, <2>1, ArgumentsAssumption DEF KindAt
  <2>3. client[c].told = "nothing"
    BY <1>1, <2>1 DEF ToldAt, At
  <2>4. payouts' = payouts /\ proposal' = proposal
    BY <2>1 DEF vars
  <2>5. CASE proposal[i] = NoAccount
    <3>1. client'[c].told = "nothing"
      BY <1>1, <1>4, <2>3, <2>5 DEF Tell, ClientStates
    <3> QED
      BY <3>1 DEF OpenAt
  <2>6. CASE proposal[i] # NoAccount
    <3> DEFINE p == proposal[i]
               told == CASE p.status = Approved -> "executable"
                         [] p.status = Executed -> "executed"
                         [] p.status = Active -> "waiting"
               remaining == IF p.status = Active
                              THEN multisig.threshold - p.approvers_len ELSE 0
    <3>1. client'[c].index = i /\ client'[c].told = told
      <4>1. client' = [client EXCEPT ![c].pc = "done", ![c].told = told,
                                     ![c].remaining = remaining]
        BY <1>4, <2>6 DEF Tell
      <4> HIDE DEF told, remaining
      <4> QED
        BY <1>1, <4>1 DEF ClientStates
    <3>2. p.status \in {Active, Approved, Executed}
      BY <1>1, <2>2, <2>6 DEF CInv, IInv, TypeOK, Proposals
    <3>3. told = "executed" => p.status = Executed
      BY <3>2 DEF Active, Approved, Executed
    <3>4. told = "executed" => payouts[i] = 1
      BY <2>2, <2>6, <3>3 DEF PInv, PaidAt, Live
    <3> HIDE DEF told, i
    <3> QED
      BY <2>4, <2>6, <3>1, <3>4 DEF OpenAt, Live
  <2> QED
    BY <2>5, <2>6
<1>5. CASE ~At(c, "done") /\ ~Tell(c)
  <2>1. ~At(c, "done")'
    BY <1>1, <1>5, DoneIsDone
  <2> QED
    BY <2>1 DEF OpenAt
<1> QED
  BY <1>3, <1>4, <1>5

(* The content an execution has read is that of the account as long as there is one. *)
LEMMA ReadStays ==
  ASSUME PInv, CommandsNext, NEW c \in Commands
  PROVE  ReadAt(c)'
<1> USE DEF Goes, Lands
<1> DEFINE i == client[c].index
<1>1. CInv /\ client \in [Commands -> ClientStates] /\ ReadAt(c) /\ KindAt(c)
  BY DEF PInv, CInv
<1>2. [Next]_vars /\ IInv'
  BY <1>1, StepIsChainStep, NextIInv DEF CInv
<1>3. CASE ~Runs(c, "execute_proposal")
  BY <1>3 DEF ReadAt, Runs
<1>4. CASE Runs(c, "execute_proposal") /\ ~ReadTransaction(c)
  <2>1. Underway(c)' => /\ Underway(c) /\ client'[c].index = i
                        /\ client'[c].content = client[c].content
    <3>1. CASE client'[c] = client[c]
      BY <3>1 DEF Underway
    <3>2. CASE Moves(c)
      <4>1. ReadStatus(c) \/ LandExecution(c) \/ Throw(c) \/ Confirm(c)
        BY <1>1, <1>4, <3>2
        DEF Moves, Runs, BuildMultisig, ReadIndex, ReadProposal, BuildDeposit, LandMultisig,
            LandProposal, LandApproval, LandDeposit, Tell, KindAt
      <4>2. Underway(c)
        BY <4>1 DEF ReadStatus, LandExecution, Throw, Confirm, Underway, At, Sent
      <4>3. ASSUME NEW pc, Goes(c, pc)
            PROVE  client'[c].index = i /\ client'[c].content = client[c].content
        BY <1>1, <4>3 DEF ClientStates
      <4>4. CASE ReadStatus(c) \/ Throw(c) \/ Confirm(c)
        BY <4>2, <4>3, <4>4 DEF ReadStatus, Throw, Confirm
      <4>5. CASE LandExecution(c)
        BY <4>2, <4>3, <4>5 DEF LandExecution
      <4> QED
        BY <4>1, <4>4, <4>5
    <3> QED
      BY <1>1, <3>1, <3>2, OnlyItself
  <2>2. ASSUME Underway(c), NEW j \in Indices, j = i
        PROVE  /\ multisig' # NoAccount /\ j <= multisig'.transaction_index
               /\ Live(j)' => client[c].content = transaction'[j].content
    <3>1. /\ multisig # NoAccount /\ j <= multisig.transaction_index
          /\ Live(j) => client[c].content = transaction[j].content
      BY <1>1, <1>4, <2>2 DEF ReadAt
    <3>2. Live(j)' => Kept(j)
      BY <1>1, <1>2, <3>1, ChainFrame
    <3> QED
      BY <1>1, <1>2, <3>1, <3>2, ChainFrame DEF Kept, Indices
  <2>3. Underway(c) => i \in Indices
    BY <1>1, <1>4, ArgumentsAssumption DEF KindAt
  <2> QED
    BY <2>1, <2>2, <2>3 DEF ReadAt, Live
<1>5. CASE ReadTransaction(c)
  <2> DEFINE j == Arguments[c].index
  <2>1. Runs(c, "execute_proposal") /\ j \in Indices /\ UNCHANGED vars
    BY <1>5, ArgumentsAssumption DEF ReadTransaction
  <2>2. CASE transaction[j] = NoAccount
    <3>1. client'[c].pc = "thrown"
      BY <1>1, <1>5, <2>2 DEF ReadTransaction, ClientStates
    <3> QED
      BY <3>1 DEF ReadAt, Underway
  <2>3. CASE transaction[j] # NoAccount
    <3>1. client'[c].index = j /\ client'[c].content = transaction[j].content
      BY <1>1, <1>5, <2>3 DEF ReadTransaction, ClientStates
    <3>2. multisig # NoAccount /\ j <= multisig.transaction_index
      BY <1>1, <2>1, <2>3 DEF CInv, IInv, IndexInv, PairedAt
    <3>3. multisig' = multisig /\ transaction' = transaction
      BY <2>1 DEF vars
    <3> QED
      BY <3>1, <3>2, <3>3 DEF ReadAt
  <2> QED
    BY <2>2, <2>3
<1> QED
  BY <1>3, <1>4, <1>5

LEMMA NextPInv == PInv /\ [CommandsNext]_<<vars, commandVars>> => PInv'
<1>1. ASSUME PInv, CommandsNext PROVE PInv'
  BY <1>1, NextCInv, Backed, ReadStays, OpenStays DEF PInv
<1>2. ASSUME PInv, UNCHANGED <<vars, commandVars>> PROVE PInv'
  <2>1. CInv'
    BY <1>2, NextCInv DEF PInv
  <2>2. /\ client' = client /\ multisig' = multisig /\ proposal' = proposal
        /\ transaction' = transaction /\ payouts' = payouts
    BY <1>2 DEF vars, commandVars
  <2> QED
    BY <1>2, <2>1, <2>2 DEF PInv, PaidAt, ProposedAt, ReadAt, OpenAt, Live, Votes, Supporters,
       Past, Underway, At, Runs
<1> QED
  BY <1>1, <1>2

LEMMA InitPInv ==
  ASSUME NEW w, CommandsInit(w)
  PROVE  PInv
<1>1. CInv
  BY InitCInv
<1>2. \A i \in Indices : ~Live(i)
  BY DEF CommandsInit, Init, Live
<1>3. ASSUME NEW c \in Commands
      PROVE  ~Underway(c) /\ ~At(c, "done")
  BY DEF CommandsInit, Underway, At
<1> QED
  BY <1>1, <1>2, <1>3 DEF PInv, PaidAt, ProposedAt, ReadAt, OpenAt

THEOREM PaidInvariance == CommandsSpec => []PInv
<1>1. (\E w \in Workloads : CommandsInit(w)) => PInv
  BY InitPInv
<1> QED
  BY <1>1, NextPInv, PTL DEF CommandsSpec

(* What approve_proposal tells stays true: a proposal told executable is paid, or it
   is there with its quorum and, unless it was superseded, any member can execute it. *)
THEOREM ToldTrue == CommandsSpec => []ToldStaysTrue
<1>1. ASSUME PInv PROVE ToldStaysTrue
  <2> SUFFICES ASSUME NEW c \in Commands, At(c, "done"), NEW i \in Indices,
                      i = client[c].index
               PROVE  /\ client[c].told \in {"executable", "executed"} =>
                           \/ payouts[i] = 1
                           \/ /\ Live(i)
                              /\ Cardinality(Votes(proposal[i])) >= multisig.threshold
                              /\ \/ i < multisig.transaction_index
                                 \/ \A m \in MemberSet : CanExecute(m, i)
                      /\ client[c].told = "executed" => payouts[i] = 1
                      /\ client[c].told = "waiting" =>
                           /\ client[c].remaining >= 1
                           /\ Live(i) => Cardinality(Votes(proposal[i])) + client[c].remaining
                                           >= multisig.threshold
    <3>1. ASSUME NEW c \in Commands, At(c, "done")
          PROVE  client[c].index \in Indices
      <4>1. Underway(c) /\ Runs(c, "approve_proposal")
        BY <1>1, <3>1 DEF PInv, CInv, KindAt, Underway, At
      <4> QED
        BY <1>1, <4>1, ArgumentsAssumption DEF PInv, CInv, KindAt
    <3> QED
      BY <3>1 DEF ToldStaysTrue
  <2>1. CInv /\ ToldAt(c) /\ OpenAt(c) /\ LandedAt(c) /\ KindAt(c) /\ PaidAt(i)
    BY <1>1 DEF PInv, CInv
  <2>2. multisig # NoAccount /\ i <= multisig.transaction_index
    BY <2>1 DEF LandedAt, KindAt, Past, Underway, At
  <2>3. ASSUME client[c].told \in {"executable", "executed"}, Live(i), payouts[i] # 1
        PROVE  /\ Cardinality(Votes(proposal[i])) >= multisig.threshold
               /\ i < multisig.transaction_index \/ \A m \in MemberSet : CanExecute(m, i)
    <3>1. /\ proposal[i].status # Active
          /\ Cardinality(Votes(proposal[i])) >= multisig.threshold
      BY <2>1, <2>3 DEF ToldAt
    <3>2. proposal[i].status = Approved
      <4>1. proposal[i].status \in {Active, Approved, Executed}
        BY <2>1, <2>3 DEF CInv, IInv, TypeOK, Proposals, Live
      <4>2. proposal[i].status # Executed
        BY <2>1, <2>3 DEF PaidAt
      <4> QED
        BY <3>1, <4>1, <4>2
    <3>3. i < multisig.transaction_index \/ i = multisig.transaction_index
      <4>1. multisig.transaction_index \in Nat
        BY <2>1, <2>2 DEF CInv, IInv, TypeOK, Multisigs
      <4> QED
        BY <2>2, <4>1 DEF Indices
    <3>4. transaction[i] # NoAccount
      BY <2>1, <2>3 DEF CInv, IInv, IndexInv, PairedAt
    <3>5. \A m \in MemberSet : IsMember(m)
      BY <2>2 DEF MemberSet, IsMember
    <3> QED
      BY <2>3, <3>1, <3>2, <3>3, <3>4, <3>5 DEF CanExecute, Live
  <2> QED
    BY <2>1, <2>3 DEF ToldAt, OpenAt
<1> QED
  BY <1>1, PaidInvariance, PTL

(* These commands pay nothing but what was proposed, with votes that members have
   cast themselves: the program asks for neither, the invariant PInv of the commands
   gives both. *)
THEOREM ProposedIsPaid == CommandsSpec => PaidAsProposed
<1> DEFINE Proposed(c) ==
             LET msg == Arguments[c].message IN
             /\ Runs(c, "create_transfer_proposal")
             /\ \E S \in SUBSET Supporters(client[c].index) :
                  Cardinality(S) >= multisig.threshold
             /\ lamports'["vault"] = lamports["vault"] - msg.amount
             /\ lamports'[msg.to] = lamports[msg.to] + msg.amount
           Paid == lamports'["vault"] < lamports["vault"] => \E c \in Commands : Proposed(c)
<1>1. PInv /\ [CommandsNext]_<<vars, commandVars>> => [Paid]_<<vars, commandVars>>
  <2> SUFFICES ASSUME PInv, CommandsNext, lamports'["vault"] < lamports["vault"]
               PROVE  \E c \in Commands : Proposed(c)
    OBVIOUS
  <2>1. /\ CInv /\ lamports \in [Holders -> Nat] /\ "vault" \in Holders
        /\ lamports["vault"] \in Nat
    BY DEF PInv, CInv, IInv, TypeOK, Holders
  <2>2. lamports' # lamports
    BY <2>1
  <2>3. ASSUME NEW c \in Commands, LandMultisig(c)
        PROVE  FALSE
    BY <2>1, <2>3 DEF LandMultisig, CreateMultisig
  <2>4. ASSUME NEW c \in Commands, LandProposal(c)
        PROVE  FALSE
    BY <2>1, <2>4 DEF LandProposal, CreateProposal, OpenIndex
  <2>5. ASSUME NEW c \in Commands, LandDeposit(c)
        PROVE  FALSE
    <3>1. Arguments[c].amount \in Nat
      BY <2>5, ArgumentsAssumption, BoundsAssumption DEF LandDeposit
    <3>2. lamports'["vault"] = lamports["vault"] + Arguments[c].amount
      BY <2>1, <2>5 DEF LandDeposit, Deposit
    <3> QED
      BY <2>1, <3>1, <3>2
  <2>6. CASE ChainStep
    <3>1. PICK j \in Indices, collector \in RentCollectors : Close(j, collector)
      BY <2>2, <2>6 DEF ChainStep, Tick
    <3>2. collector # "vault"
      BY HoldersAssumption
    <3> QED
      BY <2>1, <3>1, <3>2 DEF Close
  <2>7. ASSUME NEW d \in Commands, LandExecution(d), NEW i \in Indices, i = client[d].index
        PROVE  \E c \in Commands : Proposed(c)
    <3>1. /\ Runs(d, "execute_proposal") /\ Underway(d)
          /\ Live(i) /\ proposal[i].status = Approved
          /\ Passed(d) \in Effects
          /\ lamports' = [lamports EXCEPT !["vault"] = @ - Passed(d).amount,
                                          ![Passed(d).to] = @ + Passed(d).amount]
      BY <2>7 DEF LandExecution, Underway, Sent, ExecutePublic, CanExecute, Live
    <3>2. PICK c \in Commands :
            /\ Runs(c, "create_transfer_proposal") /\ client[c].index = i
            /\ transaction[i].content = Arguments[c].message
      BY <3>1 DEF PInv, ProposedAt
    <3>3. client[d].content = transaction[i].content
      BY <2>7, <3>1 DEF PInv, ReadAt
    <3>4. Passed(d).to = Arguments[c].message.to /\ Passed(d).amount = Arguments[c].message.amount
      BY <2>7, <3>2, <3>3 DEF Passed
    <3>5. Votes(proposal[i]) \subseteq Supporters(i)
      BY <3>1 DEF PInv, ProposedAt
    <3>6. Cardinality(Votes(proposal[i])) >= multisig.threshold
      BY <2>1, <3>1 DEF CInv, IInv, IndexInv, QuorumAt, Active, Approved
    <3>7. /\ lamports'["vault"] = lamports["vault"] - Passed(d).amount
          /\ lamports'[Passed(d).to] = lamports[Passed(d).to] + Passed(d).amount
      <4>1. Passed(d).to \in Payees
        BY <3>1, EffectTypes
      <4>2. Passed(d).to \in Holders /\ Passed(d).to # "vault"
        BY <4>1, HoldersAssumption DEF Holders
      <4> QED
        BY <2>1, <3>1, <4>2
    <3> QED
      BY <3>2, <3>4, <3>5, <3>6, <3>7
  <2>8. ASSUME NEW d \in Commands, LandExecution(d)
        PROVE  \E c \in Commands : Proposed(c)
    <3>1. client[d].index \in Indices
      BY <2>1, <2>8, SentParameters DEF LandExecution
    <3> HIDE DEF Proposed
    <3> QED
      BY <2>7, <2>8, <3>1
  <2>9. ASSUME NEW c \in Commands, LandApproval(c)
        PROVE  FALSE
    BY <2>2, <2>9 DEF LandApproval, Approve
  <2>10. ~UNCHANGED vars
    BY <2>2 DEF vars
  <2> QED
    BY <2>1, <2>3, <2>4, <2>5, <2>6, <2>8, <2>9, <2>10, CommandSteps
<1>2. CommandsSpec => [][Paid]_<<vars, commandVars>>
  BY <1>1, PaidInvariance, PTL DEF CommandsSpec
<1> QED
  BY <1>2 DEF PaidAsProposed
=============================================================================
