-------------------------- MODULE GithubServiceProofs --------------------------
(***************************************************************************)
(* Proofs about GithubService: what becomes of a state and of the token it *)
(* is exchanged for, that the service signs in as GithubSignIn says, that  *)
(* the jobs of the events it emits can be run, and that a pull request     *)
(* gets the jobs its configuration lists, whatever the file.               *)
(***************************************************************************)
EXTENDS GithubService, FiniteSetTheorems, SequenceTheorems, WellFoundedInduction, TLAPS

------------------------------------------------------------------------------
(* Signing in.                                                             *)

SignInNext == SignInStep \/ ServiceRestarts

(* A state that waits has not been exchanged, and one that was not drawn   *)
(* neither waits nor was exchanged.                                        *)
Fresh ==
    \A s \in State :
        /\ s \in requested => exchanges[s] = 0 /\ visits[s] # None
        /\ visits[s] = None => exchanges[s] = 0

(* A request in flight has exchanged its state.                            *)
Served == \A r \in Request : calls[r] \in InFlight => exchanges[calls[r].state] = 1

SignInInv == SignInTypeOK /\ Fresh /\ ExchangedOnce /\ Served /\ TokensGenuine

LEMMA SignInInitOK == SignInInit => SignInInv
  BY SignInAssumption DEF SignInInit, SignInInv, SignInTypeOK, Fresh, ExchangedOnce, Served,
     TokensGenuine, Idle, InFlight

LEMMA SignInTypeStep == SignInTypeOK /\ [SignInNext]_signInVars => SignInTypeOK'
<1> SUFFICES ASSUME SignInTypeOK, [SignInNext]_signInVars PROVE SignInTypeOK'
  OBVIOUS
<1> USE DEF SignInTypeOK
<1>1. ASSUME NEW s \in State, NEW u \in User, NEW scopes \in Scopes, SendOn(s, u, scopes)
      PROVE SignInTypeOK'
  BY <1>1 DEF SendOn, Token
<1>2. ASSUME NEW r \in Request, NEW s \in State, Redeem(r, s) PROVE SignInTypeOK'
  BY <1>2 DEF Redeem, InFlight
<1>3. ASSUME NEW r \in Request, NEW s \in State, Unknown(r, s) PROVE SignInTypeOK'
  BY <1>3 DEF Unknown, signInVars
<1>4. ASSUME NEW r \in Request, Exchanged(r) PROVE SignInTypeOK'
  BY <1>4 DEF Exchanged, InFlight, Idle
<1>5. ASSUME NEW r \in Request, Raises(r) PROVE SignInTypeOK'
  BY <1>5 DEF Raises
<1>6. ASSUME NEW r \in Request, Named(r) PROVE SignInTypeOK'
  <2> DEFINE token == visits[calls[r].state]
  <2>1. token \in Token \union {None}
    BY <1>6 DEF Named, InFlight, Idle
  <2>2. users' = [users EXCEPT ![token.user] = token]
    BY <1>6 DEF Named
  <2>3. users' \in [User -> Token \union {None}]
    BY <2>1, <2>2
  <2>4. QED
    BY <1>6, <2>3 DEF Named
<1>7. CASE ServiceRestarts
  BY <1>7 DEF ServiceRestarts
<1>8. CASE UNCHANGED signInVars
  BY <1>8 DEF signInVars
<1>9. QED
  BY <1>1, <1>2, <1>3, <1>4, <1>5, <1>6, <1>7, <1>8 DEF SignInNext, SignInStep

LEMMA SignInStepOK == SignInInv /\ [SignInNext]_signInVars => SignInInv'
<1> SUFFICES ASSUME SignInInv, [SignInNext]_signInVars PROVE SignInInv'
  OBVIOUS
<1>t. SignInTypeOK'
  BY SignInTypeStep DEF SignInInv
<1> SUFFICES Fresh' /\ ExchangedOnce' /\ Served' /\ TokensGenuine'
  BY <1>t DEF SignInInv
<1> USE DEF SignInInv, Fresh, ExchangedOnce, Served, TokensGenuine
<1>1. ASSUME NEW s \in State, NEW u \in User, NEW scopes \in Scopes, SendOn(s, u, scopes)
      PROVE Fresh' /\ ExchangedOnce' /\ Served' /\ TokensGenuine'
  <2>1. [user |-> u, scopes |-> scopes] # None
    BY SignInAssumption DEF None
  <2>2. exchanges[s] = 0
    BY <1>1 DEF SendOn
  <2>3. QED
    BY <1>1, <2>1, <2>2 DEF SendOn, SignInTypeOK
<1>2. ASSUME NEW r \in Request, NEW s \in State, Redeem(r, s)
      PROVE Fresh' /\ ExchangedOnce' /\ Served' /\ TokensGenuine'
  <2>1. exchanges[s] = 0
    BY <1>2 DEF Redeem
  <2>2. exchanges' = [exchanges EXCEPT ![s] = 1]
    BY <1>2, <2>1 DEF Redeem, SignInTypeOK
  <2>3. Fresh' /\ ExchangedOnce' /\ TokensGenuine'
    BY <1>2, <2>1, <2>2 DEF Redeem, SignInTypeOK
  <2>4. Served'
    BY <1>2, <2>1, <2>2 DEF Redeem, SignInTypeOK, InFlight
  <2>5. QED
    BY <2>3, <2>4
<1>3. ASSUME NEW r \in Request, NEW s \in State, Unknown(r, s)
      PROVE Fresh' /\ ExchangedOnce' /\ Served' /\ TokensGenuine'
  BY <1>3 DEF Unknown, signInVars
<1>4. ASSUME NEW r \in Request, Exchanged(r)
      PROVE Fresh' /\ ExchangedOnce' /\ Served' /\ TokensGenuine'
  BY <1>4 DEF Exchanged, SignInTypeOK, InFlight, Idle
<1>5. ASSUME NEW r \in Request, Raises(r)
      PROVE Fresh' /\ ExchangedOnce' /\ Served' /\ TokensGenuine'
  BY <1>5 DEF Raises, SignInTypeOK, InFlight, Idle
<1>6. ASSUME NEW r \in Request, Named(r)
      PROVE Fresh' /\ ExchangedOnce' /\ Served' /\ TokensGenuine'
  <2> DEFINE s == calls[r].state
  <2>1. s \in State /\ exchanges[s] = 1
    BY <1>6 DEF Named, SignInTypeOK, InFlight, Idle
  <2>2. visits[s] \in Token
    BY <2>1 DEF SignInTypeOK
  <2>3. users' = [users EXCEPT ![visits[s].user] = visits[s]]
    BY <1>6 DEF Named
  <2>4. TokensGenuine'
    BY <1>6, <2>1, <2>2, <2>3 DEF Named, SignInTypeOK, Token
  <2>5. QED
    BY <1>6, <2>4 DEF Named, SignInTypeOK, InFlight, Idle
<1>7. CASE ServiceRestarts
  BY <1>7 DEF ServiceRestarts, SignInTypeOK, InFlight, Idle
<1>8. CASE UNCHANGED signInVars
  BY <1>8 DEF signInVars
<1>9. QED
  BY <1>1, <1>2, <1>3, <1>4, <1>5, <1>6, <1>7, <1>8 DEF SignInNext, SignInStep

LEMMA SignInInductive == SignInSpec => []SignInInv
<1>1. SignInSpec => SignInInit /\ [][SignInNext]_signInVars
  BY DEF SignInSpec, SignInNext
<1>2. QED
  BY SignInInitOK, SignInStepOK, <1>1, PTL

(* The variables keep their types, for any users, states and requests.     *)
THEOREM SignInTypeCorrect == SignInSpec => []SignInTypeOK
<1>1. SignInInv => SignInTypeOK
  BY DEF SignInInv
<1>2. QED
  BY SignInInductive, <1>1, PTL

(* A code is exchanged once, however many requests come back with its      *)
(* state and whenever the service restarts.                                *)
THEOREM ExchangedOnceCorrect == SignInSpec => []ExchangedOnce
<1>1. SignInInv => ExchangedOnce
  BY DEF SignInInv
<1>2. QED
  BY SignInInductive, <1>1, PTL

(* A stored token was issued to its user, for a visit that was asked for.  *)
THEOREM TokensGenuineCorrect == SignInSpec => []TokensGenuine
<1>1. SignInInv => TokensGenuine
  BY DEF SignInInv
<1>2. QED
  BY SignInInductive, <1>1, PTL

------------------------------------------------------------------------------
(* What the loops over a file come to.  The definitions below are for any  *)
(* set of elements and any sequences.                                      *)

(* Induction over the naturals, for a set of them: every set of naturals   *)
(* that is not empty has a least element.                                  *)
LEMMA NatSetInduction ==
  ASSUME NEW S, 0 \in S, \A n \in Nat : n \in S => n + 1 \in S
  PROVE  Nat \subseteq S
<1> DEFINE T == Nat \ S
<1> SUFFICES ASSUME T # {} PROVE FALSE
  OBVIOUS
<1>1. \E x \in T : \A y \in T : ~ (<<y, x>> \in OpToRel(<, Nat))
  <2>1. T \subseteq Nat
    OBVIOUS
  <2> HIDE DEF T
  <2>2. QED
    BY <2>1, NatLessThanWellFounded, WFMin
<1>2. PICK x \in T : \A y \in T : ~ (<<y, x>> \in OpToRel(<, Nat))
  BY <1>1
<1>3. \A y \in T : ~(y < x)
  BY <1>2 DEF OpToRel
<1>4. x \in Nat /\ x # 0
  OBVIOUS
<1>5. x - 1 \in Nat /\ x - 1 < x /\ x = (x - 1) + 1
  BY <1>4
<1>6. QED
  BY <1>3, <1>5

(* f[i] is what the first i of n sequences come to.                        *)
Flattens(f, seqs, n) ==
    f = [i \in 1..n |-> IF i = 1 THEN seqs[i] ELSE f[i-1] \o seqs[i]]

LEMMA FlattensExists ==
  ASSUME NEW seqs, NEW m \in Nat
  PROVE  \E f : Flattens(f, seqs, m)
<1> DEFINE S == {n \in Nat : \E f : Flattens(f, seqs, n)}
<1>1. 0 \in S
  <2>1. [i \in 1..0 |-> IF i = 1 THEN seqs[i] ELSE (<<>>)[i-1] \o seqs[i]] = <<>>
    OBVIOUS
  <2>2. QED
    BY <2>1 DEF Flattens
<1>2. ASSUME NEW n \in Nat, n \in S PROVE n + 1 \in S
  <2>1. PICK f : Flattens(f, seqs, n)
    BY <1>2
  <2> DEFINE g == [i \in 1..(n+1) |-> IF i = 1 THEN seqs[i] ELSE f[i-1] \o seqs[i]]
  <2>2. \A i \in 1..n : f[i] = IF i = 1 THEN seqs[i] ELSE f[i-1] \o seqs[i]
    BY <2>1 DEF Flattens
  <2>3. \A i \in 1..n : g[i] = f[i]
    BY <2>2
  <2>4. \A i \in 1..(n+1) : i # 1 => i - 1 \in 1..n
    OBVIOUS
  <2>5. \A i \in 1..(n+1) : g[i] = IF i = 1 THEN seqs[i] ELSE g[i-1] \o seqs[i]
    BY <2>3, <2>4
  <2>6. g = [i \in 1..(n+1) |-> IF i = 1 THEN seqs[i] ELSE g[i-1] \o seqs[i]]
    BY <2>5
  <2> HIDE DEF g
  <2>7. Flattens(g, seqs, n + 1)
    BY <2>6 DEF Flattens
  <2>8. \E h : Flattens(h, seqs, n + 1)
    BY <2>7
  <2>9. QED
    BY <2>8
<1> HIDE DEF S
<1>3. Nat \subseteq S
  BY <1>1, <1>2, NatSetInduction
<1>4. QED
  BY <1>3 DEF S

LEMMA FlattenSeqIs ==
  ASSUME NEW seqs, Len(seqs) \in Nat, Len(seqs) # 0
  PROVE  \E f : Flattens(f, seqs, Len(seqs)) /\ FlattenSeq(seqs) = f[Len(seqs)]
<1> DEFINE f == CHOOSE f : Flattens(f, seqs, Len(seqs))
<1>1. Flattens(f, seqs, Len(seqs))
  BY FlattensExists
<1>2. FlattenSeq(seqs) = f[Len(seqs)]
  BY DEF FlattenSeq, Flattens
<1>3. QED
  BY <1>1, <1>2

(* The places of an element in a sequence are finitely many, those in a    *)
(* concatenation are the ones in both its parts.                           *)
LEMMA PlacesFinite ==
  ASSUME NEW S, NEW s \in Seq(S), NEW x
  PROVE  IsFiniteSet(Places(s, x)) /\ Cardinality(Places(s, x)) \in Nat
<1>1. IsFiniteSet(1..Len(s))
  BY FS_Interval
<1>2. Places(s, x) \subseteq 1..Len(s)
  BY DEF Places
<1>3. QED
  BY <1>1, <1>2, FS_Subset, FS_CardinalityType

LEMMA PlacesConcat ==
  ASSUME NEW S, NEW s \in Seq(S), NEW t \in Seq(S), NEW x
  PROVE  Cardinality(Places(s \o t, x)) = Cardinality(Places(s, x)) + Cardinality(Places(t, x))
<1> DEFINE shifted == {k \in (Len(s) + 1)..(Len(s) + Len(t)) : (s \o t)[k] = x}
           shift == [k \in Places(t, x) |-> Len(s) + k]
<1>1. /\ s \o t \in Seq(S) /\ Len(s \o t) = Len(s) + Len(t)
      /\ \A i \in 1..(Len(s) + Len(t)) :
            (s \o t)[i] = IF i <= Len(s) THEN s[i] ELSE t[i - Len(s)]
  BY ConcatProperties
<1>2. Places(s \o t, x) = Places(s, x) \union shifted
  <2>1. DOMAIN (s \o t) = 1..(Len(s) + Len(t)) /\ DOMAIN s = 1..Len(s)
    BY <1>1
  <2>2. \A k : k \in 1..(Len(s) + Len(t)) <=> k \in 1..Len(s) \/ k \in (Len(s) + 1)..(Len(s) + Len(t))
    OBVIOUS
  <2>3. \A k \in 1..Len(s) : (s \o t)[k] = s[k]
    BY <1>1
  <2> HIDE DEF shift
  <2>4. QED
    BY <2>1, <2>2, <2>3 DEF Places
<1>3. Places(s, x) \intersect shifted = {}
  BY DEF Places
<1>4. shift \in Bijection(Places(t, x), shifted)
  <2>1. \A k \in Places(t, x) : Len(s) + k \in shifted
    BY <1>1 DEF Places
  <2>2. \A m \in shifted : m - Len(s) \in Places(t, x) /\ m = Len(s) + (m - Len(s))
    BY <1>1 DEF Places
  <2>3. \A k \in Places(t, x) : k \in Nat
    BY DEF Places
  <2>4. \A k, m \in Places(t, x) : shift[k] = shift[m] => k = m
    BY <2>3
  <2> HIDE DEF shifted
  <2>5. shift \in [Places(t, x) -> shifted]
    BY <2>1
  <2>6. \A m \in shifted : \E k \in Places(t, x) : shift[k] = m
    BY <2>2
  <2> HIDE DEF shift
  <2>7. QED
    BY <2>4, <2>5, <2>6 DEF Bijection, Injection, Surjection, IsInjective
<1>5. IsFiniteSet(shifted) /\ Cardinality(shifted) = Cardinality(Places(t, x))
  <2> HIDE DEF shift, shifted
  <2>1. ExistsBijection(Places(t, x), shifted)
    BY <1>4 DEF ExistsBijection
  <2>2. QED
    BY <2>1, PlacesFinite, FS_Bijection
<1> HIDE DEF shift, shifted
<1>6. Cardinality(Places(s, x) \union shifted) = Cardinality(Places(s, x)) + Cardinality(shifted)
                                                  - Cardinality(Places(s, x) \intersect shifted)
  BY <1>5, PlacesFinite, FS_Union
<1>7. Cardinality(Places(s, x) \intersect shifted) = 0
  BY <1>3, FS_EmptySet
<1>8. Cardinality(Places(s, x)) \in Nat /\ Cardinality(Places(t, x)) \in Nat
  BY PlacesFinite
<1>9. QED
  BY <1>2, <1>5, <1>6, <1>7, <1>8

LEMMA ColumnCounts ==
  ASSUME NEW S, NEW s \in Seq(S), NEW i, NEW x
  PROVE  /\ IsFiniteSet({i} \X Places(s, x))
         /\ Cardinality({i} \X Places(s, x)) = Cardinality(Places(s, x))
<1>1. IsFiniteSet({i}) /\ Cardinality({i}) = 1
  BY FS_Singleton
<1>2. IsFiniteSet(Places(s, x)) /\ Cardinality(Places(s, x)) \in Nat
  BY PlacesFinite
<1>3. /\ IsFiniteSet({i} \X Places(s, x))
      /\ Cardinality({i} \X Places(s, x)) = Cardinality({i}) * Cardinality(Places(s, x))
  BY <1>1, <1>2, FS_Product
<1>4. \A m \in Nat : 1 * m = m
  OBVIOUS
<1>5. QED
  BY <1>1, <1>2, <1>3, <1>4

\* The members of the first n sets of a family.
Members(R, n) == UNION {R[i] : i \in 1..n}

(* What FlattenSeq returns: its elements are those of the sequences, and   *)
(* any of them is in it as often as in all of them.  R[i] is a set that    *)
(* has a member for each time x is in the i-th sequence.                   *)
LEMMA FlattenSeqCounts ==
  ASSUME NEW S, NEW seqs \in Seq(Seq(S)), NEW x, NEW R,
         \A i \in 1..Len(seqs) : /\ IsFiniteSet(R[i])
                                  /\ Cardinality(R[i]) = Cardinality(Places(seqs[i], x)),
         \A i, k \in 1..Len(seqs) : i # k => R[i] \intersect R[k] = {}
  PROVE  /\ FlattenSeq(seqs) \in Seq(S)
         /\ IsFiniteSet(Members(R, Len(seqs)))
         /\ Cardinality(Members(R, Len(seqs))) = Cardinality(Places(FlattenSeq(seqs), x))
<1>1. CASE Len(seqs) = 0
  <2>1. FlattenSeq(seqs) = <<>>
    BY <1>1, EmptySeq, LenProperties DEF FlattenSeq
  <2>2. Places(<<>>, x) = {} /\ Members(R, 0) = {}
    BY DEF Places, Members
  <2>3. <<>> \in Seq(S)
    OBVIOUS
  <2>4. Members(R, Len(seqs)) = {} /\ Places(FlattenSeq(seqs), x) = {}
    BY <1>1, <2>1, <2>2
  <2>5. QED
    BY <2>1, <2>3, <2>4, FS_EmptySet
<1>2. CASE Len(seqs) # 0
  <2>0. Len(seqs) \in Nat
    OBVIOUS
  <2>1. PICK f : Flattens(f, seqs, Len(seqs)) /\ FlattenSeq(seqs) = f[Len(seqs)]
    BY <1>2, <2>0, FlattenSeqIs
  <2> DEFINE U(n) == Members(R, n)
             Counts(n) == /\ f[n] \in Seq(S)
                          /\ IsFiniteSet(U(n))
                          /\ Cardinality(U(n)) = Cardinality(Places(f[n], x))
             N == {n \in Nat : n \in 1..Len(seqs) => Counts(n)}
  <2>2. \A i \in 1..Len(seqs) : f[i] = IF i = 1 THEN seqs[i] ELSE f[i-1] \o seqs[i]
    BY <2>1 DEF Flattens
  <2>3. 0 \in N
    OBVIOUS
  <2>4. ASSUME NEW n \in Nat, n \in N PROVE n + 1 \in N
    <3> SUFFICES ASSUME n + 1 \in 1..Len(seqs) PROVE Counts(n + 1)
      OBVIOUS
    <3>1. seqs[n + 1] \in Seq(S) /\ IsFiniteSet(R[n + 1])
      BY <2>0
    <3>2. U(n + 1) = U(n) \union R[n + 1]
      <4>1. 1..(n + 1) = (1..n) \union {n + 1}
        OBVIOUS
      <4>2. QED
        BY <4>1 DEF Members
    <3>3. CASE n = 0
      <4>1. U(n) = {}
        BY <3>3 DEF Members
      <4>2. f[n + 1] = seqs[n + 1]
        BY <2>2, <3>3
      <4> HIDE DEF U
      <4>3. U(n + 1) = R[n + 1]
        BY <3>2, <4>1
      <4>4. QED
        BY <3>1, <4>2, <4>3
    <3>4. CASE n # 0
      <4>0. n \in 1..Len(seqs) /\ n + 1 # 1 /\ (n + 1) - 1 = n
        BY <2>0, <3>4
      <4>1. Counts(n)
        <5> HIDE DEF Counts
        <5>1. QED
          BY <2>4, <4>0
      <4>2. f[n + 1] = f[n] \o seqs[n + 1]
        BY <2>2, <4>0
      <4>3. U(n) \intersect R[n + 1] = {}
        <5>1. \A i \in 1..n : i \in 1..Len(seqs) /\ i # n + 1
          BY <2>0
        <5>2. \A i \in 1..n : R[i] \intersect R[n + 1] = {}
          BY <5>1
        <5>3. QED
          BY <5>2 DEF Members
      <4> HIDE DEF U
      <4>4. f[n + 1] \in Seq(S)
        BY <3>1, <4>1, <4>2, ConcatProperties
      <4>5. Cardinality(Places(f[n + 1], x))
              = Cardinality(Places(f[n], x)) + Cardinality(Places(seqs[n + 1], x))
        BY <3>1, <4>1, <4>2, PlacesConcat
      <4>6. /\ IsFiniteSet(U(n + 1))
            /\ Cardinality(U(n + 1)) = Cardinality(U(n)) + Cardinality(R[n + 1])
                                          - Cardinality(U(n) \intersect R[n + 1])
        <5>1. IsFiniteSet(U(n)) /\ IsFiniteSet(R[n + 1])
          BY <3>1, <4>1
        <5>2. /\ IsFiniteSet(U(n) \union R[n + 1])
              /\ Cardinality(U(n) \union R[n + 1]) = Cardinality(U(n)) + Cardinality(R[n + 1])
                                                      - Cardinality(U(n) \intersect R[n + 1])
          BY <5>1, FS_Union
        <5>3. QED
          BY <3>2, <5>2
      <4>7. Cardinality(U(n) \intersect R[n + 1]) = 0
        BY <4>3, FS_EmptySet
      <4>8. Cardinality(U(n)) \in Nat /\ Cardinality(R[n + 1]) \in Nat
        BY <4>1, FS_CardinalityType
      <4>9. Cardinality(U(n + 1)) = Cardinality(Places(f[n + 1], x))
        BY <4>1, <4>5, <4>6, <4>7, <4>8
      <4>10. QED
        BY <4>4, <4>6, <4>9
    <3>5. QED
      BY <3>3, <3>4
  <2> HIDE DEF N
  <2>5. Nat \subseteq N
    BY <2>3, <2>4, NatSetInduction
  <2>6. Len(seqs) \in N
    BY <2>0, <2>5
  <2>7. Counts(Len(seqs))
    BY <1>2, <2>0, <2>6 DEF N
  <2>8. QED
    BY <2>1, <2>7
<1>3. QED
  BY <1>1, <1>2

LEMMA FlattenSeqType ==
  ASSUME NEW S, NEW seqs \in Seq(Seq(S))
  PROVE  FlattenSeq(seqs) \in Seq(S)
<1> DEFINE R == [i \in 1..Len(seqs) |-> {i} \X Places(seqs[i], 0)]
<1>1. ASSUME NEW i \in 1..Len(seqs)
      PROVE  /\ IsFiniteSet(R[i])
             /\ Cardinality(R[i]) = Cardinality(Places(seqs[i], 0))
  <2>1. seqs[i] \in Seq(S)
    OBVIOUS
  <2>2. QED
    BY <2>1, ColumnCounts
<1>2. \A i, k \in 1..Len(seqs) : i # k => R[i] \intersect R[k] = {}
  OBVIOUS
<1> HIDE DEF R
<1>3. QED
  BY <1>1, <1>2, FlattenSeqCounts

(* A list appended n times.                                                *)
LEMMA RepeatCounts ==
  ASSUME NEW S, NEW s \in Seq(S), NEW n \in Nat, NEW x
  PROVE  /\ FlattenSeq([k \in 1..n |-> s]) \in Seq(S)
         /\ Cardinality(Places(FlattenSeq([k \in 1..n |-> s]), x)) = n * Cardinality(Places(s, x))
<1> DEFINE seqs == [k \in 1..n |-> s]
           R == [i \in 1..n |-> {i} \X Places(s, x)]
<1>1. seqs \in Seq(Seq(S)) /\ Len(seqs) = n
  BY IsASeq
<1>2. \A i \in 1..n : IsFiniteSet(R[i]) /\ Cardinality(R[i]) = Cardinality(Places(seqs[i], x))
  BY ColumnCounts
<1>3. \A i, k \in 1..n : i # k => R[i] \intersect R[k] = {}
  OBVIOUS
<1>4. Members(R, n) = (1..n) \X Places(s, x)
  BY DEF Members
<1>5. Cardinality((1..n) \X Places(s, x)) = n * Cardinality(Places(s, x))
  <2>1. IsFiniteSet(1..n) /\ Cardinality(1..n) = n
    BY FS_Interval
  <2>2. QED
    BY <2>1, PlacesFinite, FS_Product
<1> HIDE DEF seqs, R
<1>6. /\ FlattenSeq(seqs) \in Seq(S)
      /\ Cardinality(Members(R, n)) = Cardinality(Places(FlattenSeq(seqs), x))
  <2>1. ASSUME NEW i \in 1..Len(seqs)
        PROVE  /\ IsFiniteSet(R[i])
               /\ Cardinality(R[i]) = Cardinality(Places(seqs[i], x))
    BY <1>1, <1>2
  <2>4. \A i, k \in 1..Len(seqs) : i # k => R[i] \intersect R[k] = {}
    BY <1>1, <1>3
  <2>5. seqs \in Seq(Seq(S))
    BY <1>1
  <2>2. /\ FlattenSeq(seqs) \in Seq(S)
        /\ Cardinality(Members(R, Len(seqs)))
              = Cardinality(Places(FlattenSeq(seqs), x))
    BY <2>1, <2>4, <2>5, FlattenSeqCounts
  <2>3. QED
    BY <1>1, <2>2
<1>7. QED
  BY <1>4, <1>5, <1>6 DEF seqs

LEMMA TripleCounts ==
  ASSUME NEW A, IsFiniteSet(A), NEW B, IsFiniteSet(B), NEW i
  PROVE  /\ IsFiniteSet({i} \X A \X B)
         /\ Cardinality({i} \X A \X B) = Cardinality(A) * Cardinality(B)
<1> DEFINE f == [pair \in A \X B |-> <<i, pair[1], pair[2]>>]
<1>1. f \in [A \X B -> {i} \X A \X B]
  OBVIOUS
<1>2. \A x, y \in A \X B : f[x] = f[y] => x = y
  OBVIOUS
<1>3. \A z \in {i} \X A \X B : \E x \in A \X B : f[x] = z
  <2>1. \A z \in {i} \X A \X B : <<z[2], z[3]>> \in A \X B /\ f[<<z[2], z[3]>>] = z
    OBVIOUS
  <2>2. QED
    BY <2>1
<1> HIDE DEF f
<1>4. f \in Bijection(A \X B, {i} \X A \X B)
  BY <1>1, <1>2, <1>3 DEF Bijection, Injection, Surjection, IsInjective
<1>5. IsFiniteSet(A \X B) /\ Cardinality(A \X B) = Cardinality(A) * Cardinality(B)
  BY FS_Product
<1>6. ExistsBijection(A \X B, {i} \X A \X B)
  BY <1>4 DEF ExistsBijection
<1>7. QED
  BY <1>5, <1>6, FS_Bijection

(* The jobs of a project and an event type are those its matrices mention, *)
(* each as often as they do.                                               *)
LEMMA ExpandedCounts ==
  ASSUME IsFile(file), NEW p \in Project, NEW t \in EventTypes
  PROVE  /\ Expanded(p, t) \in Seq(Job)
         /\ t \in LoadedTypes => \A j \in Job :
               Cardinality(Places(Expanded(p, t), j)) = Cardinality(Mentions(p, t, j))
<1>1. CASE t \notin LoadedTypes
  <2>1. Expanded(p, t) = <<>>
    BY <1>1 DEF Expanded
  <2>2. QED
    BY <1>1, <2>1, EmptySeq
<1>2. CASE t \in LoadedTypes
  <2> DEFINE ms == file.matrices
             times(i) == Cardinality(Places(ms[i].projects, p))
             list(i) == ms[i].lists[t]
             listed(i) == FlattenSeq([k \in 1..times(i) |-> list(i)])
             seqs == [i \in DOMAIN ms |-> listed(i)]
  <2>1. Expanded(p, t) = FlattenSeq(seqs)
    BY <1>2 DEF Expanded
  <2>2. ms \in Seq(Matrix)
    BY DEF IsFile
  <2>3. ASSUME NEW i \in DOMAIN ms
        PROVE  /\ ms[i].projects \in Seq(Project) /\ list(i) \in Seq(Job)
               /\ times(i) \in Nat /\ IsFiniteSet(Places(ms[i].projects, p))
    <3>1. ms[i] \in Matrix
      BY <2>2
    <3>2. ms[i].projects \in Seq(Project) /\ list(i) \in Seq(Job)
      BY <3>1 DEF Matrix
    <3>3. QED
      BY <3>2, PlacesFinite
  <2>4. ASSUME NEW i \in DOMAIN ms, NEW j
        PROVE  /\ listed(i) \in Seq(Job)
               /\ Cardinality(Places(listed(i), j)) = times(i) * Cardinality(Places(list(i), j))
    <3> HIDE DEF times, list
    <3>1. QED
      BY <2>3, RepeatCounts
  <2>5. seqs \in Seq(Seq(Job)) /\ Len(seqs) = Len(ms) /\ DOMAIN ms = 1..Len(ms)
    <3> HIDE DEF listed, ms
    <3>1. DOMAIN ms = 1..Len(ms) /\ Len(ms) \in Nat
      BY <2>2
    <3>2. \A i \in 1..Len(ms) : listed(i) \in Seq(Job)
      BY <2>4, <3>1
    <3>3. QED
      BY <3>1, <3>2, IsASeq
  <2>6. ASSUME NEW j \in Job
        PROVE  /\ FlattenSeq(seqs) \in Seq(Job)
               /\ Cardinality(Places(FlattenSeq(seqs), j)) = Cardinality(Mentions(p, t, j))
    <3> DEFINE R == [i \in DOMAIN ms |-> {i} \X Places(ms[i].projects, p) \X Places(list(i), j)]
    <3>1. ASSUME NEW i \in DOMAIN ms
          PROVE  IsFiniteSet(R[i]) /\ Cardinality(R[i]) = Cardinality(Places(seqs[i], j))
      <4> DEFINE A == Places(ms[i].projects, p)
                 B == Places(list(i), j)
      <4>1. list(i) \in Seq(Job) /\ IsFiniteSet(A) /\ times(i) = Cardinality(A)
        BY <2>3
      <4>2. IsFiniteSet(B)
        BY <4>1, PlacesFinite
      <4>3. Cardinality(Places(seqs[i], j)) = Cardinality(A) * Cardinality(B)
        BY <2>4, <4>1
      <4>4. R[i] = {i} \X A \X B
        OBVIOUS
      <4> HIDE DEF A, B, R, seqs
      <4>5. IsFiniteSet({i} \X A \X B) /\ Cardinality({i} \X A \X B) = Cardinality(A) * Cardinality(B)
        BY <4>1, <4>2, TripleCounts
      <4>6. QED
        BY <4>3, <4>4, <4>5
    <3>2. \A i, k \in DOMAIN ms : i # k => R[i] \intersect R[k] = {}
      OBVIOUS
    <3>3. Members(R, Len(ms)) = Mentions(p, t, j)
      <4>1. Members(R, Len(ms)) = UNION {R[i] : i \in DOMAIN ms}
        <5> HIDE DEF R, ms
        <5>1. QED
          BY <2>5 DEF Members
      <4>2. QED
        BY <4>1 DEF Mentions
    <3> HIDE DEF R, seqs, ms
    <3>4. seqs \in Seq(Seq(Job)) /\ DOMAIN ms = 1..Len(seqs)
      BY <2>5
    <3>5. ASSUME NEW i \in 1..Len(seqs)
          PROVE  IsFiniteSet(R[i]) /\ Cardinality(R[i]) = Cardinality(Places(seqs[i], j))
      BY <3>1, <3>4
    <3>6. \A i, k \in 1..Len(seqs) : i # k => R[i] \intersect R[k] = {}
      BY <3>2, <3>4
    <3>7. /\ FlattenSeq(seqs) \in Seq(Job)
          /\ Cardinality(Members(R, Len(seqs)))
                = Cardinality(Places(FlattenSeq(seqs), j))
      BY <3>4, <3>5, <3>6, FlattenSeqCounts
    <3>8. QED
      BY <3>3, <3>4, <3>7
  <2>7. QED
    BY <1>2, <2>1, <2>5, <2>6, FlattenSeqType
<1>3. QED
  BY <1>1, <1>2

------------------------------------------------------------------------------
(* The service and its configuration.                                      *)

(* Every step of the service is one of signing in, a restart of it, or     *)
(* none of its business.                                                   *)
THEOREM SignsIn == Spec => SignInSpec
<1>1. Init => SignInInit
  BY DEF Init
<1>2. [Next]_vars => [SignInStep \/ ServiceRestarts]_signInVars
  BY DEF Next, vars, Start, SignIn, Restart, PullRequest, Push, Emit
<1>3. QED
  BY <1>1, <1>2, PTL DEF Spec, SignInSpec

(* The same, of the service as a whole.                                    *)
THEOREM ServiceSignInCorrect == Spec => [](ExchangedOnce /\ TokensGenuine)
  BY SignsIn, ExchangedOnceCorrect, TokensGenuineCorrect, PTL

(* Event.__init__ keeps the jobs of get_jobs, and these are of the type    *)
(* the file gives them.                                                    *)
LEMMA ServiceTypeInit == Init => TypeOK
<1> SUFFICES ASSUME Init PROVE TypeOK
  OBVIOUS
<1>1. SignInTypeOK
  BY SignInInitOK DEF Init, SignInInv
<1>2. jobs \in [Project -> [EventTypes -> Seq(Job)]]
  BY EmptySeq DEF Init, ConfigInit, Empty
<1>3. QED
  BY <1>1, <1>2 DEF Init, ConfigInit, Empty, TypeOK, ConfigTypeOK

LEMMA ServiceTypeStep == TypeOK /\ [Next]_vars => TypeOK'
<1> SUFFICES ASSUME TypeOK, [Next]_vars PROVE TypeOK'
  OBVIOUS
<1>1. SignInTypeOK'
  <2>1. [SignInNext]_signInVars
    BY DEF Next, vars, Start, SignIn, Restart, PullRequest, Push, Emit, SignInNext
  <2>2. QED
    BY <2>1, SignInTypeStep DEF TypeOK
<1>2. CASE Start
  <2>1. IsFile(file)
    BY ConfigAssumption DEF TypeOK, ConfigTypeOK
  <2>2. \A p \in Project, t \in EventTypes : Expanded(p, t) \in Seq(Job)
    BY <2>1, ExpandedCounts
  <2>3. jobs' \in [Project -> [EventTypes -> Seq(Job)]]
    BY <1>2, <2>2 DEF Start, Load, TypeOK, ConfigTypeOK
  <2>4. QED
    BY <1>1, <1>2, <2>3 DEF Start, Load, TypeOK, ConfigTypeOK, Entered
<1>3. CASE SignIn
  BY <1>1, <1>3 DEF SignIn, TypeOK, ConfigTypeOK, configVars
<1>4. CASE Restart
  <2>1. jobs' \in [Project -> [EventTypes -> Seq(Job)]]
    BY <1>4, EmptySeq DEF Restart
  <2>2. QED
    BY <1>1, <1>4, <2>1 DEF Restart, TypeOK, ConfigTypeOK
<1>5. ASSUME NEW p \in Project, Push(p) PROVE TypeOK'
  <2>1. hook' \in Hook
    BY <1>5, EmptySeq DEF Push, Hook, EventTypes
  <2>2. QED
    BY <1>1, <1>5, <2>1 DEF Push, TypeOK, ConfigTypeOK, configVars
<1>6. ASSUME NEW p \in Project, NEW action \in Action, PullRequest(p, action) PROVE TypeOK'
  <2>1. PICK t \in EventTypes : Emit(p, t)
    BY <1>6 DEF PullRequest, EventTypes
  <2>2. jobs[p][t] \in Seq(Job)
    BY DEF TypeOK, ConfigTypeOK
  <2>3. hook' \in Hook
    BY <2>1, <2>2 DEF Emit, Hook
  <2>4. QED
    BY <1>1, <2>1, <2>3 DEF Emit, GetJobs, TypeOK, ConfigTypeOK
<1>7. CASE UNCHANGED vars
  BY <1>1, <1>7 DEF vars, configVars, TypeOK, ConfigTypeOK
<1>8. QED
  BY <1>2, <1>3, <1>4, <1>5, <1>6, <1>7 DEF Next

(* The variables keep their types, for any files and any sign-ins.         *)
THEOREM TypeCorrect == Spec => []TypeOK
  BY ServiceTypeInit, ServiceTypeStep, PTL DEF Spec

(* The jobs of a list that can be run.                                     *)
Runnable(list) ==
    \A i \in DOMAIN list : list[i] \in DOMAIN file.jobs /\ Valid(file.jobs[list[i]])

(* A configuration is only accepted when every job of its matrices is one  *)
(* of its jobs, and these name what exists; the lists of an object that is *)
(* new or was refused are not used.                                        *)
LoadedRunnable ==
    config = "loaded" => \A p \in Project, t \in EventTypes : Runnable(jobs[p][t])

ConfigInv == LoadedRunnable /\ Runnable(hook.jobs)

(* What load() accepts.                                                    *)
LEMMA ExpandedRunnable ==
  ASSUME ~UnknownJob, \A j \in DOMAIN file.jobs : Valid(file.jobs[j]),
         NEW p \in Project, NEW t \in EventTypes
  PROVE  Runnable(Expanded(p, t))
<1>1. CASE t \in LoadedTypes
  <2>1. ToSet(Expanded(p, t)) \subseteq DOMAIN file.jobs
    BY <1>1 DEF UnknownJob
  <2>2. \A i \in DOMAIN Expanded(p, t) : Expanded(p, t)[i] \in ToSet(Expanded(p, t))
    BY DEF ToSet
  <2>3. QED
    BY <2>1, <2>2 DEF Runnable
<1>2. CASE t \notin LoadedTypes
  <2>1. Expanded(p, t) = <<>>
    BY <1>2 DEF Expanded
  <2>2. QED
    BY <2>1 DEF Runnable
<1>3. QED
  BY <1>1, <1>2

LEMMA ConfigInvInit == Init => ConfigInv
<1> SUFFICES ASSUME Init PROVE ConfigInv
  OBVIOUS
<1>1. config = "none" /\ hook.jobs = <<>>
  BY DEF Init, ConfigInit, Empty, NoHook
<1>2. QED
  BY <1>1 DEF ConfigInv, LoadedRunnable, Runnable

LEMMA ConfigInvStep == ConfigInv /\ [Next]_vars => ConfigInv'
<1> SUFFICES ASSUME ConfigInv, [Next]_vars PROVE ConfigInv'
  OBVIOUS
<1>1. file' = file
  BY DEF Next, vars, configVars, Start, Load, SignIn, Restart, PullRequest, Push, Emit, GetJobs
<1>3. CASE UNCHANGED <<config, jobs, hook>>
  BY <1>1, <1>3 DEF ConfigInv, LoadedRunnable, Runnable
<1>4. CASE Start
  <2>1. hook' = hook
    BY <1>4 DEF Start
  <2>2. CASE config' = "refused"
    BY <1>1, <2>1, <2>2 DEF ConfigInv, LoadedRunnable, Runnable
  <2>3. CASE config' # "refused"
    <3>1. /\ ~UnknownJob /\ \A j \in DOMAIN file.jobs : Valid(file.jobs[j])
          /\ jobs' = [p \in Project |-> [t \in EventTypes |-> Expanded(p, t)]]
      BY <1>4, <2>3 DEF Start, Load
    <3>2. \A p \in Project, t \in EventTypes : Runnable(jobs'[p][t])
      BY <3>1, ExpandedRunnable
    <3>3. LoadedRunnable'
      BY <1>1, <3>2 DEF LoadedRunnable, Runnable
    <3>4. QED
      BY <1>1, <2>1, <3>3 DEF ConfigInv, Runnable
  <2>4. QED
    BY <2>2, <2>3
<1>5. CASE Restart
  <2>1. config' = "none" /\ hook'.jobs = <<>>
    BY <1>5 DEF Restart, NoHook
  <2>2. QED
    BY <2>1 DEF ConfigInv, LoadedRunnable, Runnable
<1>6. ASSUME NEW p \in Project, Push(p) PROVE ConfigInv'
  <2>1. hook'.jobs = <<>> /\ config' = config /\ jobs' = jobs
    BY <1>6 DEF Push, configVars
  <2>2. QED
    BY <1>1, <2>1 DEF ConfigInv, LoadedRunnable, Runnable
<1>7. ASSUME NEW p \in Project, NEW action \in Action, PullRequest(p, action) PROVE ConfigInv'
  <2>1. config = "loaded" /\ config' = config /\ jobs' = jobs
    BY <1>7 DEF PullRequest, Emit, GetJobs
  <2>2. PICK t \in EventTypes : hook'.jobs = jobs[p][t]
    BY <1>7 DEF PullRequest, Emit, EventTypes
  <2>3. Runnable(hook'.jobs)
    BY <2>1, <2>2 DEF ConfigInv, LoadedRunnable
  <2>4. QED
    BY <1>1, <2>1, <2>3 DEF ConfigInv, LoadedRunnable, Runnable
<1>8. QED
  BY <1>3, <1>4, <1>5, <1>6, <1>7 DEF Next, vars, configVars, SignIn

(* Every job an event starts can be run: its provider has its cluster, the *)
(* cluster its machine, and its script is defined.                         *)
THEOREM JobsRunnableCorrect == Spec => []JobsRunnable
<1>1. ConfigInv => JobsRunnable
  BY DEF ConfigInv, Runnable, JobsRunnable, Valid
<1>2. QED
  BY <1>1, ConfigInvInit, ConfigInvStep, PTL DEF Spec


(* A list has each job as often as the matrices mention it for a change of *)
(* the project.                                                            *)
Serves(list, p) ==
    \A j \in Job : Cardinality(Places(list, j)) = Cardinality(Mentions(p, "cr", j))

ServedInv ==
    /\ config = "loaded" => \A p \in Project : Serves(jobs[p]["cr"], p)
    /\ hook.type = "cr" => Serves(hook.jobs, hook.project)

LEMMA ServedInvInit == Init => ServedInv
  BY DEF Init, ConfigInit, Empty, NoHook, ServedInv

LEMMA ServedInvStep == TypeOK /\ ServedInv /\ [Next]_vars => ServedInv'
<1> SUFFICES ASSUME TypeOK, ServedInv, [Next]_vars PROVE ServedInv'
  OBVIOUS
<1>1. file' = file
  BY DEF Next, vars, configVars, Start, Load, SignIn, Restart, PullRequest, Push, Emit, GetJobs
<1>2. \A p, j : Mentions(p, "cr", j)' = Mentions(p, "cr", j)
  BY <1>1 DEF Mentions
<1>3. CASE UNCHANGED <<config, jobs, hook>>
  BY <1>2, <1>3 DEF ServedInv, Serves
<1>4. CASE Start
  <2>1. hook' = hook /\ hook.type = hook'.type
    BY <1>4 DEF Start
  <2>2. config' = "loaded" => \A p \in Project : Serves(jobs'[p]["cr"], p)
    <3> SUFFICES ASSUME config' = "loaded", NEW p \in Project PROVE Serves(jobs'[p]["cr"], p)
      OBVIOUS
    <3>1. jobs'[p]["cr"] = Expanded(p, "cr")
      BY <1>4 DEF Start, Load, EventTypes
    <3>2. IsFile(file)
      BY ConfigAssumption DEF TypeOK, ConfigTypeOK
    <3>3. QED
      BY <3>1, <3>2, ExpandedCounts DEF Serves, EventTypes, LoadedTypes
  <2>3. QED
    BY <1>2, <2>1, <2>2 DEF ServedInv, Serves
<1>5. CASE Restart
  BY <1>5 DEF Restart, NoHook, ServedInv
<1>6. ASSUME NEW p \in Project, Push(p) PROVE ServedInv'
  <2>1. hook'.type # "cr" /\ config' = config /\ jobs' = jobs
    BY <1>6 DEF Push, configVars
  <2>2. QED
    BY <1>2, <2>1 DEF ServedInv, Serves
<1>7. ASSUME NEW p \in Project, NEW action \in Action, PullRequest(p, action) PROVE ServedInv'
  <2>1. config = "loaded" /\ config' = config /\ jobs' = jobs
    BY <1>7 DEF PullRequest, Emit, GetJobs
  <2>2. PICK t \in EventTypes : hook' = [project |-> p, type |-> t, jobs |-> jobs[p][t]]
    BY <1>7 DEF PullRequest, Emit, EventTypes
  <2>3. t = "cr" => Serves(hook'.jobs, hook'.project)
    BY <2>1, <2>2 DEF ServedInv
  <2>4. QED
    BY <1>2, <2>1, <2>2, <2>3 DEF ServedInv, Serves
<1>8. QED
  BY <1>3, <1>4, <1>5, <1>6, <1>7 DEF Next, vars, configVars, SignIn

(* A pull request that is opened, reopened or updated starts each job as   *)
(* often as the matrices mention it for the project, and no other.         *)
THEOREM ChangeRequestServedCorrect == Spec => []ChangeRequestServed
<1>1. ServedInv => ChangeRequestServed
  BY DEF ServedInv, Serves, ChangeRequestServed
<1>2. Init => TypeOK /\ ServedInv
  BY ServiceTypeInit, ServedInvInit
<1>3. TypeOK /\ ServedInv /\ [Next]_vars => (TypeOK /\ ServedInv)'
  BY ServiceTypeStep, ServedInvStep
<1>4. QED
  BY <1>1, <1>2, <1>3, PTL DEF Spec

==============================================================================
