--------------------------- MODULE Treasury_proofs ---------------------------
(***************************************************************************)
(* Proofs about Treasury, for any chain, any wallets, any number of runs   *)
(* and of acts.                                                            *)
(***************************************************************************)
EXTENDS Treasury, SumLemmas

-----------------------------------------------------------------------------
(* Sets of signatures.                                                     *)

LEMMA SigsAreFinite ==
  ASSUME NEW S \in SUBSET Sigs
  PROVE  IsFiniteSet(S) /\ Cardinality(S) \in Nat /\ (Cardinality(S) = 0 <=> S = {})
<1>1. MaxSig \in Int
  BY LedgerAssumption
<1>2. IsFiniteSet(Sigs)
  BY <1>1, FS_Interval DEF Sigs
<1>3. IsFiniteSet(S)
  BY <1>2, FS_Subset
<1> QED BY <1>3, FS_CardinalityType, FS_EmptySet

(* A set of numbers has a least and a greatest member.                     *)
LEMMA MinIsLeast ==
  ASSUME NEW S, \A x \in S : x \in Int, IsFiniteSet(S), S # {}
  PROVE  Min(S) \in S /\ \A x \in S : Min(S) <= x
<1> DEFINE C == {T \in SUBSET S : \E x \in S : T = {y \in S : y <= x}}
<1>1. C \in SUBSET (SUBSET S)
  OBVIOUS
<1>2. C # {}
  <2>1. PICK x \in S : TRUE
    OBVIOUS
  <2>2. {y \in S : y <= x} \in C
    BY <2>1
  <2> QED BY <2>2
<1>3. PICK T \in C : \A U \in C : ~(U \subseteq T /\ U # T)
  <2> HIDE DEF C
  <2> QED BY <1>1, <1>2, MinimalSubset
<1>4. PICK x \in S : T = {y \in S : y <= x}
  BY <1>3
<1>5. \A z \in S : x <= z
  <2> SUFFICES ASSUME NEW z \in S, z < x PROVE FALSE
    OBVIOUS
  <2> DEFINE U == {y \in S : y <= z}
  <2>1. U \in C
    OBVIOUS
  <2>2. x \in Int /\ z \in Int
    OBVIOUS
  <2>3. U \subseteq T
    <3> SUFFICES ASSUME NEW y \in U PROVE y \in T
      OBVIOUS
    <3>1. y \in S /\ y <= z /\ y \in Int /\ z < x
      OBVIOUS
    <3>2. y <= x
      BY <2>2, <3>1
    <3> QED BY <1>4, <3>1, <3>2
  <2>4. x \in T /\ x \notin U
    BY <1>4, <2>2
  <2> HIDE DEF U, C
  <2> QED BY <1>3, <2>1, <2>3, <2>4
<1> QED BY <1>5 DEF Min

LEMMA MaxIsGreatest ==
  ASSUME NEW S, \A x \in S : x \in Int, IsFiniteSet(S), S # {}
  PROVE  Max(S) \in S /\ \A x \in S : Max(S) >= x
<1> DEFINE C == {T \in SUBSET S : \E x \in S : T = {y \in S : y >= x}}
<1>1. C \in SUBSET (SUBSET S)
  OBVIOUS
<1>2. C # {}
  <2>1. PICK x \in S : TRUE
    OBVIOUS
  <2>2. {y \in S : y >= x} \in C
    BY <2>1
  <2> QED BY <2>2
<1>3. PICK T \in C : \A U \in C : ~(U \subseteq T /\ U # T)
  <2> HIDE DEF C
  <2> QED BY <1>1, <1>2, MinimalSubset
<1>4. PICK x \in S : T = {y \in S : y >= x}
  BY <1>3
<1>5. \A z \in S : x >= z
  <2> SUFFICES ASSUME NEW z \in S, z > x PROVE FALSE
    OBVIOUS
  <2> DEFINE U == {y \in S : y >= z}
  <2>1. U \in C
    OBVIOUS
  <2>2. x \in Int /\ z \in Int
    OBVIOUS
  <2>3. U \subseteq T
    <3> SUFFICES ASSUME NEW y \in U PROVE y \in T
      OBVIOUS
    <3>1. y \in S /\ y >= z /\ y \in Int /\ z > x
      OBVIOUS
    <3>2. y >= x
      BY <2>2, <3>1
    <3> QED BY <1>4, <3>1, <3>2
  <2>4. x \in T /\ x \notin U
    BY <1>4, <2>2
  <2> HIDE DEF U, C
  <2> QED BY <1>3, <2>1, <2>3, <2>4
<1> QED BY <1>5 DEF Max

LEMMA SigMin ==
  ASSUME NEW S \in SUBSET Sigs, S # {}
  PROVE  Min(S) \in S /\ \A x \in S : Min(S) <= x
<1>1. \A x \in S : x \in Int
  BY DEF Sigs
<1> QED BY <1>1, SigsAreFinite, MinIsLeast

LEMMA SigMax ==
  ASSUME NEW S \in SUBSET Sigs, S # {}
  PROVE  Max(S) \in S /\ \A x \in S : Max(S) >= x
<1>1. \A x \in S : x \in Int
  BY DEF Sigs
<1> QED BY <1>1, SigsAreFinite, MaxIsGreatest

-----------------------------------------------------------------------------
(* The newest rows of a list.                                              *)

From(S, s) == {t \in S : t >= s}

(* What is newer than one of the newest is among the newest.               *)
LEMMA NewestIsUpward ==
  ASSUME NEW S \in SUBSET Sigs, NEW n \in Nat, NEW s \in Newest(S, n), NEW t \in S, t >= s
  PROVE  t \in Newest(S, n)
<1>1. From(S, t) \subseteq From(S, s) /\ From(S, s) \in SUBSET Sigs
  <2>1. \A x \in S : x \in Int
    BY DEF Sigs
  <2>2. s \in S
    BY DEF Newest
  <2> QED BY <2>1, <2>2 DEF From
<1>2. Cardinality(From(S, t)) <= Cardinality(From(S, s))
  BY <1>1, SigsAreFinite, FS_Subset
<1>3. Cardinality(From(S, t)) \in Nat /\ Cardinality(From(S, s)) \in Nat
  BY <1>1, SigsAreFinite
<1> QED BY <1>2, <1>3 DEF Newest, From

LEMMA NewestIsShort ==
  ASSUME NEW S \in SUBSET Sigs, NEW n \in Nat
  PROVE  Newest(S, n) \subseteq S /\ Cardinality(Newest(S, n)) <= n
<1>1. Newest(S, n) \in SUBSET Sigs /\ Newest(S, n) \subseteq S
  BY DEF Newest
<1>2. CASE Newest(S, n) = {}
  BY <1>1, <1>2, SigsAreFinite
<1>3. CASE Newest(S, n) # {}
  <2> DEFINE m == Min(Newest(S, n))
  <2>1. m \in Newest(S, n) /\ \A t \in Newest(S, n) : m <= t
    BY <1>1, <1>3, SigMin
  <2>2. From(S, m) \in SUBSET Sigs /\ Cardinality(From(S, m)) <= n
    BY <2>1 DEF From, Newest
  <2>3. Newest(S, n) \subseteq From(S, m)
    BY <1>1, <2>1 DEF From, Sigs
  <2>4. Cardinality(Newest(S, n)) <= Cardinality(From(S, m))
    BY <2>2, <2>3, SigsAreFinite, FS_Subset
  <2>5. Cardinality(Newest(S, n)) \in Nat /\ Cardinality(From(S, m)) \in Nat
    BY <1>1, <2>2, SigsAreFinite
  <2> HIDE DEF m
  <2> QED BY <1>1, <2>2, <2>4, <2>5
<1> QED BY <1>2, <1>3

(* What is not among the newest has n of them after it.                    *)
LEMMA NewestIsFull ==
  ASSUME NEW S \in SUBSET Sigs, NEW n \in Nat, NEW s \in S, s \notin Newest(S, n)
  PROVE  /\ Cardinality({t \in Newest(S, n) : t > s}) >= n
         /\ \A t \in Newest(S, n) : t > s
<1> DEFINE Rest == S \ Newest(S, n)
           m == Max(Rest)
           After == {t \in S : t > m}
<1>1. Rest \in SUBSET Sigs /\ Rest # {} /\ s \in Rest
  OBVIOUS
<1>2. m \in Rest /\ \A t \in Rest : m >= t
  BY <1>1, SigMax
<1>3. m \in S /\ ~(Cardinality(From(S, m)) <= n) /\ m \in Sigs /\ s \in Sigs /\ m >= s
  BY <1>1, <1>2 DEF From, Newest
<1> HIDE DEF m, Rest
<1>4. After \in SUBSET Sigs /\ m \notin After /\ From(S, m) = After \cup {m}
  <2>1. \A x \in S : x \in Int
    BY DEF Sigs
  <2> QED BY <1>3, <2>1 DEF From
<1>5. Cardinality(From(S, m)) = Cardinality(After) + 1
  BY <1>4, SigsAreFinite, FS_AddElement
<1>6. Cardinality(After) \in Nat
  BY <1>4, SigsAreFinite
<1>7. After \subseteq {t \in Newest(S, n) : t > s}
  <2> SUFFICES ASSUME NEW t \in After PROVE t \in Newest(S, n) /\ t > s
    OBVIOUS
  <2>1. t \in S /\ t > m /\ t \in Int /\ s \in Int /\ m \in Int
    BY <1>3 DEF Sigs
  <2>2. t \notin Rest
    BY <1>2, <2>1
  <2> QED BY <1>3, <2>1, <2>2 DEF Rest
<1>8. {t \in Newest(S, n) : t > s} \in SUBSET Sigs
  BY DEF Newest
<1>9. Cardinality(After) <= Cardinality({t \in Newest(S, n) : t > s})
      /\ Cardinality({t \in Newest(S, n) : t > s}) \in Nat
  BY <1>7, <1>8, SigsAreFinite, FS_Subset
<1>10. \A t \in Newest(S, n) : t > s
  <2> SUFFICES ASSUME NEW t \in Newest(S, n), t <= s PROVE FALSE
    BY DEF Newest, Sigs
  <2> QED BY NewestIsUpward
<1> QED BY <1>3, <1>5, <1>6, <1>9, <1>10

(* A list shorter than its limit is complete.                              *)
LEMMA ShortIsComplete ==
  ASSUME NEW S \in SUBSET Sigs, NEW n \in Nat, Cardinality(Newest(S, n)) < n
  PROVE  Newest(S, n) = S
<1> SUFFICES ASSUME NEW s \in S, s \notin Newest(S, n) PROVE FALSE
  BY DEF Newest
<1>1. Newest(S, n) \in SUBSET Sigs
  BY DEF Newest
<1>2. {t \in Newest(S, n) : t > s} \subseteq Newest(S, n)
  OBVIOUS
<1>3. /\ Cardinality({t \in Newest(S, n) : t > s}) <= Cardinality(Newest(S, n))
      /\ Cardinality({t \in Newest(S, n) : t > s}) \in Nat
      /\ Cardinality(Newest(S, n)) \in Nat
  BY <1>1, <1>2, SigsAreFinite, FS_Subset
<1> QED BY <1>3, NewestIsFull

-----------------------------------------------------------------------------
(* Money.                                                                  *)

(* The first of the largest transfers is one of them.                      *)
LEMMA LargestIsOne ==
  ASSUME NEW size, IsFiniteSet(DOMAIN size), DOMAIN size # {},
         \A i \in DOMAIN size : i \in Int /\ size[i] \in Int
  PROVE  Largest(size) \in DOMAIN size
<1> DEFINE D == DOMAIN size
           C == {T \in SUBSET D : \E i \in D :
                   T = {j \in D : size[j] > size[i] \/ (size[j] = size[i] /\ j <= i)}}
<1>1. C \in SUBSET (SUBSET D)
  OBVIOUS
<1>2. C # {}
  <2>1. PICK i \in D : TRUE
    OBVIOUS
  <2>2. {j \in D : size[j] > size[i] \/ (size[j] = size[i] /\ j <= i)} \in C
    BY <2>1
  <2> QED BY <2>2
<1>3. PICK T \in C : \A U \in C : ~(U \subseteq T /\ U # T)
  <2>1. IsFiniteSet(D)
    OBVIOUS
  <2> HIDE DEF C, D
  <2> QED BY <1>1, <1>2, <2>1, MinimalSubset
<1>4. PICK i \in D : T = {j \in D : size[j] > size[i] \/ (size[j] = size[i] /\ j <= i)}
  BY <1>3
<1>5. \A j \in D : size[j] < size[i] \/ (size[j] = size[i] /\ i <= j)
  <2> SUFFICES ASSUME NEW j \in D, size[j] > size[i] \/ (size[j] = size[i] /\ j < i) PROVE FALSE
    OBVIOUS
  <2> DEFINE U == {k \in D : size[k] > size[j] \/ (size[k] = size[j] /\ k <= j)}
  <2>1. U \in C
    OBVIOUS
  <2>2. U \subseteq T
    <3> SUFFICES ASSUME NEW k \in U PROVE k \in T
      OBVIOUS
    <3>1. k \in D /\ (size[k] > size[j] \/ (size[k] = size[j] /\ k <= j))
      OBVIOUS
    <3>2. \A x \in D : x \in Int /\ size[x] \in Int
      OBVIOUS
    <3>3. size[k] > size[i] \/ (size[k] = size[i] /\ k <= i)
      <4> HIDE DEF D
      <4> QED BY <3>1, <3>2
    <3> QED BY <1>4, <3>1, <3>3
  <2>3. i \in T /\ i \notin U
    BY <1>4
  <2> HIDE DEF U, C
  <2> QED BY <1>3, <2>1, <2>2, <2>3
<1> QED BY <1>5 DEF Largest

LEMMA PriceIsNat ==
  ASSUME NEW t, t.amount \in Nat
  PROVE  Usd(t) \in Nat
<1>1. CASE t.mint \in DOMAIN Prices
  <2>1. Prices[t.mint] \in Nat
    BY <1>1, LedgerAssumption
  <2> QED BY <1>1, <2>1 DEF Usd
<1>2. CASE t.mint \notin DOMAIN Prices
  BY <1>2 DEF Usd
<1> QED BY <1>1, <1>2

(* What a row is worth.                                                    *)
LEMMA WorthIsNat ==
  ASSUME NEW w \in Wallets, NEW s \in Sigs
  PROVE  Normal[w][s].usd \in Nat
<1> DEFINE raw == Raw[s]
           native == {i \in DOMAIN raw.native : Touches(raw.native[i], w) /\ raw.native[i].amount > 0}
           token  == {i \in DOMAIN raw.token :
                       (Touches(raw.token[i], w) \/ raw.token[i].mint = w) /\ raw.token[i].amount > 0}
           priced == {i \in token : Usd(raw.token[i]) > 0}
           coins  == [i \in native |-> raw.native[i].amount]
           prices == [i \in priced |-> Usd(raw.token[i])]
           sizes  == [i \in token |-> raw.token[i].amount]
           at     == IF priced # {} THEN Largest(prices) ELSE Largest(sizes)
<1>1. /\ IsFiniteSet(DOMAIN raw.native) /\ IsFiniteSet(DOMAIN raw.token)
      /\ \A i \in DOMAIN raw.native : i \in Nat /\ raw.native[i].amount \in Nat
      /\ \A i \in DOMAIN raw.token : i \in Nat /\ raw.token[i].amount \in Nat
  BY LedgerAssumption DEF Amounts
<1>2. IsFiniteSet(native) /\ IsFiniteSet(token) /\ IsFiniteSet(priced)
  BY <1>1, FS_Subset
<1>3. \A i \in DOMAIN raw.token : Usd(raw.token[i]) \in Nat
  BY <1>1, PriceIsNat
<1>4. native # {} => Largest(coins) \in native
  <2>1. DOMAIN coins = native /\ \A i \in native : i \in Int /\ coins[i] \in Int
    BY <1>1
  <2> HIDE DEF coins, native
  <2> QED BY <1>2, <2>1, LargestIsOne
<1>5. priced # {} => Largest(prices) \in priced
  <2>1. DOMAIN prices = priced /\ \A i \in priced : i \in Int /\ prices[i] \in Int
    BY <1>1, <1>3
  <2> HIDE DEF prices, priced
  <2> QED BY <1>2, <2>1, LargestIsOne
<1>6. token # {} => Largest(sizes) \in token
  <2>1. DOMAIN sizes = token /\ \A i \in token : i \in Int /\ sizes[i] \in Int
    BY <1>1
  <2> HIDE DEF sizes, token
  <2> QED BY <1>2, <2>1, LargestIsOne
<1>7. token # {} => at \in DOMAIN raw.token
  BY <1>5, <1>6
<1>8. Normal[w][s].usd = IF token # {} THEN Usd(raw.token[at])
                         ELSE IF native # {} THEN raw.native[Largest(coins)].amount * SolPrice ELSE 0
  BY DEF Normal, normalizeTx
<1>9. native # {} => raw.native[Largest(coins)].amount \in Nat
  BY <1>1, <1>4
<1>10. native # {} => raw.native[Largest(coins)].amount * SolPrice \in Nat
  BY <1>9, LedgerAssumption
<1> HIDE DEF at, coins, native, token
<1> QED BY <1>3, <1>7, <1>8, <1>10

LEMMA TotalIsNat ==
  ASSUME NEW w \in Wallets, NEW S \in SUBSET Sigs
  PROVE  Total(w, S) \in Nat
<1> DEFINE f == [s \in Sigs |-> Normal[w][s].usd]
<1>1. \A s \in S : f[s] \in Nat
  BY WorthIsNat
<1>2. IsFiniteSet(S)
  BY SigsAreFinite
<1>3. Total(w, S) = SumFunctionOnSet(f, S)
  BY DEF Total
<1> HIDE DEF f
<1> QED BY <1>1, <1>2, <1>3, SumNat

LEMMA ShareIsNat ==
  ASSUME NEW a \in Nat, NEW n \in Nat, n > 0
  PROVE  a \div n \in Nat
OBVIOUS

LEMMA AverageIsNat ==
  ASSUME NEW w \in Wallets, NEW S \in SUBSET Sigs
  PROVE  avgAmount(w, S) \in Nat
<1> DEFINE paid == {s \in S : Normal[w][s].usd > 0}
<1>1. paid \in SUBSET Sigs
  OBVIOUS
<1>2. avgAmount(w, S) = IF paid = {} THEN 0 ELSE Total(w, paid) \div Cardinality(paid)
  BY DEF avgAmount
<1> HIDE DEF paid
<1>3. Total(w, paid) \in Nat /\ Cardinality(paid) \in Nat /\ (Cardinality(paid) = 0 <=> paid = {})
  BY <1>1, TotalIsNat, SigsAreFinite
<1>4. paid # {} => Total(w, paid) \div Cardinality(paid) \in Nat
  BY <1>3, ShareIsNat
<1> QED BY <1>2, <1>4

LEMMA DueIsNat ==
  ASSUME NEW w \in Wallets, NEW S \in SUBSET Addresses, NEW of,
         \A a \in Addresses : of[a].of \in SUBSET Sigs
  PROVE  SumFunctionOnSet([a \in Addresses |-> avgAmount(w, of[a].of)], S) \in Nat
<1> DEFINE f == [a \in Addresses |-> avgAmount(w, of[a].of)]
<1>1. \A a \in S : f[a] \in Nat
  BY AverageIsNat
<1>2. IsFiniteSet(S)
  BY LedgerAssumption, FS_Subset
<1>3. SumFunctionOnSet(f, S) \in Nat
  <2> HIDE DEF f
  <2> QED BY <1>1, <1>2, SumNat
<1> QED BY <1>3

-----------------------------------------------------------------------------
(* Types.                                                                  *)

TableType == [Sigs -> [wallet : Wallets \cup {NoWallet}, age : 0..2, category : StoredCategories]]
PatternType == [of : SUBSET Sigs, tag : StoredCategories, isConfirmed : BOOLEAN]
Steps == {"idle", "tag", "ingest", "fetch", "analyze", "insights", "answered"}
RunType == [client : {"none", "user", "scan"}, gone : BOOLEAN, pc : Steps,
            wallet : Wallets \cup {NoWallet}, range : Ranges, before : 0..MaxSig + 1,
            pages : Nat, tries : 0..MaxRetries, top : 0..MaxSig, result : Result]
UserType == [range : Ranges, isIngesting : BOOLEAN, isAnalyzing : BOOLEAN, analysis : Result]
ScanType == [phase : {"idle", "ingesting", "analyzing", "done", "error"},
             scanned : Wallets \cup {NoWallet}, analysis : Result, top : 0..MaxSig]

LEMMA TypesOf ==
  TreasuryTypeOK <=>
    /\ landed \in 0..MaxSig /\ acts \in 0..MaxActs
    /\ table \in TableType /\ book \in [Wallets -> [Addresses -> SUBSET Sigs]]
    /\ patterns \in [Wallets -> [Addresses -> PatternType]]
    /\ tags \in [Wallets -> [Addresses -> Tags \cup {"none"}]]
    /\ run \in [Runs -> RunType] /\ user \in UserType /\ scan \in ScanType
BY DEF TreasuryTypeOK, TableType, PatternType, Steps, RunType, UserType, ScanType

LEMMA TypesNext ==
  TreasuryTypeOK' <=>
    /\ landed' \in 0..MaxSig /\ acts' \in 0..MaxActs
    /\ table' \in TableType /\ book' \in [Wallets -> [Addresses -> SUBSET Sigs]]
    /\ patterns' \in [Wallets -> [Addresses -> PatternType]]
    /\ tags' \in [Wallets -> [Addresses -> Tags \cup {"none"}]]
    /\ run' \in [Runs -> RunType] /\ user' \in UserType /\ scan' \in ScanType
BY DEF TreasuryTypeOK, TableType, PatternType, Steps, RunType, UserType, ScanType

(* A run that is under way works for a wallet.                             *)
Busy == \A r \in Runs : run[r].pc # "idle" => run[r].wallet \in Wallets
Typed == TreasuryTypeOK /\ Busy

LEMMA Parameters ==
  /\ MaxSig \in Nat \ {0} /\ MaxActs \in Nat /\ MaxRetries \in Nat /\ PageSize \in Nat \ {0}
  /\ Month \in Ranges /\ ScanRange \in Ranges /\ UserWallet \in Wallets
  /\ RowLimit \in Nat /\ SampleLimit \in Nat /\ PublicPages \in Nat \ {0}
BY LedgerAssumption, TreasuryAssumption

LEMMA NoResultType == NoResult \in Result
<1>1. NoPatterns \in [{} -> SUBSET Sigs]
  BY DEF NoPatterns
<1>2. NoPatterns \in UNION {[S -> SUBSET Sigs] : S \in SUBSET Addresses}
  BY <1>1
<1>3. [c \in SpendCategories |-> {}] \in [SpendCategories -> SUBSET Sigs]
  OBVIOUS
<1> QED BY <1>2, <1>3, Parameters DEF NoResult, Result

LEMMA NoRunType == NoRun \in RunType
BY NoResultType, Parameters DEF NoRun, RunType, Steps

LEMMA NoScanType == NoScan \in ScanType
BY NoResultType, Parameters DEF NoScan, ScanType

LEMMA InitTyped == Init => Typed
<1> SUFFICES ASSUME Init PROVE Typed
  OBVIOUS
<1>1. landed \in 0..MaxSig /\ acts \in 0..MaxActs
  BY Parameters DEF Init
<1>2. table \in TableType
  BY DEF Init, TableType, NoRow, StoredCategories
<1>3. book \in [Wallets -> [Addresses -> SUBSET Sigs]]
  BY DEF Init
<1>4. patterns \in [Wallets -> [Addresses -> PatternType]]
  BY DEF Init, PatternType, NoPattern, StoredCategories
<1>5. tags \in [Wallets -> [Addresses -> Tags \cup {"none"}]]
  BY DEF Init
<1>6. run \in [Runs -> RunType] /\ Busy
  BY NoRunType DEF Init, Busy, NoRun
<1>7. user \in UserType /\ scan \in ScanType
  BY NoResultType, NoScanType, Parameters DEF Init, UserType
<1> QED BY <1>1, <1>2, <1>3, <1>4, <1>5, <1>6, <1>7, TypesOf DEF Typed

(* How the runs change.                                                    *)
LEMMA RunUpdate ==
  ASSUME run \in [Runs -> RunType], Busy, NEW r \in Runs, NEW q \in RunType,
         run' = [run EXCEPT ![r] = q], q.pc # "idle" => q.wallet \in Wallets
  PROVE  run' \in [Runs -> RunType] /\ Busy'
BY DEF Busy

LEMMA StartsTyped ==
  ASSUME Typed, NEW r \in Runs, NEW client \in {"user", "scan"}, NEW pc \in {"tag", "ingest"},
         NEW w \in Wallets, NEW range \in Ranges, Starts(r, client, pc, w, range)
  PROVE  run' \in [Runs -> RunType] /\ Busy'
<1> DEFINE q == [NoRun EXCEPT !.client = client, !.pc = pc, !.wallet = w, !.range = range]
<1>1. q \in RunType /\ q.wallet = w
  BY NoRunType DEF RunType, Steps, NoRun
<1>2. run' = [run EXCEPT ![r] = q]
  BY DEF Starts
<1> HIDE DEF q
<1> QED BY <1>1, <1>2, RunUpdate, TypesOf DEF Typed

LEMMA StoppedTyped == user \in UserType => \A pc : Stopped(pc) \in UserType
BY DEF UserType, Stopped

LEMMA ToldTyped ==
  ASSUME Typed, NEW r \in Runs, Told(r)
  PROVE  user' \in UserType /\ scan' \in ScanType
<1>1. user \in UserType /\ scan \in ScanType
  BY TypesOf DEF Typed
<1>2. [scan EXCEPT !.phase = "error"] \in ScanType
  BY <1>1 DEF ScanType
<1> QED BY <1>1, <1>2, StoppedTyped DEF Told

LEMMA FailsTyped ==
  ASSUME Typed, NEW r \in Runs, Fails(r)
  PROVE  /\ run' \in [Runs -> RunType] /\ Busy' /\ user' \in UserType /\ scan' \in ScanType
         /\ UNCHANGED <<landed, database, acts>>
<1>1. run' = [run EXCEPT ![r] = NoRun] /\ Told(r) /\ UNCHANGED <<landed, database, acts>>
  BY DEF Fails
<1>2. run' \in [Runs -> RunType] /\ Busy'
  BY <1>1, RunUpdate, NoRunType, TypesOf DEF Typed, NoRun
<1> QED BY <1>1, <1>2, ToldTyped

(* The request of a run goes on to its analysis.                           *)
Onward(r) == [NoRun EXCEPT !.client = run[r].client, !.pc = "analyze",
                           !.wallet = run[r].wallet, !.range = run[r].range]
LEMMA AnalysesTyped ==
  ASSUME Typed, NEW r \in Runs, run[r].pc # "idle", NEW top \in 0..MaxSig, Analyses(r, top)
  PROVE  run' \in [Runs -> RunType] /\ Busy' /\ user' \in UserType /\ scan' \in ScanType
<1>1. user \in UserType /\ scan \in ScanType /\ run \in [Runs -> RunType] /\ Busy /\ run[r] \in RunType
  BY TypesOf DEF Typed
<1>2. CASE run[r].gone
  <2>1. run' = [run EXCEPT ![r] = NoRun] /\ user' = user /\ scan' = scan
    BY <1>2 DEF Analyses
  <2> QED BY <1>1, <2>1, RunUpdate, NoRunType DEF NoRun
<1>3. CASE ~run[r].gone
  <2>1. run' = [run EXCEPT ![r] = Onward(r)]
    BY <1>3 DEF Analyses, Onward
  <2>2. Onward(r) \in RunType /\ Onward(r).wallet = run[r].wallet
    BY <1>1, NoRunType DEF Onward, RunType, Steps, NoRun
  <2>3. run' \in [Runs -> RunType] /\ Busy'
    BY <1>1, <2>1, <2>2, RunUpdate DEF Busy
  <2>4. user' \in UserType
    <3>1. [user EXCEPT !.isIngesting = IF run[r].pc = "tag" THEN @ ELSE FALSE, !.isAnalyzing = TRUE] \in UserType
      BY <1>1 DEF UserType
    <3> QED BY <1>1, <1>3, <3>1 DEF Analyses
  <2>5. scan' \in ScanType
    <3>1. [scan EXCEPT !.phase = "analyzing", !.top = top] \in ScanType
      BY <1>1 DEF ScanType
    <3> QED BY <1>1, <1>3, <3>1 DEF Analyses
  <2> QED BY <2>3, <2>4, <2>5
<1> QED BY <1>2, <1>3

(* One step of a run at a time.                                            *)
LEMMA IngestTyped == ASSUME Typed, NEW r \in Runs, ingest(r) PROVE Typed'
<1>1. run[r].pc = "ingest" /\ UNCHANGED <<landed, database, acts>>
  BY DEF ingest
<1>2. run \in [Runs -> RunType] /\ Busy /\ run[r] \in RunType /\ user \in UserType /\ scan \in ScanType
  BY TypesOf DEF Typed
<1>3. run' \in [Runs -> RunType] /\ Busy' /\ user' \in UserType /\ scan' \in ScanType
  <2>1. CASE Route(r).cached
    <3>1. Analyses(r, 0)
      BY <2>1 DEF ingest
    <3>2. 0 \in 0..MaxSig
      BY Parameters
    <3> QED BY <1>1, <3>1, <3>2, AnalysesTyped
  <2>2. CASE ~Route(r).cached
    <3> DEFINE q == [run[r] EXCEPT !.pc = "fetch", !.before = MaxSig + 1]
    <3>1. run' = [run EXCEPT ![r] = q] /\ user' = user /\ scan' = scan
      BY <2>2 DEF ingest
    <3>2. MaxSig + 1 \in 0..MaxSig + 1
      BY Parameters
    <3>3. q \in RunType /\ q.wallet = run[r].wallet
      BY <1>2, <3>2 DEF RunType, Steps
    <3> HIDE DEF q
    <3> QED BY <1>1, <1>2, <3>1, <3>3, RunUpdate DEF Busy
  <2> QED BY <2>1, <2>2
<1> QED BY <1>1, <1>3, TypesOf, TypesNext DEF Typed, database

LEMMA RateLimitedTyped == ASSUME Typed, NEW r \in Runs, RateLimited(r) PROVE Typed'
<1>1. CASE GivesUp(r)
  BY <1>1, FailsTyped, TypesOf, TypesNext DEF RateLimited, Typed, database
<1>2. CASE ~GivesUp(r)
  <2> DEFINE q == [run[r] EXCEPT !.tries = @ + 1]
  <2>1. run' = [run EXCEPT ![r] = q] /\ UNCHANGED <<landed, database, user, scan, acts>> /\ run[r].pc = "fetch"
    BY <1>2 DEF RateLimited
  <2>2. run \in [Runs -> RunType] /\ Busy /\ run[r] \in RunType
    BY TypesOf DEF Typed
  <2>3. run[r].tries + 1 \in 0..MaxRetries
    BY <1>2, <2>2, Parameters DEF GivesUp, RunType
  <2>4. q \in RunType /\ q.wallet = run[r].wallet
    BY <2>2, <2>3 DEF RunType
  <2> HIDE DEF q
  <2>5. run' \in [Runs -> RunType] /\ Busy'
    BY <2>1, <2>2, <2>4, RunUpdate DEF Busy
  <2> QED BY <2>1, <2>5, TypesOf, TypesNext DEF Typed, database
<1> QED BY <1>1, <1>2

LEMMA UpsertTyped ==
  ASSUME table \in TableType, NEW w \in Wallets, NEW S \in SUBSET Sigs
  PROVE  upsertMany(table, w, S) \in TableType
BY DEF TableType, upsertMany, StoredCategories

LEMMA RowsAreSigs ==
  ASSUME NEW t, NEW w
  PROVE  Rows(t, w) \subseteq Sigs /\ Meaningful(t, w) \subseteq Rows(t, w)
BY DEF Rows, Meaningful

(* The page that is fetched.                                               *)
Page(r) == PageBelow(run[r].wallet, run[r].before)
Kept(r) == InRange(Page(r), run[r].range)
Top(r) == IF run[r].pages = 0 THEN landed ELSE run[r].top
IsLast(r) == Page(r) # Kept(r) \/ Cardinality(Page(r)) < PageSize \/ run[r].pages + 1 >= Route(r).pages
(* The run at the next page.                                               *)
Turned(r) ==
  [run[r] EXCEPT !.before = Cursor(Page(r)), !.tries = 0, !.pages = @ + 1, !.top = Top(r)]

LEMMA FetchIs ==
  ASSUME NEW r, fetchPage(r)
  PROVE  /\ run[r].pc = "fetch" /\ table' = upsertMany(table, run[r].wallet, Kept(r))
         /\ IsLast(r) =>
              /\ book' = [book EXCEPT ![run[r].wallet] = rebuildCounterparties(table', run[r].wallet)]
              /\ Analyses(r, Top(r))
         /\ ~IsLast(r) =>
              /\ run' = [run EXCEPT ![r] = Turned(r)]
              /\ UNCHANGED <<book, user, scan>>
         /\ UNCHANGED <<landed, patterns, tags, acts>>
<1> DEFINE w == run[r].wallet
           page == PageBelow(w, run[r].before)
           kept == InRange(page, run[r].range)
           top  == IF run[r].pages = 0 THEN landed ELSE run[r].top
           last == page # kept \/ Cardinality(page) < PageSize \/ run[r].pages + 1 >= Route(r).pages
<1>1. page = Page(r) /\ kept = Kept(r) /\ top = Top(r) /\ (last <=> IsLast(r))
  BY DEF Page, Kept, Top, IsLast
<1>2. /\ run[r].pc = "fetch" /\ table' = upsertMany(table, w, kept)
      /\ IF last
         THEN book' = [book EXCEPT ![w] = rebuildCounterparties(table', w)] /\ Analyses(r, top)
         ELSE /\ run' = [run EXCEPT ![r] = [run[r] EXCEPT !.before = Cursor(page), !.tries = 0,
                                               !.pages = @ + 1, !.top = top]]
              /\ UNCHANGED <<book, user, scan>>
      /\ UNCHANGED <<landed, patterns, tags, acts>>
  BY DEF fetchPage
<1>3. Turned(r) = [run[r] EXCEPT !.before = Cursor(page), !.tries = 0, !.pages = @ + 1, !.top = top]
  BY <1>1 DEF Turned
<1> HIDE DEF page, kept, top, last
<1> QED BY <1>1, <1>2, <1>3

LEMMA PageIs ==
  ASSUME NEW r
  PROVE  /\ Page(r) \in SUBSET {s \in Party[run[r].wallet] : s < run[r].before /\ s <= landed}
         /\ Kept(r) \subseteq Page(r)
         /\ run[r].wallet \in Wallets => Party[run[r].wallet] \subseteq Sigs
BY DEF Page, PageBelow, Newest, Kept, InRange, Party

LEMMA FetchPageTyped == ASSUME Typed, NEW r \in Runs, fetchPage(r) PROVE Typed'
<1>1. run[r].pc = "fetch" /\ run[r] \in RunType /\ run[r].wallet \in Wallets
  BY FetchIs, TypesOf DEF Typed, Busy
<1>2. Page(r) \in SUBSET Sigs /\ Kept(r) \in SUBSET Sigs
  BY <1>1, PageIs
<1>3. table' \in TableType
  <2>1. table \in TableType
    BY TypesOf DEF Typed
  <2>2. upsertMany(table, run[r].wallet, Kept(r)) \in TableType
    BY <1>1, <1>2, <2>1, UpsertTyped
  <2> QED BY <2>2, FetchIs
<1>4. Top(r) \in 0..MaxSig
  BY <1>1, TypesOf DEF Top, RunType, Typed
<1>5. /\ book' \in [Wallets -> [Addresses -> SUBSET Sigs]]
      /\ run' \in [Runs -> RunType] /\ Busy' /\ user' \in UserType /\ scan' \in ScanType
  <2>1. CASE IsLast(r)
    <3>1. rebuildCounterparties(table', run[r].wallet) \in [Addresses -> SUBSET Sigs]
      <4>1. book[run[r].wallet] \in [Addresses -> SUBSET Sigs]
        BY <1>1, TypesOf DEF Typed
      <4>2. \A a \in Addresses : With(Meaningful(table', run[r].wallet), run[r].wallet, a) \in SUBSET Sigs
        BY RowsAreSigs DEF With
      <4> QED BY <4>1, <4>2 DEF rebuildCounterparties
    <3>2. book' = [book EXCEPT ![run[r].wallet] = rebuildCounterparties(table', run[r].wallet)]
      BY <2>1, FetchIs
    <3>3. book' \in [Wallets -> [Addresses -> SUBSET Sigs]]
      BY <3>1, <3>2, TypesOf DEF Typed
    <3>4. Analyses(r, Top(r))
      BY <2>1, FetchIs
    <3> QED BY <1>1, <1>4, <3>3, <3>4, AnalysesTyped
  <2>2. CASE ~IsLast(r)
    <3>1. run' = [run EXCEPT ![r] = Turned(r)] /\ UNCHANGED <<book, user, scan>>
      BY <2>2, FetchIs
    <3>2. Page(r) # {}
      BY <1>2, <2>2, SigsAreFinite, Parameters DEF IsLast
    <3>3. Cursor(Page(r)) \in 0..MaxSig + 1
      <4>1. Cursor(Page(r)) \in Sigs
        BY <1>2, <3>2, SigMin DEF Cursor
      <4> QED BY <4>1, Parameters DEF Sigs
    <3>4. run[r].pages + 1 \in Nat /\ 0 \in 0..MaxRetries
      BY <1>1, Parameters DEF RunType
    <3>5. Turned(r) \in RunType /\ Turned(r).wallet = run[r].wallet
      BY <1>1, <1>4, <3>3, <3>4 DEF RunType, Turned
    <3>6. run' \in [Runs -> RunType] /\ Busy'
      BY <1>1, <3>1, <3>5, RunUpdate, TypesOf DEF Typed
    <3> QED BY <3>1, <3>6, TypesOf DEF Typed
  <2> QED BY <2>1, <2>2
<1> QED BY <1>3, <1>5, FetchIs, TypesOf, TypesNext DEF Typed

LEMMA StoredAreRows ==
  ASSUME NEW w, NEW range, NEW n
  PROVE  /\ Stored(w, range, n) \subseteq InRange(Meaningful(table, w), range)
         /\ InRange(Meaningful(table, w), range) \subseteq Rows(table, w)
         /\ Stored(w, range, n) \in SUBSET Sigs
BY RowsAreSigs DEF Stored, Newest, InRange

LEMMA SampleIs ==
  ASSUME NEW w, NEW range, NEW a
  PROVE  Sample(w, range, a) \in SUBSET Sigs
BY StoredAreRows DEF Sample, With

LEMMA PatternTyped ==
  ASSUME Typed, NEW w \in Wallets, NEW range, NEW a \in Addresses, a \in Recurring(w, range)
  PROVE  PatternOf(w, a, Sample(w, range, a)) \in PatternType
<1> DEFINE S == Sample(w, range, a)
<1>1. S \in SUBSET Sigs /\ Cardinality(S) > 1
  BY SampleIs DEF Recurring, Recurs
<1> HIDE DEF S
<1>2. S # {}
  BY <1>1, SigsAreFinite
<1>3. Max(S) \in Sigs
  BY <1>1, <1>2, SigMax
<1>4. table[Max(S)].category \in StoredCategories
  BY <1>3, TypesOf DEF Typed, TableType
<1>5. tags[w][a] \in Tags \cup {"none"}
  BY TypesOf DEF Typed
<1>6. PatternOf(w, a, S) \in PatternType
  BY <1>1, <1>4, <1>5 DEF PatternOf, PatternType, StoredCategories
<1> QED BY <1>6 DEF S

LEMMA DetectTyped ==
  ASSUME Typed, NEW w \in Wallets, NEW range
  PROVE  detectRecurringPatterns(w, range) \in [Addresses -> PatternType]
<1>1. patterns[w] \in [Addresses -> PatternType]
  BY TypesOf DEF Typed
<1> QED BY <1>1, PatternTyped DEF detectRecurringPatterns

(* What an analysis finds.                                                 *)
ResultOf(w, range) ==
  [wallet |-> w, range |-> range, found |-> Stored(w, range, RowLimit),
   spend |-> getSpendByCategory(w, range), burn |-> Burned(w, range),
   recurring |-> [a \in Recurring(w, range) |-> detectRecurringPatterns(w, range)[a].of],
   confirmed |-> {a \in Recurring(w, range) : detectRecurringPatterns(w, range)[a].isConfirmed}, due |-> 0]

LEMMA AnalysisIs ==
  ASSUME NEW r, runFullTreasuryAnalysis(r)
  PROVE  /\ run[r].pc = "analyze" /\ UNCHANGED <<landed, table, book, tags, user, scan, acts>>
         /\ patterns' = [patterns EXCEPT ![run[r].wallet] = detectRecurringPatterns(run[r].wallet, run[r].range)]
         /\ run' = [run EXCEPT ![r] = [run[r] EXCEPT !.pc = "insights",
                                         !.result = ResultOf(run[r].wallet, run[r].range)]]
BY DEF runFullTreasuryAnalysis, ResultOf

LEMMA ResultTyped ==
  ASSUME Typed, NEW w \in Wallets, NEW range \in Ranges
  PROVE  ResultOf(w, range) \in Result
<1>1. Stored(w, range, RowLimit) \in SUBSET Sigs
  BY StoredAreRows
<1>2. getSpendByCategory(w, range) \in [SpendCategories -> SUBSET Sigs]
  BY RowsAreSigs DEF getSpendByCategory, InRange, Outflows
<1>3. Burned(w, range) \in SUBSET Sigs
  BY RowsAreSigs DEF Burned, Outflows
<1>4. Recurring(w, range) \in SUBSET Addresses
  BY DEF Recurring
<1>5. [a \in Recurring(w, range) |-> detectRecurringPatterns(w, range)[a].of]
        \in [Recurring(w, range) -> SUBSET Sigs]
  BY <1>4, DetectTyped DEF PatternType
<1>6. [a \in Recurring(w, range) |-> detectRecurringPatterns(w, range)[a].of]
        \in UNION {[S -> SUBSET Sigs] : S \in SUBSET Addresses}
  BY <1>4, <1>5
<1>7. {a \in Recurring(w, range) : detectRecurringPatterns(w, range)[a].isConfirmed} \in SUBSET Addresses
  BY <1>4
<1> QED BY <1>1, <1>2, <1>3, <1>6, <1>7 DEF ResultOf, Result

LEMMA AnalysisTyped == ASSUME Typed, NEW r \in Runs, runFullTreasuryAnalysis(r) PROVE Typed'
<1> DEFINE q == [run[r] EXCEPT !.pc = "insights", !.result = ResultOf(run[r].wallet, run[r].range)]
<1>1. run[r] \in RunType /\ run[r].wallet \in Wallets /\ run[r].range \in Ranges
  BY AnalysisIs, TypesOf DEF Typed, Busy, RunType
<1>2. q \in RunType /\ q.wallet = run[r].wallet /\ run' = [run EXCEPT ![r] = q]
  BY <1>1, ResultTyped, AnalysisIs DEF RunType, Steps
<1> HIDE DEF q
<1>3. run' \in [Runs -> RunType] /\ Busy'
  BY <1>1, <1>2, RunUpdate, TypesOf DEF Typed
<1>4. patterns' \in [Wallets -> [Addresses -> PatternType]]
  <2>1. detectRecurringPatterns(run[r].wallet, run[r].range) \in [Addresses -> PatternType]
    BY <1>1, DetectTyped
  <2>2. patterns \in [Wallets -> [Addresses -> PatternType]]
    BY TypesOf DEF Typed
  <2>3. patterns' = [patterns EXCEPT ![run[r].wallet] = detectRecurringPatterns(run[r].wallet, run[r].range)]
    BY AnalysisIs
  <2> QED BY <1>1, <2>1, <2>2, <2>3
<1> QED BY <1>3, <1>4, AnalysisIs, TypesOf, TypesNext DEF Typed

DueOf(w) ==
  SumFunctionOnSet([a \in Addresses |-> avgAmount(w, patterns[w][a].of)],
                   {a \in Addresses : patterns[w][a] # NoPattern /\ DueSoon(patterns[w][a].of)})

LEMMA ForecastIs ==
  ASSUME NEW r, generateForecast(r)
  PROVE  /\ run[r].pc = "insights" /\ UNCHANGED <<landed, database, user, scan, acts>>
         /\ run' = [run EXCEPT ![r] = [run[r] EXCEPT !.pc = "answered", !.result.due = DueOf(run[r].wallet)]]
BY DEF generateForecast, DueOf

LEMMA ForecastTyped == ASSUME Typed, NEW r \in Runs, generateForecast(r) PROVE Typed'
<1> DEFINE w == run[r].wallet
           due == DueOf(w)
           q == [run[r] EXCEPT !.pc = "answered", !.result.due = due]
<1>1. /\ run[r].pc = "insights" /\ UNCHANGED <<landed, database, user, scan, acts>>
      /\ run' = [run EXCEPT ![r] = q]
  BY ForecastIs
<1>2. run[r] \in RunType /\ w \in Wallets
  BY <1>1, TypesOf DEF Typed, Busy
<1>3. due \in Nat
  <2> DEFINE soon == {a \in Addresses : patterns[w][a] # NoPattern /\ DueSoon(patterns[w][a].of)}
  <2>1. \A a \in Addresses : patterns[w][a].of \in SUBSET Sigs
    BY <1>2, TypesOf DEF Typed, PatternType
  <2>2. soon \in SUBSET Addresses
    OBVIOUS
  <2>3. due = SumFunctionOnSet([a \in Addresses |-> avgAmount(w, patterns[w][a].of)], soon)
    BY DEF DueOf
  <2> HIDE DEF soon, w, due
  <2> QED BY <1>2, <2>1, <2>2, <2>3, DueIsNat
<1> HIDE DEF due
<1>4. [run[r].result EXCEPT !.due = due] \in Result
  BY <1>2, <1>3 DEF RunType, Result
<1>5. q \in RunType /\ q.wallet = w
  BY <1>2, <1>4 DEF RunType, Steps
<1> HIDE DEF q
<1>6. run' \in [Runs -> RunType] /\ Busy'
  BY <1>1, <1>2, <1>5, RunUpdate, TypesOf DEF Typed
<1> QED BY <1>1, <1>6, TypesOf, TypesNext DEF Typed, database

LEMMA SetAnalysisTyped == ASSUME Typed, NEW r \in Runs, setAnalysis(r) PROVE Typed'
<1>1. /\ run' = [run EXCEPT ![r] = NoRun] /\ UNCHANGED <<landed, database, acts>>
      /\ user' = IF For(r, "user") THEN [user EXCEPT !.analysis = run[r].result, !.isAnalyzing = FALSE] ELSE user
      /\ scan' = IF For(r, "scan") THEN [scan EXCEPT !.analysis = run[r].result, !.phase = "done"] ELSE scan
  BY DEF setAnalysis
<1>2. run[r].result \in Result /\ user \in UserType /\ scan \in ScanType
  BY TypesOf DEF Typed, RunType
<1>3. user' \in UserType
  BY <1>1, <1>2 DEF UserType
<1>4. scan' \in ScanType
  BY <1>1, <1>2 DEF ScanType
<1>5. run' \in [Runs -> RunType] /\ Busy'
  BY <1>1, RunUpdate, NoRunType, TypesOf DEF Typed, NoRun
<1> QED BY <1>1, <1>3, <1>4, <1>5, TypesOf, TypesNext DEF Typed, database

LEMMA TaggedTyped ==
  ASSUME table \in TableType, NEW w, NEW S, NEW tag \in Tags, Tagged(w, S, tag)
  PROVE  table' \in TableType
BY DEF Tagged, TableType, StoredCategories

LEMMA UserTagTyped == ASSUME Typed, NEW r \in Runs, applyUserTag(r) PROVE Typed'
<1>1. /\ run[r].pc = "tag" /\ Analyses(r, 0) /\ UNCHANGED <<landed, book, patterns, acts>>
  BY DEF applyUserTag
<1>2. run[r].wallet \in Wallets /\ table \in TableType /\ tags \in [Wallets -> [Addresses -> Tags \cup {"none"}]]
  BY <1>1, TypesOf DEF Typed, Busy
<1>3. table' \in TableType
  BY <1>2, TaggedTyped DEF applyUserTag
<1>4. tags' \in [Wallets -> [Addresses -> Tags \cup {"none"}]]
  <2>1. PICK tag \in Tags :
          \/ \E a \in Classifiable(run[r].wallet).addresses :
               tags' = [tags EXCEPT ![run[r].wallet][a] = IF @ = "none" THEN tag ELSE @]
          \/ tags' = tags
    BY DEF applyUserTag
  <2>2. CASE \E a \in Classifiable(run[r].wallet).addresses :
               tags' = [tags EXCEPT ![run[r].wallet][a] = IF @ = "none" THEN tag ELSE @]
    <3>1. PICK a \in Classifiable(run[r].wallet).addresses :
               tags' = [tags EXCEPT ![run[r].wallet][a] = IF @ = "none" THEN tag ELSE @]
      BY <2>2
    <3>2. a \in Addresses
      BY DEF Classifiable
    <3> QED BY <1>2, <3>1, <3>2
  <2> QED BY <1>2, <2>1, <2>2
<1>5. run' \in [Runs -> RunType] /\ Busy' /\ user' \in UserType /\ scan' \in ScanType
  BY <1>1, AnalysesTyped, Parameters
<1> QED BY <1>1, <1>3, <1>4, <1>5, TypesOf, TypesNext DEF Typed

LEMMA ResetTyped == ASSUME Typed, reset PROVE Typed'
<1>1. /\ scan' = [scan EXCEPT !.phase = "idle", !.analysis = NoResult]
      /\ acts < MaxActs /\ acts' = acts + 1 /\ UNCHANGED <<landed, database, run, user>>
  BY DEF reset, Acts
<1>2. scan' \in ScanType
  BY <1>1, NoResultType, TypesOf DEF Typed, ScanType
<1>3. acts' \in 0..MaxActs
  BY <1>1, TypesOf, Parameters DEF Typed
<1> QED BY <1>1, <1>2, <1>3, TypesOf, TypesNext DEF Typed, database, Busy

LEMMA SubmitTagTyped == ASSUME Typed, NEW r \in Runs, submitTag(r) PROVE Typed'
<1>1. /\ Starts(r, "user", "tag", UserWallet, user.range)
      /\ acts < MaxActs /\ acts' = acts + 1 /\ UNCHANGED <<landed, database, user, scan>>
  BY DEF submitTag, Acts
<1>2. user.range \in Ranges
  BY TypesOf DEF Typed, UserType
<1>3. run' \in [Runs -> RunType] /\ Busy'
  BY <1>1, <1>2, StartsTyped, Parameters
<1>4. acts' \in 0..MaxActs
  BY <1>1, TypesOf, Parameters DEF Typed
<1> QED BY <1>1, <1>3, <1>4, TypesOf, TypesNext DEF Typed, database

LEMMA FullAnalysisTyped ==
  ASSUME Typed, NEW r \in Runs, NEW range \in Ranges, runFullAnalysis(r, range)
  PROVE  Typed'
<1>1. /\ Starts(r, "user", "ingest", UserWallet, range)
      /\ user' = [user EXCEPT !.range = range, !.isIngesting = TRUE]
      /\ acts < MaxActs /\ acts' = acts + 1 /\ UNCHANGED <<landed, database, scan>>
  BY DEF runFullAnalysis, Acts
<1>2. user' \in UserType
  BY <1>1, TypesOf DEF Typed, UserType
<1>3. run' \in [Runs -> RunType] /\ Busy'
  BY <1>1, StartsTyped, Parameters
<1>4. acts' \in 0..MaxActs
  BY <1>1, TypesOf, Parameters DEF Typed
<1> QED BY <1>1, <1>2, <1>3, <1>4, TypesOf, TypesNext DEF Typed, database

LEMMA ScanTyped ==
  ASSUME Typed, NEW r \in Runs, NEW w \in Wallets, runScan(r, w)
  PROVE  Typed'
<1>1. /\ Starts(r, "scan", "ingest", w, ScanRange)
      /\ scan' = [NoScan EXCEPT !.phase = "ingesting", !.scanned = w]
      /\ acts < MaxActs /\ acts' = acts + 1 /\ UNCHANGED <<landed, database, user>>
  BY DEF runScan, Acts
<1>2. scan' \in ScanType
  BY <1>1, NoScanType DEF ScanType
<1>3. run' \in [Runs -> RunType] /\ Busy'
  BY <1>1, StartsTyped, Parameters
<1>4. acts' \in 0..MaxActs
  BY <1>1, TypesOf, Parameters DEF Typed
<1> QED BY <1>1, <1>2, <1>3, <1>4, TypesOf, TypesNext DEF Typed, database

LEMMA AbandonedTyped == ASSUME Typed, NEW r \in Runs, Abandoned(r) PROVE Typed'
<1> DEFINE q == [run[r] EXCEPT !.gone = TRUE]
<1>1. /\ run[r].pc # "idle" /\ run' = [run EXCEPT ![r] = q] /\ Told(r)
      /\ UNCHANGED <<landed, database, acts>>
  BY DEF Abandoned
<1>2. run[r] \in RunType
  BY TypesOf DEF Typed
<1>3. q \in RunType /\ q.wallet = run[r].wallet
  BY <1>2 DEF RunType
<1> HIDE DEF q
<1>4. run' \in [Runs -> RunType] /\ Busy'
  BY <1>1, <1>3, RunUpdate, TypesOf DEF Typed, Busy
<1>5. user' \in UserType /\ scan' \in ScanType
  BY <1>1, ToldTyped
<1> QED BY <1>1, <1>4, <1>5, TypesOf, TypesNext DEF Typed, database

LEMMA LandTyped == ASSUME Typed, Land PROVE Typed'
<1>1. landed < MaxSig /\ landed' = landed + 1 /\ UNCHANGED <<database, run, user, scan, acts>>
  BY DEF Land
<1>2. landed' \in 0..MaxSig
  BY <1>1, TypesOf, Parameters DEF Typed
<1> QED BY <1>1, <1>2, TypesOf, TypesNext DEF Typed, database, Busy

LEMMA TimePassesTyped == ASSUME Typed, TimePasses PROVE Typed'
<1>1. /\ acts < MaxActs /\ acts' = acts + 1
      /\ table' = [s \in Sigs |-> [table[s] EXCEPT !.age = IF @ = 2 THEN 2 ELSE @ + 1]]
      /\ UNCHANGED <<landed, book, patterns, tags, run, user, scan>>
  BY DEF TimePasses, Acts
<1>2. \A s \in Sigs : [table[s] EXCEPT !.age = IF @ = 2 THEN 2 ELSE @ + 1]
        \in [wallet : Wallets \cup {NoWallet}, age : 0..2, category : StoredCategories]
  <2> SUFFICES ASSUME NEW s \in Sigs
               PROVE  [table[s] EXCEPT !.age = IF @ = 2 THEN 2 ELSE @ + 1]
                        \in [wallet : Wallets \cup {NoWallet}, age : 0..2, category : StoredCategories]
    OBVIOUS
  <2>1. table[s] \in [wallet : Wallets \cup {NoWallet}, age : 0..2, category : StoredCategories]
    BY TypesOf DEF Typed, TableType
  <2>2. (IF table[s].age = 2 THEN 2 ELSE table[s].age + 1) \in 0..2
    BY <2>1
  <2> QED BY <2>1, <2>2
<1>3. table' \in TableType
  BY <1>1, <1>2 DEF TableType
<1>4. acts' \in 0..MaxActs
  BY <1>1, TypesOf, Parameters DEF Typed
<1> QED BY <1>1, <1>3, <1>4, TypesOf, TypesNext DEF Typed, Busy

(* The steps there are.                                                    *)
LEMMA NextIs ==
  ASSUME [Next]_vars
  PROVE  \/ \E r \in Runs :
              \/ run[r].pc # "idle" /\ Fails(r)
              \/ ingest(r) \/ RateLimited(r) \/ fetchPage(r)
              \/ runFullTreasuryAnalysis(r) \/ generateForecast(r) \/ setAnalysis(r) \/ applyUserTag(r)
              \/ submitTag(r) \/ Abandoned(r)
              \/ \E range \in Ranges : runFullAnalysis(r, range)
              \/ \E w \in Wallets : runScan(r, w)
         \/ reset \/ Land \/ TimePasses \/ UNCHANGED vars
BY DEF Next, People, RunStep

LEMMA NextTyped == Typed /\ [Next]_vars => Typed'
<1> SUFFICES ASSUME Typed, [Next]_vars PROVE Typed'
  OBVIOUS
<1>1. CASE UNCHANGED vars
  BY <1>1, TypesOf, TypesNext DEF vars, database, Typed, Busy
<1>2. CASE reset \/ Land \/ TimePasses
  BY <1>2, ResetTyped, LandTyped, TimePassesTyped
<1>3. ASSUME NEW r \in Runs, run[r].pc # "idle" /\ Fails(r) PROVE Typed'
  BY <1>3, FailsTyped, TypesOf, TypesNext DEF Typed, database
<1>4. ASSUME NEW r \in Runs,
             \/ ingest(r) \/ RateLimited(r) \/ fetchPage(r)
             \/ runFullTreasuryAnalysis(r) \/ generateForecast(r) \/ setAnalysis(r) \/ applyUserTag(r)
      PROVE  Typed'
  BY <1>4, IngestTyped, RateLimitedTyped, FetchPageTyped, AnalysisTyped, ForecastTyped, SetAnalysisTyped,
     UserTagTyped
<1>5. ASSUME NEW r \in Runs, submitTag(r) \/ Abandoned(r) PROVE Typed'
  BY <1>5, SubmitTagTyped, AbandonedTyped
<1>6. ASSUME NEW r \in Runs, NEW range \in Ranges, runFullAnalysis(r, range) PROVE Typed'
  BY <1>6, FullAnalysisTyped
<1>7. ASSUME NEW r \in Runs, NEW w \in Wallets, runScan(r, w) PROVE Typed'
  BY <1>7, ScanTyped
<1> QED BY <1>1, <1>2, <1>3, <1>4, <1>5, <1>6, <1>7, NextIs

(* Every variable stays within its type; what falls due is never negative. *)
THEOREM TreasuryIsTyped == Spec => []TreasuryTypeOK
<1>1. Typed => TreasuryTypeOK
  BY DEF Typed
<1> QED BY InitTyped, NextTyped, <1>1, PTL DEF Spec

-----------------------------------------------------------------------------
(* Tags and sums.                                                          *)

(* A confirmed pattern bears the user's tag, and no tag is ever taken back.*)
TagsConfirm ==
  \A w \in Wallets, a \in Addresses :
    patterns[w][a].isConfirmed => tags[w][a] # "none" /\ patterns[w][a].tag = tags[w][a]

LEMMA TagsStay ==
  ASSUME Typed, [Next]_vars, NEW w \in Wallets, NEW a \in Addresses, tags[w][a] # "none"
  PROVE  tags'[w][a] = tags[w][a]
<1>1. CASE tags' = tags
  BY <1>1
<1>2. ASSUME NEW r \in Runs, applyUserTag(r) PROVE tags'[w][a] = tags[w][a]
  <2>1. PICK tag \in Tags :
          \/ \E b \in Classifiable(run[r].wallet).addresses :
               tags' = [tags EXCEPT ![run[r].wallet][b] = IF @ = "none" THEN tag ELSE @]
          \/ tags' = tags
    BY <1>2 DEF applyUserTag
  <2>2. tags \in [Wallets -> [Addresses -> Tags \cup {"none"}]]
    BY TypesOf DEF Typed
  <2> QED BY <2>1, <2>2
<1>3. (\E r \in Runs : applyUserTag(r)) \/ tags' = tags
  BY NextIs, FailsTyped
     DEF vars, database, ingest, RateLimited, Fails, fetchPage, runFullTreasuryAnalysis, generateForecast,
         setAnalysis, submitTag, Abandoned, runFullAnalysis, runScan, reset, Land, TimePasses
<1> QED BY <1>1, <1>2, <1>3

LEMMA PatternsChange ==
  ASSUME Typed, [Next]_vars, NEW w \in Wallets, NEW a \in Addresses
  PROVE  \/ patterns'[w][a] = patterns[w][a]
         \/ \E S : patterns'[w][a] = PatternOf(w, a, S) /\ tags' = tags
<1>1. CASE patterns' = patterns
  BY <1>1
<1>2. ASSUME NEW r \in Runs, runFullTreasuryAnalysis(r)
      PROVE  \/ patterns'[w][a] = patterns[w][a]
             \/ \E S : patterns'[w][a] = PatternOf(w, a, S) /\ tags' = tags
  <2>1. /\ tags' = tags
        /\ patterns' = [patterns EXCEPT ![run[r].wallet] = detectRecurringPatterns(run[r].wallet, run[r].range)]
    BY <1>2, AnalysisIs
  <2>2. patterns \in [Wallets -> [Addresses -> PatternType]]
    BY TypesOf DEF Typed
  <2>3. CASE run[r].wallet # w
    BY <2>1, <2>2, <2>3
  <2>4. CASE run[r].wallet = w
    <3>1. patterns'[w][a] = detectRecurringPatterns(w, run[r].range)[a]
      BY <2>1, <2>2, <2>4
    <3> QED BY <2>1, <3>1 DEF detectRecurringPatterns
  <2> QED BY <2>3, <2>4
<1>3. (\E r \in Runs : runFullTreasuryAnalysis(r)) \/ patterns' = patterns
  BY NextIs, FailsTyped
     DEF vars, database, ingest, RateLimited, Fails, fetchPage, applyUserTag, generateForecast,
         setAnalysis, submitTag, Abandoned, runFullAnalysis, runScan, reset, Land, TimePasses
<1> QED BY <1>1, <1>2, <1>3

LEMMA ConfirmationLasts ==
  ASSUME Typed, TagsConfirm, [Next]_vars, NEW w \in Wallets, NEW a \in Addresses
  PROVE  /\ patterns'[w][a].isConfirmed => tags'[w][a] # "none" /\ patterns'[w][a].tag = tags'[w][a]
         /\ patterns[w][a].isConfirmed =>
              patterns'[w][a].isConfirmed /\ patterns'[w][a].tag = patterns[w][a].tag
<1>1. patterns[w][a].isConfirmed => tags[w][a] # "none" /\ patterns[w][a].tag = tags[w][a]
  BY DEF TagsConfirm
<1>2. tags[w][a] # "none" => tags'[w][a] = tags[w][a]
  BY TagsStay
<1>3. CASE patterns'[w][a] = patterns[w][a]
  BY <1>1, <1>2, <1>3, Zenon
<1>4. ASSUME NEW S, patterns'[w][a] = PatternOf(w, a, S), tags' = tags
      PROVE  /\ patterns'[w][a].isConfirmed => tags'[w][a] # "none" /\ patterns'[w][a].tag = tags'[w][a]
             /\ patterns[w][a].isConfirmed =>
                  patterns'[w][a].isConfirmed /\ patterns'[w][a].tag = patterns[w][a].tag
  <2>1. patterns'[w][a].isConfirmed = (tags[w][a] # "none")
    BY <1>4 DEF PatternOf
  <2>2. tags[w][a] # "none" => patterns'[w][a].tag = tags[w][a]
    BY <1>4 DEF PatternOf
  <2> QED BY <1>1, <1>4, <2>1, <2>2, Zenon
<1> QED BY <1>3, <1>4, PatternsChange

(* A pattern the user confirmed stays confirmed under his first tag,       *)
(* whatever is ingested and analysed afterwards.                           *)
THEOREM ConfirmationsLast == Spec => TagSurvives
<1>1. Init => TagsConfirm
  BY DEF Init, TagsConfirm, NoPattern
<1>2. Typed /\ TagsConfirm /\ [Next]_vars => TagsConfirm'
  BY ConfirmationLasts DEF TagsConfirm
<1>3. Typed /\ TagsConfirm /\ [Next]_vars
        => [\A w \in Wallets, a \in Addresses :
              patterns[w][a].isConfirmed =>
                patterns'[w][a].isConfirmed /\ patterns'[w][a].tag = patterns[w][a].tag]_vars
  BY ConfirmationLasts
<1> QED BY <1>1, <1>2, <1>3, InitTyped, NextTyped, PTL DEF Spec, TagSurvives

(* Sums change only at the end of an ingestion, which leaves them exact.   *)
LEMMA SumsChangeExactly ==
  ASSUME Typed, [Next]_vars, NEW w \in Wallets, book'[w] # book[w], NEW a \in Addresses,
         With(Meaningful(table', w), w, a) # {}
  PROVE  book'[w][a] = With(Meaningful(table', w), w, a)
<1>1. ASSUME NEW r \in Runs, fetchPage(r) PROVE book'[w][a] = With(Meaningful(table', w), w, a)
  <2>1. run[r].wallet \in Wallets /\ book \in [Wallets -> [Addresses -> SUBSET Sigs]]
    BY <1>1, FetchIs, TypesOf DEF Typed, Busy
  <2>2. book' = [book EXCEPT ![run[r].wallet] = rebuildCounterparties(table', run[r].wallet)]
    BY <1>1, FetchIs
  <2>3. w = run[r].wallet /\ book'[w] = rebuildCounterparties(table', w)
    BY <2>1, <2>2
  <2> QED BY <2>3 DEF rebuildCounterparties
<1>2. (\E r \in Runs : fetchPage(r)) \/ book' = book
  BY NextIs, FailsTyped
     DEF vars, database, ingest, RateLimited, Fails, runFullTreasuryAnalysis, applyUserTag, generateForecast,
         setAnalysis, submitTag, Abandoned, runFullAnalysis, runScan, reset, Land, TimePasses
<1> QED BY <1>1, <1>2

(* An ingestion that ends leaves exact sums for every counterparty that    *)
(* has rows, however many ingestions of whichever wallets ran meanwhile.   *)
THEOREM SumsStayExact == Spec => SumsAreExact
<1>1. Typed /\ [Next]_vars
        => [\A w \in Wallets :
              book'[w] # book[w] =>
                \A a \in Addresses :
                  LET S == With(Meaningful(table', w), w, a) IN S # {} => book'[w][a] = S]_vars
  BY SumsChangeExactly
<1> QED BY <1>1, InitTyped, NextTyped, PTL DEF Spec, SumsAreExact

-----------------------------------------------------------------------------
(* Paging.                                                                 *)

(* What a run that pages backwards has done so far: between its cursor and *)
(* where it began there are as many transactions as its pages hold, and    *)
(* those that are in its range and its wallet's own are stored.            *)
Between(w, a, b) == {t \in Party[w] : a <= t /\ t <= b}
PagedSoFar(r) ==
  /\ run[r].pc = "ingest" => run[r].pages = 0 /\ run[r].top = 0
  /\ run[r].pc = "fetch" =>
       /\ run[r].pages = 0 => run[r].before = MaxSig + 1
       /\ run[r].pages > 0 => run[r].before <= run[r].top /\ run[r].top <= landed
       /\ Cardinality(Between(run[r].wallet, run[r].before, run[r].top)) >= PageSize * run[r].pages
       /\ \A s \in InRange(Own[run[r].wallet], run[r].range) :
            run[r].before <= s /\ s <= run[r].top => table[s].wallet = run[r].wallet
Paging == \A r \in Runs : PagedSoFar(r)

LEMMA Parties ==
  ASSUME NEW w \in Wallets
  PROVE  Party[w] \in SUBSET Sigs /\ Own[w] \subseteq Party[w]
BY DEF Party, Own

LEMMA Landings == ASSUME Typed, [Next]_vars PROVE landed \in Nat /\ landed' \in Nat /\ landed <= landed'
<1>1. landed \in Nat
  BY TypesOf, Parameters DEF Typed
<1>2. landed' = landed \/ landed' = landed + 1
  BY NextIs, FailsTyped
     DEF vars, database, ingest, RateLimited, Fails, fetchPage, applyUserTag, generateForecast,
         runFullTreasuryAnalysis, setAnalysis, submitTag, Abandoned, runFullAnalysis, runScan, reset,
         Land, TimePasses
<1> QED BY <1>1, <1>2

(* A row stays with its wallet unless another wallet's ingestion brings it,*)
(* which cannot happen to a wallet's own transaction.                      *)
LEMMA FetchedRows ==
  ASSUME Typed, NEW r \in Runs, fetchPage(r), NEW s \in Sigs
  PROVE  table'[s].wallet = IF s \in Kept(r) THEN run[r].wallet ELSE table[s].wallet
BY FetchIs DEF upsertMany

LEMMA OwnRowsStay ==
  ASSUME Typed, [Next]_vars, NEW w \in Wallets, NEW s \in Own[w], table[s].wallet = w
  PROVE  table'[s].wallet = w
<1>1. s \in Sigs /\ table \in TableType
  BY Parties, TypesOf DEF Typed
<1>2. CASE table' = table
  BY <1>2
<1>3. ASSUME NEW r \in Runs, fetchPage(r) PROVE table'[s].wallet = w
  <2>1. run[r].wallet \in Wallets /\ (s \in Kept(r) => s \in Party[run[r].wallet])
    BY <1>3, FetchIs, PageIs DEF Typed, Busy
  <2>2. s \in Kept(r) => run[r].wallet = w
    BY <2>1 DEF Own
  <2> QED BY <1>1, <1>3, <2>2, FetchedRows
<1>4. ASSUME NEW r \in Runs, applyUserTag(r) PROVE table'[s].wallet = w
  <2>1. \E S, tag : Tagged(run[r].wallet, S, tag)
    BY <1>4 DEF applyUserTag
  <2> QED BY <1>1, <2>1 DEF Tagged, TableType
<1>5. CASE TimePasses
  BY <1>1, <1>5 DEF TimePasses, TableType
<1>6. (\E r \in Runs : fetchPage(r) \/ applyUserTag(r)) \/ TimePasses \/ table' = table
  BY NextIs, FailsTyped
     DEF vars, database, ingest, RateLimited, Fails, generateForecast, runFullTreasuryAnalysis, setAnalysis,
         submitTag, Abandoned, runFullAnalysis, runScan, reset, Land
<1> QED BY <1>2, <1>3, <1>4, <1>5, <1>6

(* How a run can come to page, and to the next page.                       *)
Alike(p, q) ==
  /\ p.pc = q.pc /\ p.wallet = q.wallet /\ p.range = q.range
  /\ p.before = q.before /\ p.pages = q.pages /\ p.top = q.top
FirstPage(r) == [run[r] EXCEPT !.pc = "fetch", !.before = MaxSig + 1]
PagingRun(q) ==
  \/ run'[q].pc \notin {"ingest", "fetch"}
  \/ run'[q].pc = "ingest" /\ run'[q].pages = 0 /\ run'[q].top = 0
  \/ Alike(run'[q], run[q])
  \/ run[q].pc = "ingest" /\ run'[q] = FirstPage(q)
  \/ fetchPage(q) /\ ~IsLast(q) /\ run'[q] = Turned(q)

LEMMA AnalysesRun ==
  ASSUME Typed, NEW r \in Runs, NEW top, Analyses(r, top), NEW q \in Runs
  PROVE  PagingRun(q)
<1>1. run \in [Runs -> RunType]
  BY TypesOf DEF Typed
<1>2. run' = [run EXCEPT ![r] = NoRun] \/ run' = [run EXCEPT ![r] = Onward(r)]
  BY DEF Analyses, Onward
<1>3. NoRun.pc = "idle" /\ Onward(r).pc = "analyze"
  BY DEF NoRun, Onward
<1> QED BY <1>1, <1>2, <1>3 DEF PagingRun, Alike

LEMMA FailsRun ==
  ASSUME Typed, NEW r \in Runs, Fails(r), NEW q \in Runs
  PROVE  PagingRun(q)
<1>1. run \in [Runs -> RunType] /\ run' = [run EXCEPT ![r] = NoRun]
  BY TypesOf DEF Typed, Fails
<1>2. NoRun.pc = "idle"
  BY DEF NoRun
<1> QED BY <1>1, <1>2 DEF PagingRun, Alike

LEMMA StartsRun ==
  ASSUME Typed, NEW r \in Runs, NEW client, NEW pc \in {"tag", "ingest"}, NEW w, NEW range,
         Starts(r, client, pc, w, range), NEW q \in Runs
  PROVE  PagingRun(q)
<1> DEFINE n == [NoRun EXCEPT !.client = client, !.pc = pc, !.wallet = w, !.range = range]
<1>1. run \in [Runs -> RunType] /\ run' = [run EXCEPT ![r] = n]
  BY TypesOf DEF Typed, Starts
<1>2. n.pc = pc /\ n.pages = 0 /\ n.top = 0
  BY DEF NoRun
<1> HIDE DEF n
<1> QED BY <1>1, <1>2 DEF PagingRun, Alike

LEMMA RunsPage == ASSUME Typed, [Next]_vars, NEW q \in Runs PROVE PagingRun(q)
<1>1. run \in [Runs -> RunType]
  BY TypesOf DEF Typed
<1>2. CASE run' = run
  BY <1>2 DEF PagingRun, Alike
<1>3. ASSUME NEW r \in Runs, Fails(r) \/ applyUserTag(r) \/ submitTag(r) PROVE PagingRun(q)
  BY <1>3, FailsRun, AnalysesRun, StartsRun DEF applyUserTag, submitTag
<1>4. ASSUME NEW r \in Runs, NEW range, runFullAnalysis(r, range) PROVE PagingRun(q)
  BY <1>4, StartsRun DEF runFullAnalysis
<1>5. ASSUME NEW r \in Runs, NEW w, runScan(r, w) PROVE PagingRun(q)
  BY <1>5, StartsRun DEF runScan
<1>6. ASSUME NEW r \in Runs, ingest(r) PROVE PagingRun(q)
  <2>1. CASE Route(r).cached
    BY <1>6, <2>1, AnalysesRun DEF ingest
  <2>2. CASE ~Route(r).cached
    <3>1. run[r].pc = "ingest" /\ run' = [run EXCEPT ![r] = FirstPage(r)]
      BY <1>6, <2>2 DEF ingest, FirstPage
    <3> QED BY <1>1, <3>1 DEF PagingRun, Alike
  <2> QED BY <2>1, <2>2
<1>7. ASSUME NEW r \in Runs, RateLimited(r) \/ Abandoned(r) PROVE PagingRun(q)
  <2>1. CASE Fails(r)
    BY <2>1, FailsRun
  <2>2. CASE \/ run' = [run EXCEPT ![r] = [run[r] EXCEPT !.tries = @ + 1]]
             \/ run' = [run EXCEPT ![r] = [run[r] EXCEPT !.gone = TRUE]]
    <3>1. run[r] \in RunType
      BY <1>1
    <3>2. Alike([run[r] EXCEPT !.tries = @ + 1], run[r]) /\ Alike([run[r] EXCEPT !.gone = TRUE], run[r])
      BY <3>1 DEF Alike, RunType
    <3>3. Alike(run[q], run[q])
      BY DEF Alike
    <3>4. Alike(run'[q], run[q])
      BY <1>1, <2>2, <3>2, <3>3
    <3> QED BY <3>4 DEF PagingRun
  <2> QED BY <1>7, <2>1, <2>2 DEF RateLimited, Abandoned
<1>8. ASSUME NEW r \in Runs, fetchPage(r) PROVE PagingRun(q)
  <2>1. CASE IsLast(r)
    BY <1>8, <2>1, FetchIs, AnalysesRun
  <2>2. CASE ~IsLast(r)
    BY <1>1, <1>8, <2>2, FetchIs DEF PagingRun, Alike
  <2> QED BY <2>1, <2>2
<1>9. ASSUME NEW r \in Runs, runFullTreasuryAnalysis(r) \/ generateForecast(r) \/ setAnalysis(r)
      PROVE  PagingRun(q)
  <2>1. run[r] \in RunType
    BY <1>1
  <2>2. \E n : run' = [run EXCEPT ![r] = n] /\ n.pc \in {"insights", "answered", "idle"}
    <3>1. CASE runFullTreasuryAnalysis(r)
      <4> DEFINE n == [run[r] EXCEPT !.pc = "insights", !.result = ResultOf(run[r].wallet, run[r].range)]
      <4>1. n.pc = "insights"
        BY <2>1 DEF RunType
      <4>2. run' = [run EXCEPT ![r] = n]
        BY <3>1, AnalysisIs
      <4> QED BY <4>1, <4>2
    <3>2. CASE generateForecast(r)
      <4> DEFINE n == [run[r] EXCEPT !.pc = "answered", !.result.due = DueOf(run[r].wallet)]
      <4>1. n.pc = "answered"
        BY <2>1 DEF RunType
      <4>2. run' = [run EXCEPT ![r] = n]
        BY <3>2, ForecastIs
      <4> QED BY <4>1, <4>2
    <3>3. CASE setAnalysis(r)
      <4>1. run' = [run EXCEPT ![r] = NoRun] /\ NoRun.pc = "idle"
        BY <3>3 DEF setAnalysis, NoRun
      <4> QED BY <4>1
    <3> QED BY <1>9, <3>1, <3>2, <3>3
  <2> QED BY <1>1, <2>2 DEF PagingRun, Alike
<1>10. CASE reset \/ Land \/ TimePasses \/ UNCHANGED vars
  BY <1>2, <1>10 DEF reset, Land, TimePasses, vars
<1> QED BY <1>3, <1>4, <1>5, <1>6, <1>7, <1>8, <1>9, <1>10, NextIs

(* One page: its transactions lie just below the cursor, and when another  *)
(* page follows it is full and entirely in range.                          *)
LEMMA OnePage ==
  ASSUME Typed, NEW r \in Runs, PagedSoFar(r), fetchPage(r), NEW w, w = run[r].wallet,
         NEW s \in Own[w], s \in InRange(Own[w], run[r].range), s <= Top(r),
         s >= run[r].before \/ s \in Page(r)
  PROVE  table'[s].wallet = w
<1>1. run[r].pc = "fetch" /\ w \in Wallets /\ run[r] \in RunType
  BY FetchIs, TypesOf DEF Typed, Busy
<1>2. s \in Sigs /\ s \in Int /\ Time[s] >= Since(run[r].range)
  BY <1>1, Parties DEF Sigs, InRange
<1>3. CASE s \in Page(r)
  <2>1. s \in Kept(r)
    BY <1>2, <1>3 DEF Kept, InRange
  <2> QED BY <1>2, <2>1, FetchedRows
<1>4. CASE s >= run[r].before
  <2>1. run[r].pages # 0 /\ run[r].pages > 0
    BY <1>1, <1>2, <1>4, Parameters DEF PagedSoFar, RunType, Sigs
  <2>2. table[s].wallet = w
    BY <1>1, <1>4, <2>1 DEF PagedSoFar, Top
  <2> QED BY <1>2, <2>2, FetchedRows
<1> QED BY <1>3, <1>4

(* The page and what came before it.                                       *)
LEMMA PageAndBefore ==
  ASSUME Typed, NEW r \in Runs, PagedSoFar(r), fetchPage(r), NEW w, w = run[r].wallet,
         NEW B, B = Between(w, run[r].before, Top(r))
  PROVE  /\ w \in Wallets /\ Page(r) \in SUBSET Sigs /\ B \in SUBSET Sigs /\ Top(r) \in 0..MaxSig
         /\ Top(r) <= landed /\ run[r].pages \in Nat /\ run[r].before \in Nat
         /\ \A t \in Page(r) : t \in Party[w] /\ t < run[r].before /\ t <= Top(r)
         /\ Cardinality(B) >= PageSize * run[r].pages
         /\ Cardinality(Page(r) \cup B) = Cardinality(Page(r)) + Cardinality(B)
<1>1. run[r].pc = "fetch" /\ w \in Wallets /\ run[r] \in RunType /\ landed \in 0..MaxSig
  BY FetchIs, TypesOf DEF Typed, Busy
<1>2. run[r].before \in Nat /\ run[r].pages \in Nat /\ Top(r) \in 0..MaxSig /\ run[r].top \in Nat
  BY <1>1, Parameters DEF RunType, Top
<1>3. Page(r) \in SUBSET Sigs /\ B \in SUBSET Sigs /\ \A t \in Page(r) : t \in Party[w] /\ t < run[r].before /\ t <= landed
  BY <1>1, PageIs, Parties DEF Between
<1>4. Top(r) <= landed
  BY <1>1, <1>2 DEF PagedSoFar, Top
<1>5. \A t \in Page(r) : t <= Top(r)
  <2>1. CASE run[r].pages = 0
    BY <1>3, <2>1 DEF Top
  <2>2. CASE run[r].pages # 0
    <3>1. Top(r) = run[r].top /\ run[r].before <= run[r].top
      BY <1>1, <1>2, <2>2 DEF PagedSoFar, Top
    <3>2. \A t \in Page(r) : t \in Int
      BY <1>3 DEF Sigs
    <3> QED BY <1>2, <1>3, <3>1, <3>2
  <2> QED BY <2>1, <2>2
<1>6. Cardinality(B) >= PageSize * run[r].pages
  <2>1. CASE run[r].pages = 0
    BY <1>3, <2>1, SigsAreFinite, Parameters
  <2>2. CASE run[r].pages # 0
    BY <1>1, <2>2 DEF PagedSoFar, Top
  <2> QED BY <2>1, <2>2
<1>7. Page(r) \cap B = {}
  <2> SUFFICES ASSUME NEW t \in Page(r), t \in B PROVE FALSE
    OBVIOUS
  <2>1. t \in Int /\ t < run[r].before /\ run[r].before <= t
    BY <1>3 DEF Sigs, Between
  <2> QED BY <1>2, <2>1
<1>8. Cardinality(Page(r) \cup B) = Cardinality(Page(r)) + Cardinality(B)
  <2>1. /\ IsFiniteSet(Page(r)) /\ IsFiniteSet(B)
        /\ Cardinality(Page(r)) \in Nat /\ Cardinality(B) \in Nat
    BY <1>3, SigsAreFinite
  <2>2. Cardinality(Page(r) \cup B) = Cardinality(Page(r)) + Cardinality(B) - Cardinality(Page(r) \cap B)
    BY <2>1, FS_Union
  <2>3. Cardinality(Page(r) \cap B) = 0
    BY <1>7, FS_EmptySet
  <2> QED BY <2>1, <2>2, <2>3
<1> QED BY <1>1, <1>2, <1>3, <1>4, <1>5, <1>6, <1>8

(* Multiples of the page size.                                             *)
LEMMA Multiples ==
  ASSUME NEW n \in Nat, NEW m \in Nat
  PROVE  /\ PageSize * (n + 1) = PageSize * n + PageSize
         /\ n >= m => PageSize * n >= PageSize * m
         /\ PageSize * n \in Nat
BY Parameters

LEMMA NextPage ==
  ASSUME Typed, [Next]_vars, NEW r \in Runs, PagedSoFar(r), fetchPage(r), ~IsLast(r), run'[r] = Turned(r)
  PROVE  PagedSoFar(r)'
<1> DEFINE w == run[r].wallet
           B == Between(w, run[r].before, Top(r))
           least == Cursor(Page(r))
<1>1. /\ w \in Wallets /\ Page(r) \in SUBSET Sigs /\ B \in SUBSET Sigs /\ Top(r) \in 0..MaxSig
      /\ Top(r) <= landed /\ run[r].pages \in Nat /\ run[r].before \in Nat
      /\ \A t \in Page(r) : t \in Party[w] /\ t < run[r].before /\ t <= Top(r)
      /\ Cardinality(B) >= PageSize * run[r].pages
      /\ Cardinality(Page(r) \cup B) = Cardinality(Page(r)) + Cardinality(B)
  BY PageAndBefore
<1>2. run[r] \in RunType /\ run[r].pc = "fetch"
  BY FetchIs, TypesOf DEF Typed
<1>3. /\ run'[r].pc = "fetch" /\ run'[r].wallet = w /\ run'[r].range = run[r].range
      /\ run'[r].before = least /\ run'[r].pages = run[r].pages + 1 /\ run'[r].top = Top(r)
  BY <1>2 DEF Turned, RunType
<1>4. Cardinality(Page(r)) \in Nat /\ Cardinality(Page(r)) >= PageSize /\ Page(r) # {}
  BY <1>1, SigsAreFinite, Parameters DEF IsLast
<1>5. least \in Page(r) /\ least \in Sigs /\ \A t \in Page(r) : least <= t
  BY <1>1, <1>4, SigMin DEF Cursor
<1>6. least <= Top(r) /\ Top(r) <= landed' /\ landed' = landed
  BY <1>1, <1>5, FetchIs
<1>7. Cardinality(Between(w, least, Top(r))) >= PageSize * (run[r].pages + 1)
  <2> DEFINE N == Between(w, least, Top(r))
  <2>1. N \in SUBSET Sigs /\ IsFiniteSet(N) /\ Cardinality(N) \in Nat
    BY <1>1, Parties, SigsAreFinite DEF Between
  <2>2. Page(r) \subseteq N
    BY <1>1, <1>5 DEF Between
  <2>3. B \subseteq N
    <3> SUFFICES ASSUME NEW t \in B PROVE least <= t
      BY DEF Between
    <3>1. t \in Int /\ run[r].before <= t /\ least \in Int /\ least < run[r].before
      BY <1>1, <1>5 DEF Sigs, Between
    <3> QED BY <1>1, <3>1
  <2>4. Cardinality(Page(r) \cup B) <= Cardinality(N)
    BY <2>1, <2>2, <2>3, FS_Subset
  <2>5. Cardinality(B) \in Nat
    BY <1>1, SigsAreFinite
  <2>6. PageSize * (run[r].pages + 1) = PageSize * run[r].pages + PageSize /\ PageSize * run[r].pages \in Nat
    BY <1>1, Multiples
  <2>7. Cardinality(N) >= PageSize * run[r].pages + PageSize
    <3> DEFINE x == PageSize * run[r].pages
               c == Cardinality(Page(r))
               b == Cardinality(B)
               n == Cardinality(N)
    <3>1. b >= x /\ c >= PageSize /\ c + b <= n /\ x \in Nat /\ c \in Nat /\ b \in Nat /\ n \in Nat /\ PageSize \in Nat
      BY <1>1, <1>4, <2>1, <2>4, <2>5, <2>6, Parameters
    <3> HIDE DEF x, c, b, n
    <3>2. n >= x + PageSize
      BY <3>1
    <3> QED BY <3>2 DEF x, n
  <2> QED BY <2>6, <2>7
<1>8. ASSUME NEW s \in InRange(Own[w], run[r].range), least <= s, s <= Top(r)
      PROVE  table'[s].wallet = w
  <2>1. s \in Own[w] /\ s \in Party[w] /\ s \in Sigs /\ s \in Int
    BY <1>1, Parties DEF InRange, Sigs
  <2>2. s < run[r].before => s \in Page(r)
    <3> SUFFICES ASSUME s < run[r].before PROVE s \in Page(r)
      OBVIOUS
    <3> DEFINE P == {t \in Party[w] : t < run[r].before /\ t <= landed}
    <3>1. Page(r) = Newest(P, PageSize)
      BY DEF Page, PageBelow
    <3>2. s <= landed
      BY <1>1, <1>8, <2>1, Landings
    <3>3. P \in SUBSET Sigs /\ s \in P
      BY <1>1, <2>1, <3>2, Parties
    <3> HIDE DEF P
    <3> QED BY <1>5, <1>8, <2>1, <3>1, <3>3, NewestIsUpward, Parameters
  <2>3. s >= run[r].before \/ s \in Page(r)
    BY <1>1, <2>1, <2>2
  <2> QED BY <1>8, <2>1, <2>3, OnePage
<1>9. run[r].pages + 1 > 0 /\ run[r].pages + 1 # 0
  BY <1>1
<1> HIDE DEF w, least
<1> QED BY <1>3, <1>6, <1>7, <1>8, <1>9 DEF PagedSoFar

LEMMA SamePage ==
  ASSUME Typed, [Next]_vars, NEW r \in Runs, PagedSoFar(r), Alike(run'[r], run[r])
  PROVE  PagedSoFar(r)'
<1>1. CASE run[r].pc # "fetch"
  BY <1>1 DEF PagedSoFar, Alike
<1>2. CASE run[r].pc = "fetch"
  <2>1. run[r].wallet \in Wallets /\ run[r] \in RunType
    BY <1>2, TypesOf DEF Typed, Busy
  <2>2. run[r].top <= landed => run[r].top <= landed'
    <3>1. run[r].top \in Int
      BY <2>1 DEF RunType
    <3> QED BY <3>1, Landings
  <2>3. ASSUME NEW s \in InRange(Own[run[r].wallet], run[r].range), run[r].before <= s, s <= run[r].top
        PROVE  table'[s].wallet = run[r].wallet
    <3>1. s \in Own[run[r].wallet] /\ table[s].wallet = run[r].wallet
      BY <1>2, <2>3 DEF PagedSoFar, InRange
    <3> QED BY <2>1, <3>1, OwnRowsStay
  <2> QED BY <1>2, <2>2, <2>3 DEF PagedSoFar, Alike
<1> QED BY <1>1, <1>2

LEMMA PagingStep == Typed /\ Paging /\ [Next]_vars => Paging'
<1> SUFFICES ASSUME Typed, Paging, [Next]_vars, NEW r \in Runs PROVE PagedSoFar(r)'
  BY DEF Paging
<1>1. PagedSoFar(r)
  BY DEF Paging
<1>2. CASE \/ run'[r].pc \notin {"ingest", "fetch"}
           \/ run'[r].pc = "ingest" /\ run'[r].pages = 0 /\ run'[r].top = 0
  BY <1>2 DEF PagedSoFar
<1>3. CASE Alike(run'[r], run[r])
  BY <1>1, <1>3, SamePage
<1>4. CASE run[r].pc = "ingest" /\ run'[r] = FirstPage(r)
  <2>1. run[r].wallet \in Wallets /\ run[r] \in RunType /\ run[r].pages = 0 /\ run[r].top = 0
    BY <1>1, <1>4, TypesOf DEF Typed, Busy, PagedSoFar
  <2>2. /\ run'[r].pc = "fetch" /\ run'[r].pages = 0 /\ run'[r].before = MaxSig + 1
        /\ run'[r].top = 0 /\ run'[r].wallet = run[r].wallet
    BY <1>4, <2>1 DEF FirstPage, RunType
  <2>3. Between(run[r].wallet, MaxSig + 1, 0) \in SUBSET Sigs
    BY <2>1, Parties DEF Between
  <2>4. Cardinality(Between(run[r].wallet, MaxSig + 1, 0)) >= PageSize * 0
    BY <2>3, SigsAreFinite, Parameters
  <2>5. ASSUME NEW range, NEW s \in InRange(Own[run[r].wallet], range), s <= 0 PROVE FALSE
    <3>1. s \in Sigs
      BY <2>1, <2>5, Parties DEF InRange
    <3> QED BY <2>5, <3>1 DEF Sigs
  <2> QED BY <2>2, <2>4, <2>5 DEF PagedSoFar
<1>5. CASE fetchPage(r) /\ ~IsLast(r) /\ run'[r] = Turned(r)
  BY <1>1, <1>5, NextPage
<1> QED BY <1>2, <1>3, <1>4, <1>5, RunsPage DEF PagingRun

LEMMA InitPaging == Init => Paging
BY DEF Init, Paging, PagedSoFar, NoRun

(* While an ingestion pages backwards, what it passed is stored, whatever  *)
(* lands on chain and whatever other ingestions bring.                     *)
THEOREM PagesLeaveNoHoles == Spec => []NoHoles
<1>1. Paging => NoHoles
  BY DEF Paging, PagedSoFar, NoHoles
<1> QED BY <1>1, InitTyped, NextTyped, InitPaging, PagingStep, PTL DEF Spec

-----------------------------------------------------------------------------
(* The scanner.                                                            *)

(* What a scan owes its visitor: the wallet's own transactions in range    *)
(* among the newest that its pages hold.                                   *)
Owed(w, top) ==
  {s \in Newest({t \in Party[w] : t <= top}, PageSize * PublicPages) : s \in InRange(Own[w], ScanRange)}
BroughtTo(t, w, top) == \A s \in Owed(w, top) : t[s].wallet = w
Shows(a, w, top) ==
  /\ a.wallet = w
  /\ \A s \in Owed(w, top) : ~Normal[w][s].is_noise =>
       \/ s \in a.found
       \/ Cardinality({t \in a.found : t > s}) >= RowLimit

LEMMA OwedAreOwn ==
  ASSUME NEW w \in Wallets, NEW top
  PROVE  Owed(w, top) \subseteq Own[w] /\ Owed(w, top) \subseteq Sigs
BY Parties DEF Owed, InRange

(* The last page of a scan brings all it owes.                             *)
LEMMA LastPage ==
  ASSUME Typed, NEW r \in Runs, PagedSoFar(r), fetchPage(r), IsLast(r),
         run[r].client = "scan", run[r].range = ScanRange, NEW w, w = run[r].wallet
  PROVE  BroughtTo(table', w, Top(r))
<1> DEFINE B == Between(w, run[r].before, Top(r))
           A == {t \in Party[w] : t <= Top(r)}
           N == PageSize * PublicPages
           P == {t \in Party[w] : t < run[r].before /\ t <= landed}
<1>1. /\ w \in Wallets /\ Page(r) \in SUBSET Sigs /\ B \in SUBSET Sigs /\ Top(r) \in 0..MaxSig
      /\ Top(r) <= landed /\ run[r].pages \in Nat /\ run[r].before \in Nat
      /\ \A t \in Page(r) : t \in Party[w] /\ t < run[r].before /\ t <= Top(r)
      /\ Cardinality(B) >= PageSize * run[r].pages
      /\ Cardinality(Page(r) \cup B) = Cardinality(Page(r)) + Cardinality(B)
  <2> DEFINE v == run[r].wallet
             C == Between(v, run[r].before, Top(r))
  <2>1. /\ v \in Wallets /\ Page(r) \in SUBSET Sigs /\ C \in SUBSET Sigs /\ Top(r) \in 0..MaxSig
        /\ Top(r) <= landed /\ run[r].pages \in Nat /\ run[r].before \in Nat
        /\ \A t \in Page(r) : t \in Party[v] /\ t < run[r].before /\ t <= Top(r)
        /\ Cardinality(C) >= PageSize * run[r].pages
        /\ Cardinality(Page(r) \cup C) = Cardinality(Page(r)) + Cardinality(C)
    BY PageAndBefore
  <2>2. v = w /\ B = C
    OBVIOUS
  <2> HIDE DEF v, C, A, B, N, P
  <2> QED BY <2>1, <2>2
<1> SUFFICES ASSUME NEW s \in Owed(w, Top(r)), s < run[r].before, s \notin Page(r) PROVE FALSE
  <2>1. ASSUME NEW s \in Owed(w, Top(r)), ~(s < run[r].before) \/ s \in Page(r) PROVE table'[s].wallet = w
    <3>1. s \in Own[w] /\ s \in InRange(Own[w], run[r].range) /\ s <= Top(r) /\ s \in Sigs
      BY <1>1, Parties DEF Owed, InRange, Newest
    <3>2. s >= run[r].before \/ s \in Page(r)
      BY <1>1, <2>1, <3>1 DEF Sigs
    <3> QED BY <3>1, <3>2, OnePage
  <2> QED BY <2>1 DEF BroughtTo
<1>2. /\ s \in Sigs /\ s \in Int /\ s \in Party[w] /\ s <= Top(r) /\ Time[s] >= Since(ScanRange)
      /\ s \in A /\ Cardinality(From(A, s)) <= N
  BY <1>1, Parties DEF Owed, InRange, Newest, Sigs, From
<1>3. P \in SUBSET Sigs /\ s \in P /\ Page(r) = Newest(P, PageSize)
  <2>1. s <= landed /\ Page(r) = Newest(P, PageSize)
    BY <1>1, <1>2, TypesOf DEF Page, PageBelow, Typed
  <2> QED BY <1>1, <1>2, <2>1, Parties
<1>4. Cardinality({t \in Page(r) : t > s}) >= PageSize /\ \A t \in Page(r) : t > s
  <2> HIDE DEF P
  <2> QED BY <1>3, NewestIsFull, Parameters
<1>5. {t \in Page(r) : t > s} = Page(r)
  BY <1>4
<1>6. Cardinality(Page(r)) >= PageSize
  BY <1>4, <1>5
<1>7. Page(r) = Kept(r)
  <2> SUFFICES ASSUME NEW t \in Page(r) PROVE Time[t] >= Since(ScanRange)
    BY DEF Kept, InRange
  <2>1. t \in Sigs /\ s < t
    BY <1>1, <1>4 DEF Sigs
  <2>2. Time[s] <= Time[t] /\ Time[s] \in Int /\ Time[t] \in Int
    BY <1>2, <2>1, LedgerAssumption
  <2>3. Since(ScanRange) \in Int
    BY LedgerAssumption, Parameters DEF Since
  <2> QED BY <1>2, <2>2, <2>3
<1>8. run[r].pages + 1 >= PublicPages
  <2>1. Route(r).pages = PublicPages
    BY DEF Route, PublicIngest
  <2>2. Cardinality(Page(r)) \in Nat
    BY <1>1, SigsAreFinite
  <2> QED BY <1>6, <1>7, <2>1, <2>2, Parameters DEF IsLast
<1>9. Cardinality(Page(r) \cup B) >= N
  <2>1. PageSize * (run[r].pages + 1) >= N /\ PageSize * (run[r].pages + 1) = PageSize * run[r].pages + PageSize
        /\ N \in Nat /\ PageSize * run[r].pages \in Nat
    <3>1. run[r].pages + 1 \in Nat /\ PublicPages \in Nat
      BY <1>1, Parameters
    <3>2. PageSize * (run[r].pages + 1) >= N /\ N \in Nat
      BY <1>8, <3>1, Multiples
    <3>3. PageSize * (run[r].pages + 1) = PageSize * run[r].pages + PageSize /\ PageSize * run[r].pages \in Nat
      BY <1>1, Multiples
    <3> QED BY <3>2, <3>3
  <2>2. Cardinality(Page(r)) \in Nat /\ Cardinality(B) \in Nat /\ PageSize \in Nat
    BY <1>1, SigsAreFinite, Parameters
  <2> DEFINE x == PageSize * run[r].pages
             c == Cardinality(Page(r))
             b == Cardinality(B)
             y == PageSize * (run[r].pages + 1)
  <2>3. /\ y >= N /\ y = x + PageSize /\ b >= x /\ c >= PageSize
        /\ x \in Nat /\ c \in Nat /\ b \in Nat /\ N \in Nat /\ PageSize \in Nat
        /\ Cardinality(Page(r) \cup B) = c + b
    BY <1>1, <1>6, <2>1, <2>2
  <2> HIDE DEF x, c, b, y, N
  <2> QED BY <2>3
<1>10. Cardinality(From(A, s)) >= Cardinality(Page(r) \cup B) + 1
  <2>1. A \in SUBSET Sigs /\ From(A, s) \in SUBSET Sigs
    BY <1>1, Parties DEF From
  <2>2. s \notin Page(r) \cup B
    BY <1>1, <1>2 DEF Between
  <2>3. Page(r) \subseteq From(A, s)
    BY <1>1, <1>2, <1>4 DEF From, Sigs
  <2>4. B \subseteq From(A, s)
    <3> SUFFICES ASSUME NEW t \in B PROVE t >= s /\ t \in A
      BY DEF From
    <3>1. t \in Int /\ run[r].before <= t /\ t \in Party[w] /\ t <= Top(r)
      BY <1>1 DEF Sigs, Between
    <3> QED BY <1>1, <1>2, <3>1
  <2>5. s \in From(A, s)
    BY <1>2 DEF From
  <2>6. (Page(r) \cup B) \cup {s} \subseteq From(A, s)
    BY <2>3, <2>4, <2>5
  <2>7. IsFiniteSet(Page(r) \cup B) /\ Cardinality(Page(r) \cup B) \in Nat
    BY <1>1, SigsAreFinite
  <2>8. Cardinality((Page(r) \cup B) \cup {s}) = Cardinality(Page(r) \cup B) + 1
    BY <2>2, <2>7, FS_AddElement
  <2>9. Cardinality((Page(r) \cup B) \cup {s}) <= Cardinality(From(A, s))
    BY <2>1, <2>6, SigsAreFinite, FS_Subset
  <2> QED BY <2>8, <2>9
<1>11. Cardinality(From(A, s)) \in Nat /\ Cardinality(Page(r) \cup B) \in Nat /\ N \in Nat
  <2>1. From(A, s) \in SUBSET Sigs /\ Page(r) \cup B \in SUBSET Sigs
    BY <1>1, Parties DEF From
  <2> QED BY <2>1, SigsAreFinite, Parameters
<1> DEFINE f == Cardinality(From(A, s))
           u == Cardinality(Page(r) \cup B)
<1>12. f <= N /\ u >= N /\ f >= u + 1 /\ f \in Nat /\ u \in Nat /\ N \in Nat
  BY <1>2, <1>9, <1>10, <1>11
<1> HIDE DEF f, u, N
<1> QED BY <1>12

(* An analysis lists all that was brought, as far as the list reaches.     *)
LEMMA AnalysisShows ==
  ASSUME Typed, NEW w \in Wallets, NEW top, BroughtTo(table, w, top)
  PROVE  Shows(ResultOf(w, ScanRange), w, top)
<1> DEFINE X == InRange(Meaningful(table, w), ScanRange)
<1>1. /\ ResultOf(w, ScanRange).wallet = w
      /\ ResultOf(w, ScanRange).found = Newest(X, RowLimit)
  BY DEF ResultOf, Stored
<1>2. ASSUME NEW s \in Owed(w, top), ~Normal[w][s].is_noise, s \notin Newest(X, RowLimit)
      PROVE  Cardinality({t \in Newest(X, RowLimit) : t > s}) >= RowLimit
  <2>1. s \in X
    <3>1. s \in Sigs /\ table[s].wallet = w
      BY OwedAreOwn DEF BroughtTo
    <3> QED BY <1>2, <3>1 DEF Owed, InRange, Meaningful, Rows
  <2>2. X \in SUBSET Sigs
    BY RowsAreSigs DEF InRange
  <2> HIDE DEF X
  <2> QED BY <1>2, <2>1, <2>2, NewestIsFull, Parameters
<1> HIDE DEF X
<1> QED BY <1>1, <1>2 DEF Shows

(* A run the scanner listens to, what it may be about to answer, and that  *)
(* there is one at a time.                                                 *)
Scanner(q) == q.client = "scan" /\ ~q.gone
ScanRun(q, sc, t) ==
  /\ q.wallet = sc.scanned /\ q.range = ScanRange
  /\ \/ q.pc \in {"ingest", "fetch"} /\ sc.phase = "ingesting"
     \/ q.pc \in {"analyze", "insights", "answered"} /\ sc.phase = "analyzing"
  /\ q.pc = "analyze" => BroughtTo(t, sc.scanned, sc.top)
  /\ q.pc \in {"insights", "answered"} => Shows(q.result, sc.scanned, sc.top)
Scans ==
  /\ \A r, q \in Runs : Scanner(run[r]) /\ Scanner(run[q]) => r = q
  /\ \A r \in Runs : Scanner(run[r]) => ScanRun(run[r], scan, table)
  /\ scan.phase = "done" => Shows(scan.analysis, scan.scanned, scan.top)

LEMMA WhatWasBroughtStays ==
  ASSUME Typed, [Next]_vars, NEW w \in Wallets, NEW top, BroughtTo(table, w, top)
  PROVE  BroughtTo(table', w, top)
<1> SUFFICES ASSUME NEW s \in Owed(w, top) PROVE table'[s].wallet = w
  BY DEF BroughtTo
<1>1. s \in Own[w] /\ table[s].wallet = w
  BY OwedAreOwn DEF BroughtTo
<1> QED BY <1>1, OwnRowsStay

(* A run of the scanner is at work for a wallet.                           *)
LEMMA ScannersWork ==
  ASSUME Typed, Scans, NEW r \in Runs, Scanner(run[r])
  PROVE  /\ run[r].pc # "idle" /\ run[r].wallet \in Wallets /\ run[r].wallet = scan.scanned
         /\ scan.phase \in {"ingesting", "analyzing"} /\ ScanRun(run[r], scan, table)
         /\ \A q \in Runs \ {r} : ~Scanner(run[q])
BY DEF Scans, ScanRun, Typed, Busy

(* Steps that leave the scanner as it is, and its run about as far.        *)
Similar(p, q) ==
  /\ p.wallet = q.wallet /\ p.range = q.range
  /\ \/ p.pc = q.pc
     \/ p.pc \in {"ingest", "fetch"} /\ q.pc \in {"ingest", "fetch"}
     \/ q.pc = "insights" /\ p.pc = "answered"
  /\ p.result.wallet = q.result.wallet /\ p.result.found = q.result.found
Analysed(p, q) ==
  /\ q.pc = "analyze" /\ p.pc = "insights" /\ p.wallet = q.wallet /\ p.range = q.range
  /\ p.result = ResultOf(q.wallet, q.range)

LEMMA QuietSteps ==
  ASSUME Typed, Scans, [Next]_vars, scan' = scan,
         \A r \in Runs : Scanner(run'[r]) =>
           Scanner(run[r]) /\ (Similar(run'[r], run[r]) \/ Analysed(run'[r], run[r]))
  PROVE  Scans'
<1>1. \A r, q \in Runs : Scanner(run'[r]) /\ Scanner(run'[q]) => r = q
  BY DEF Scans
<1>2. ASSUME NEW r \in Runs, Scanner(run'[r]) PROVE ScanRun(run'[r], scan', table')
  <2> DEFINE w == scan.scanned
             top == scan.top
  <2>1. /\ Scanner(run[r]) /\ ScanRun(run[r], scan, table) /\ run[r].wallet = w /\ w \in Wallets
        /\ run[r].range = ScanRange
    BY <1>2, ScannersWork DEF ScanRun
  <2>2. BroughtTo(table, w, top) => BroughtTo(table', w, top)
    BY <2>1, WhatWasBroughtStays
  <2>3. CASE Similar(run'[r], run[r])
    <3>1. Shows(run[r].result, w, top) => Shows(run'[r].result, w, top)
      BY <2>3 DEF Similar, Shows
    <3> HIDE DEF w, top
    <3>2. /\ run'[r].wallet = w /\ run'[r].range = ScanRange
          /\ \/ run'[r].pc = run[r].pc
             \/ run'[r].pc \in {"ingest", "fetch"} /\ run[r].pc \in {"ingest", "fetch"}
             \/ run[r].pc = "insights" /\ run'[r].pc = "answered"
      BY <2>1, <2>3 DEF Similar
    <3>3. /\ \/ run'[r].pc \in {"ingest", "fetch"} /\ scan.phase = "ingesting"
             \/ run'[r].pc \in {"analyze", "insights", "answered"} /\ scan.phase = "analyzing"
          /\ run'[r].pc = "analyze" => BroughtTo(table', w, top)
          /\ run'[r].pc \in {"insights", "answered"} => Shows(run'[r].result, w, top)
      BY <2>1, <2>2, <3>1, <3>2 DEF ScanRun, w, top
    <3> QED BY <3>2, <3>3 DEF ScanRun, w, top
  <2>4. CASE Analysed(run'[r], run[r])
    <3>1. BroughtTo(table, w, top) /\ scan.phase = "analyzing"
      BY <2>1, <2>4 DEF ScanRun, Analysed
    <3>2. Shows(run'[r].result, w, top)
      BY <2>1, <2>4, <3>1, AnalysisShows DEF Analysed
    <3> QED BY <2>1, <2>4, <3>1, <3>2 DEF ScanRun, Analysed
  <2> QED BY <1>2, <2>3, <2>4
<1> QED BY <1>1, <1>2 DEF Scans

(* Steps after which the scanner listens to no run.                        *)
LEMMA EndingSteps ==
  ASSUME \A r \in Runs : ~Scanner(run'[r]),
         scan'.phase = "done" => Shows(scan'.analysis, scan'.scanned, scan'.top)
  PROVE  Scans'
BY DEF Scans

(* Steps after which it listens to the run that made them.                 *)
LEMMA ScannerSteps ==
  ASSUME NEW r \in Runs, \A q \in Runs \ {r} : ~Scanner(run'[q]), ScanRun(run'[r], scan', table'), scan'.phase # "done"
  PROVE  Scans'
BY DEF Scans

LEMMA OthersStay ==
  ASSUME Typed, NEW r \in Runs, NEW n, run' = [run EXCEPT ![r] = n]
  PROVE  run'[r] = n /\ \A q \in Runs \ {r} : run'[q] = run[q]
BY TypesOf DEF Typed

LEMMA SimilarToItself == ASSUME NEW q PROVE Similar(q, q)
BY DEF Similar

(* A step of a run that leaves the scanner as it is.                       *)
LEMMA QuietStep ==
  ASSUME Typed, Scans, [Next]_vars, scan' = scan, NEW r \in Runs, NEW n, run' = [run EXCEPT ![r] = n],
         Scanner(n) => Scanner(run[r]) /\ (Similar(n, run[r]) \/ Analysed(n, run[r]))
  PROVE  Scans'
<1>1. \A q \in Runs : Scanner(run'[q]) =>
        Scanner(run[q]) /\ (Similar(run'[q], run[q]) \/ Analysed(run'[q], run[q]))
  BY OthersStay, SimilarToItself
<1> QED BY <1>1, QuietSteps

(* A run that ends and tells its client.                                   *)
LEMMA TellingStep ==
  ASSUME Typed, Scans, [Next]_vars, NEW r \in Runs, NEW n, run' = [run EXCEPT ![r] = n], ~Scanner(n), Told(r)
  PROVE  Scans'
<1>1. run'[r] = n /\ \A q \in Runs \ {r} : run'[q] = run[q]
  BY OthersStay
<1>2. CASE Scanner(run[r])
  <2>1. scan' = [scan EXCEPT !.phase = "error"] /\ scan \in ScanType
    BY <1>2, TypesOf DEF Told, For, Scanner, Typed
  <2>2. scan'.phase # "done"
    BY <2>1 DEF ScanType
  <2>3. \A q \in Runs : ~Scanner(run'[q])
    BY <1>1, <1>2, ScannersWork
  <2> QED BY <2>2, <2>3, EndingSteps
<1>3. CASE ~Scanner(run[r])
  <2>1. scan' = scan
    BY <1>3 DEF Told, For, Scanner
  <2> QED BY <2>1, QuietStep
<1> QED BY <1>2, <1>3

LEMMA NoRunIsNoScanner == ~Scanner(NoRun)
BY DEF Scanner, NoRun

(* A run that goes on to its analysis.                                     *)
LEMMA AnalyzingStep ==
  ASSUME Typed, Scans, [Next]_vars, NEW r \in Runs, run[r].pc \in {"ingest", "fetch", "tag"},
         NEW top \in 0..MaxSig, Analyses(r, top),
         Scanner(run[r]) => BroughtTo(table', run[r].wallet, top)
  PROVE  Scans'
<1>1. run[r] \in RunType /\ scan \in ScanType
  BY TypesOf DEF Typed
<1>2. CASE run[r].gone
  <2>1. run' = [run EXCEPT ![r] = NoRun] /\ scan' = scan
    BY <1>2 DEF Analyses
  <2> QED BY <2>1, QuietStep, NoRunIsNoScanner
<1>3. CASE ~run[r].gone /\ run[r].client # "scan"
  <2>1. run' = [run EXCEPT ![r] = Onward(r)] /\ scan' = scan
    BY <1>3 DEF Analyses, Onward
  <2>2. ~Scanner(Onward(r))
    BY <1>3 DEF Scanner, Onward, NoRun
  <2> QED BY <2>1, <2>2, QuietStep
<1>4. CASE ~run[r].gone /\ run[r].client = "scan"
  <2>1. run' = [run EXCEPT ![r] = Onward(r)] /\ scan' = [scan EXCEPT !.phase = "analyzing", !.top = top]
    BY <1>4 DEF Analyses, Onward
  <2>2. run'[r] = Onward(r) /\ \A q \in Runs \ {r} : run'[q] = run[q]
    BY <2>1, OthersStay
  <2>3. Scanner(run[r])
    BY <1>4 DEF Scanner
  <2>4. run[r].wallet = scan.scanned /\ run[r].range = ScanRange
    BY <2>3, ScannersWork DEF ScanRun
  <2>5. scan'.phase = "analyzing" /\ scan'.scanned = run[r].wallet /\ scan'.top = top
    BY <1>1, <2>1, <2>4 DEF ScanType
  <2>6. Onward(r).pc = "analyze" /\ Onward(r).wallet = run[r].wallet /\ Onward(r).range = ScanRange
    BY <2>4 DEF Onward, NoRun
  <2>7. ScanRun(run'[r], scan', table')
    BY <2>2, <2>3, <2>5, <2>6 DEF ScanRun
  <2>8. \A q \in Runs \ {r} : ~Scanner(run'[q])
    BY <2>2, <2>3, ScannersWork
  <2> QED BY <2>5, <2>7, <2>8, ScannerSteps
<1> QED BY <1>2, <1>3, <1>4

(* A request that fails.                                                   *)
LEMMA FailingStep == ASSUME Typed, Scans, [Next]_vars, NEW r \in Runs, Fails(r) PROVE Scans'
BY TellingStep, NoRunIsNoScanner DEF Fails

(* An ingestion that the server spares owes nothing: no transaction is     *)
(* older than the oldest.                                                  *)
LEMMA NothingOwed == ASSUME NEW w \in Wallets, NEW t PROVE BroughtTo(t, w, 0)
<1>1. {s \in Party[w] : s <= 0} = {}
  BY Parties DEF Sigs
<1>2. Newest({}, PageSize * PublicPages) = {}
  BY DEF Newest
<1>3. Owed(w, 0) = {}
  BY <1>1, <1>2 DEF Owed
<1> QED BY <1>3 DEF BroughtTo

LEMMA IngestScans == ASSUME Typed, Scans, [Next]_vars, NEW r \in Runs, ingest(r) PROVE Scans'
<1>1. run[r] \in RunType /\ 0 \in 0..MaxSig /\ run[r].pc = "ingest"
  BY TypesOf, Parameters DEF Typed, ingest
<1>2. CASE Route(r).cached
  <2>1. Analyses(r, 0)
    BY <1>2 DEF ingest
  <2>2. Scanner(run[r]) => BroughtTo(table', run[r].wallet, 0)
    BY ScannersWork, NothingOwed
  <2> QED BY <1>1, <2>1, <2>2, AnalyzingStep
<1>3. CASE ~Route(r).cached
  <2> DEFINE n == FirstPage(r)
  <2>1. run' = [run EXCEPT ![r] = n] /\ scan' = scan
    BY <1>3 DEF ingest, FirstPage
  <2>2. n.pc = "fetch" /\ n.wallet = run[r].wallet /\ n.range = run[r].range /\ n.result = run[r].result
        /\ n.client = run[r].client /\ n.gone = run[r].gone
    BY <1>1 DEF FirstPage, RunType
  <2> HIDE DEF n
  <2>3. Scanner(n) => Scanner(run[r]) /\ Similar(n, run[r])
    BY <1>1, <2>2 DEF Scanner, Similar
  <2> QED BY <2>1, <2>3, QuietStep
<1> QED BY <1>2, <1>3

LEMMA FetchScans == ASSUME Typed, Paging, Scans, [Next]_vars, NEW r \in Runs, fetchPage(r) PROVE Scans'
<1>1. run[r] \in RunType /\ run[r].pc = "fetch" /\ PagedSoFar(r)
  BY TypesOf DEF Typed, fetchPage, Paging
<1>2. CASE IsLast(r)
  <2>1. Analyses(r, Top(r))
    BY <1>2, FetchIs
  <2>2. Top(r) \in 0..MaxSig
    BY <1>1, TypesOf DEF Typed, Top, RunType
  <2>3. Scanner(run[r]) => BroughtTo(table', run[r].wallet, Top(r))
    <3> SUFFICES ASSUME Scanner(run[r]) PROVE BroughtTo(table', run[r].wallet, Top(r))
      OBVIOUS
    <3>1. run[r].client = "scan" /\ run[r].range = ScanRange
      BY ScannersWork DEF Scanner, ScanRun
    <3> QED BY <1>1, <1>2, <3>1, LastPage
  <2> QED BY <1>1, <2>1, <2>2, <2>3, AnalyzingStep
<1>3. CASE ~IsLast(r)
  <2> DEFINE n == Turned(r)
  <2>1. run' = [run EXCEPT ![r] = n] /\ scan' = scan
    BY <1>3, FetchIs
  <2>2. n.pc = run[r].pc /\ n.wallet = run[r].wallet /\ n.range = run[r].range /\ n.result = run[r].result
        /\ n.client = run[r].client /\ n.gone = run[r].gone
    BY <1>1 DEF Turned, RunType
  <2> HIDE DEF n
  <2>3. Scanner(n) => Scanner(run[r]) /\ Similar(n, run[r])
    BY <1>1, <2>2 DEF Scanner, Similar
  <2> QED BY <2>1, <2>3, QuietStep
<1> QED BY <1>2, <1>3

LEMMA RateLimitedScans == ASSUME Typed, Scans, [Next]_vars, NEW r \in Runs, RateLimited(r) PROVE Scans'
<1>1. run[r] \in RunType
  BY TypesOf DEF Typed
<1>2. CASE GivesUp(r)
  BY <1>2, FailingStep DEF RateLimited
<1>3. CASE ~GivesUp(r)
  <2> DEFINE n == [run[r] EXCEPT !.tries = @ + 1]
  <2>1. run' = [run EXCEPT ![r] = n] /\ scan' = scan
    BY <1>3 DEF RateLimited
  <2>2. n.pc = run[r].pc /\ n.wallet = run[r].wallet /\ n.range = run[r].range /\ n.result = run[r].result
        /\ n.client = run[r].client /\ n.gone = run[r].gone
    BY <1>1 DEF RunType
  <2> HIDE DEF n
  <2>3. Scanner(n) => Scanner(run[r]) /\ Similar(n, run[r])
    BY <1>1, <2>2 DEF Scanner, Similar
  <2> QED BY <2>1, <2>3, QuietStep
<1> QED BY <1>2, <1>3

LEMMA AnalysisScans ==
  ASSUME Typed, Scans, [Next]_vars, NEW r \in Runs, runFullTreasuryAnalysis(r) PROVE Scans'
<1> DEFINE n == [run[r] EXCEPT !.pc = "insights", !.result = ResultOf(run[r].wallet, run[r].range)]
<1>1. run[r] \in RunType /\ run[r].pc = "analyze"
  BY TypesOf DEF Typed, runFullTreasuryAnalysis
<1>2. run' = [run EXCEPT ![r] = n] /\ scan' = scan
  BY AnalysisIs DEF runFullTreasuryAnalysis
<1>3. n.pc = "insights" /\ n.wallet = run[r].wallet /\ n.range = run[r].range
      /\ n.result = ResultOf(run[r].wallet, run[r].range) /\ n.client = run[r].client /\ n.gone = run[r].gone
  BY <1>1 DEF RunType
<1> HIDE DEF n
<1>4. Scanner(n) => Scanner(run[r]) /\ Analysed(n, run[r])
  BY <1>1, <1>3 DEF Scanner, Analysed
<1> QED BY <1>2, <1>4, QuietStep

LEMMA ForecastScans == ASSUME Typed, Scans, [Next]_vars, NEW r \in Runs, generateForecast(r) PROVE Scans'
<1> DEFINE n == [run[r] EXCEPT !.pc = "answered", !.result.due = DueOf(run[r].wallet)]
<1>1. run[r] \in RunType /\ run[r].pc = "insights" /\ run[r].result \in Result
  BY TypesOf DEF Typed, generateForecast, RunType
<1>2. run' = [run EXCEPT ![r] = n] /\ scan' = scan
  BY ForecastIs DEF generateForecast
<1>3. n.pc = "answered" /\ n.wallet = run[r].wallet /\ n.range = run[r].range
      /\ n.result = [run[r].result EXCEPT !.due = DueOf(run[r].wallet)]
      /\ n.client = run[r].client /\ n.gone = run[r].gone
  BY <1>1 DEF RunType
<1>4. n.result.wallet = run[r].result.wallet /\ n.result.found = run[r].result.found
  BY <1>1, <1>3 DEF Result
<1> HIDE DEF n
<1>5. Scanner(n) => Scanner(run[r]) /\ Similar(n, run[r])
  BY <1>1, <1>3, <1>4 DEF Scanner, Similar
<1> QED BY <1>2, <1>5, QuietStep

(* The analysis that is shown is the one the scanner waited for.           *)
LEMMA SetAnalysisScans == ASSUME Typed, Scans, [Next]_vars, NEW r \in Runs, setAnalysis(r) PROVE Scans'
<1>1. run[r].pc = "answered" /\ run' = [run EXCEPT ![r] = NoRun] /\ scan \in ScanType
  BY TypesOf DEF Typed, setAnalysis
<1>2. CASE Scanner(run[r])
  <2>1. scan' = [scan EXCEPT !.analysis = run[r].result, !.phase = "done"]
    BY <1>2 DEF setAnalysis, Scanner, For
  <2>2. scan'.analysis = run[r].result /\ scan'.scanned = scan.scanned /\ scan'.top = scan.top
    BY <1>1, <2>1 DEF ScanType
  <2>3. Shows(run[r].result, scan.scanned, scan.top)
    BY <1>1, <1>2, ScannersWork DEF ScanRun
  <2>4. \A q \in Runs : ~Scanner(run'[q])
    BY <1>1, <1>2, OthersStay, ScannersWork, NoRunIsNoScanner
  <2> QED BY <2>2, <2>3, <2>4, EndingSteps
<1>3. CASE ~Scanner(run[r])
  <2>1. scan' = scan
    BY <1>3 DEF setAnalysis, Scanner, For
  <2> QED BY <1>1, <2>1, QuietStep, NoRunIsNoScanner
<1> QED BY <1>2, <1>3

LEMMA UserTagScans == ASSUME Typed, Scans, [Next]_vars, NEW r \in Runs, applyUserTag(r) PROVE Scans'
<1>1. run[r].pc = "tag" /\ Analyses(r, 0) /\ 0 \in 0..MaxSig
  BY Parameters DEF applyUserTag
<1>2. ~Scanner(run[r])
  BY <1>1, ScannersWork DEF ScanRun
<1> QED BY <1>1, <1>2, AnalyzingStep

(* What the user starts is not the scanner's.                              *)
LEMMA UserStartsScans ==
  ASSUME Typed, Scans, [Next]_vars, scan' = scan, NEW r \in Runs, NEW pc, NEW w, NEW range,
         Starts(r, "user", pc, w, range)
  PROVE  Scans'
<1> DEFINE n == [NoRun EXCEPT !.client = "user", !.pc = pc, !.wallet = w, !.range = range]
<1>1. run' = [run EXCEPT ![r] = n] /\ n.client = "user"
  BY DEF Starts, NoRun
<1> HIDE DEF n
<1>2. ~Scanner(n)
  BY <1>1 DEF Scanner
<1> QED BY <1>1, <1>2, QuietStep

(* A scan starts when none is under way.                                   *)
LEMMA RunScanScans ==
  ASSUME Typed, Scans, [Next]_vars, NEW r \in Runs, NEW w \in Wallets, runScan(r, w) PROVE Scans'
<1> DEFINE n == [NoRun EXCEPT !.client = "scan", !.pc = "ingest", !.wallet = w, !.range = ScanRange]
<1>1. run' = [run EXCEPT ![r] = n] /\ scan' = [NoScan EXCEPT !.phase = "ingesting", !.scanned = w]
  BY DEF runScan, Starts
<1>2. n.pc = "ingest" /\ n.wallet = w /\ n.range = ScanRange
  BY DEF NoRun
<1>3. scan'.phase = "ingesting" /\ scan'.scanned = w
  BY <1>1 DEF NoScan
<1> HIDE DEF n
<1>4. run'[r] = n /\ \A q \in Runs \ {r} : run'[q] = run[q]
  BY <1>1, OthersStay
<1>5. \A q \in Runs : ~Scanner(run[q])
  BY ScannersWork DEF runScan, Enabled, Scanning
<1>6. ScanRun(run'[r], scan', table')
  BY <1>2, <1>3, <1>4 DEF ScanRun
<1> QED BY <1>3, <1>4, <1>5, <1>6, ScannerSteps

LEMMA AbandonedScans == ASSUME Typed, Scans, [Next]_vars, NEW r \in Runs, Abandoned(r) PROVE Scans'
<1> DEFINE n == [run[r] EXCEPT !.gone = TRUE]
<1>1. run[r] \in RunType
  BY TypesOf DEF Typed
<1>2. n.gone = TRUE
  BY <1>1 DEF RunType
<1>3. run' = [run EXCEPT ![r] = n] /\ Told(r)
  BY DEF Abandoned
<1> HIDE DEF n
<1>4. ~Scanner(n)
  BY <1>2 DEF Scanner
<1> QED BY <1>3, <1>4, TellingStep

LEMMA ResetScans == ASSUME Typed, Scans, reset PROVE Scans'
<1>1. run' = run /\ scan' = [scan EXCEPT !.phase = "idle", !.analysis = NoResult] /\ scan \in ScanType
  BY TypesOf DEF reset, Typed
<1>2. scan'.phase # "done"
  BY <1>1 DEF ScanType
<1>3. \A q \in Runs : ~Scanner(run[q])
  BY ScannersWork DEF reset, Enabled, Scanning
<1> QED BY <1>1, <1>2, <1>3, EndingSteps

LEMMA ScansStep == Typed /\ Paging /\ Scans /\ [Next]_vars => Scans'
<1> SUFFICES ASSUME Typed, Paging, Scans, [Next]_vars PROVE Scans'
  OBVIOUS
<1>1. CASE Land \/ TimePasses \/ UNCHANGED vars
  <2>1. run' = run /\ scan' = scan
    BY <1>1 DEF Land, TimePasses, vars
  <2> QED BY <2>1, QuietSteps, SimilarToItself
<1>2. CASE reset
  BY <1>2, ResetScans
<1>3. ASSUME NEW r \in Runs, Fails(r) \/ ingest(r) \/ RateLimited(r) \/ fetchPage(r) PROVE Scans'
  BY <1>3, FailingStep, IngestScans, RateLimitedScans, FetchScans
<1>4. ASSUME NEW r \in Runs,
             runFullTreasuryAnalysis(r) \/ generateForecast(r) \/ setAnalysis(r) \/ applyUserTag(r)
      PROVE  Scans'
  BY <1>4, AnalysisScans, ForecastScans, SetAnalysisScans, UserTagScans
<1>5. ASSUME NEW r \in Runs, submitTag(r) PROVE Scans'
  BY <1>5, UserStartsScans DEF submitTag
<1>6. ASSUME NEW r \in Runs, NEW range, runFullAnalysis(r, range) PROVE Scans'
  BY <1>6, UserStartsScans DEF runFullAnalysis
<1>7. ASSUME NEW r \in Runs, Abandoned(r) PROVE Scans'
  BY <1>7, AbandonedScans
<1>8. ASSUME NEW r \in Runs, NEW w \in Wallets, runScan(r, w) PROVE Scans'
  BY <1>8, RunScanScans
<1> QED BY <1>1, <1>2, <1>3, <1>4, <1>5, <1>6, <1>7, <1>8, NextIs

LEMMA InitScans == Init => Scans
<1> SUFFICES ASSUME Init PROVE Scans
  OBVIOUS
<1>1. \A r \in Runs : ~Scanner(run[r])
  BY NoRunIsNoScanner DEF Init
<1>2. scan.phase = "idle"
  BY DEF Init, NoScan
<1> QED BY <1>1, <1>2 DEF Scans

(* The scanner shows the scanned wallet's analysis and, when it was not    *)
(* spared the ingestion, every meaningful transaction within its pages and *)
(* range: whatever the user's runs, the chain, lost answers and crashes do *)
(* between the pages and before the answer.                                *)
THEOREM ScansAreComplete == Spec => []ScanComplete
<1>1. Scans => ScanComplete
  <2> SUFFICES ASSUME Scans, scan.phase = "done",
                      NEW s \in Newest({t \in Party[scan.scanned] : t <= scan.top}, PageSize * PublicPages),
                      s \in InRange(Own[scan.scanned], ScanRange), ~Normal[scan.scanned][s].is_noise
               PROVE  \/ s \in scan.analysis.found
                      \/ Cardinality({t \in scan.analysis.found : t > s}) >= RowLimit
    BY DEF Scans, Shows, ScanComplete
  <2>1. s \in Owed(scan.scanned, scan.top)
    BY DEF Owed
  <2> QED BY <2>1 DEF Scans, Shows
<1> DEFINE IInv == Typed /\ Paging /\ Scans
<1>2. Init => IInv
  BY InitTyped, InitPaging, InitScans
<1>3. IInv /\ [Next]_vars => IInv'
  BY NextTyped, PagingStep, ScansStep
<1>4. IInv => ScanComplete
  BY <1>1
<1> HIDE DEF IInv
<1> QED BY <1>2, <1>3, <1>4, PTL DEF Spec

-----------------------------------------------------------------------------
(* The report.                                                             *)

(* A quotient is below a bound exactly when the dividend is below the      *)
(* multiple.                                                               *)
LEMMA QuotientBelow ==
  ASSUME NEW a \in Int, NEW b \in Nat \ {0}, NEW n \in Int
  PROVE  a \div b \in Int /\ (a \div b < n <=> a < b * n)
OBVIOUS

LEMMA ProductIsPositive == ASSUME NEW a \in Nat \ {0}, NEW b \in Nat \ {0} PROVE a * b \in Nat \ {0}
OBVIOUS

LEMMA NextIsInt ==
  ASSUME NEW S \in SUBSET Sigs, Cardinality(S) > 1
  PROVE  nextPredicted(S) \in Int
<1>1. Cardinality(S) \in Nat /\ S # {}
  BY SigsAreFinite
<1>2. Time[Max(S)] \in Int /\ Time[Min(S)] \in Int
  BY <1>1, SigMin, SigMax, LedgerAssumption
<1> DEFINE n == Cardinality(S)
           x == Time[Max(S)]
           y == Time[Min(S)]
<1>3. n \in Nat /\ n > 1 /\ x \in Int /\ y \in Int /\ nextPredicted(S) = x + (x - y) \div (n - 1)
  BY <1>1, <1>2 DEF nextPredicted, Span
<1> HIDE DEF n, x, y
<1>4. n - 1 \in Nat \ {0} /\ x - y \in Int
  BY <1>3
<1>5. (x - y) \div (n - 1) \in Int
  BY <1>4, QuotientBelow
<1> QED BY <1>3, <1>5

(* The days shown of a bill agree with the forecast, up to their rounding. *)
LEMMA BillAgrees ==
  ASSUME NEW S \in SUBSET Sigs, Cardinality(S) > 1
  PROVE  BillsAgree(S, BillRow(S))
<1> DEFINE p == nextPredicted(S)
           d == daysUntil(S)
           a == 2 * (p - Now) + Day
           b == 2 * Day
<1>1. p \in Int /\ Now \in Nat /\ Day \in Nat \ {0}
  BY NextIsInt, LedgerAssumption
<1>2. a \in Int /\ b \in Nat \ {0} /\ d = a \div b
  <2> HIDE DEF p
  <2> QED BY <1>1 DEF daysUntil, p
<1> HIDE DEF a, b, d
<1>3. d \in Int /\ (d < 0 <=> a < b * 0) /\ (d < 31 <=> a < b * 31) /\ (d < 1 <=> a < b * 1) /\ (d < 30 <=> a < b * 30)
  BY <1>2, QuotientBelow
<1>4. DueSoon(S) <=> p >= Now /\ p <= Now + 30 * Day
  BY DEF DueSoon
<1>5. BillRow(S).days = d /\ BillRow(S).text = IF d <= 0 THEN "Overdue" ELSE "Due"
  BY DEF BillRow, d
<1> HIDE DEF p
<1>6. a = 2 * (p - Now) + Day /\ b = 2 * Day
  BY DEF a, b
<1>7. d < 0 \/ d > 30 => ~DueSoon(S)
  BY <1>1, <1>3, <1>4, <1>6
<1>8. d > 0 /\ d < 30 => DueSoon(S)
  BY <1>1, <1>3, <1>4, <1>6
<1>9. d \in Int
  BY <1>3
<1>10. CASE d <= 0
  <2>1. BillRow(S) = [days |-> d, text |-> "Overdue"]
    BY <1>10 DEF BillRow, d
  <2>2. d # 0 \/ d > 30 => ~DueSoon(S)
    BY <1>7, <1>9, <1>10
  <2> QED BY <2>1, <2>2 DEF BillsAgree
<1>11. CASE ~(d <= 0)
  <2>1. BillRow(S) = [days |-> d, text |-> "Due"]
    BY <1>11 DEF BillRow, d
  <2>2. d > 30 => ~DueSoon(S)
    BY <1>7
  <2>3. d < 30 => DueSoon(S)
    BY <1>8, <1>9, <1>11
  <2> QED BY <2>1, <2>2, <2>3 DEF BillsAgree
<1> QED BY <1>10, <1>11

LEMMA CeilIsPositive ==
  ASSUME NEW a \in Nat \ {0}, NEW b \in Nat \ {0}
  PROVE  CeilDiv(a, b) \in Nat \ {0}
<1>1. a + b - 1 \in Int /\ (a + b - 1) \div b \in Int /\ ~((a + b - 1) \div b < 1)
  BY QuotientBelow
<1> QED BY <1>1 DEF CeilDiv

(* A chart has bars, and a bar has days.                                   *)
LEMMA ChartHasBars ==
  ASSUME NEW found \in SUBSET Sigs, found # {}, NEW range \in Ranges
  PROVE  Chart(found, range).bars \in Nat \ {0} /\ Chart(found, range).days \in Nat \ {0}
<1>1. CASE Days[range] > 0
  BY <1>1, LedgerAssumption DEF Chart
<1>2. CASE ~(Days[range] > 0)
  <2> DEFINE age == Now - Time[Min(found)]
             span == IF age < Day THEN Day ELSE age
             days == CeilDiv(span, MaxBars * Day)
  <2>1. Min(found) \in Sigs /\ Now \in Nat /\ Day \in Nat \ {0} /\ MaxBars \in Nat \ {0}
    BY SigMin, LedgerAssumption
  <2>2. span \in Nat \ {0}
    BY <2>1, LedgerAssumption
  <2>3. days \in Nat \ {0}
    <3>1. MaxBars * Day \in Nat \ {0}
      BY <2>1, ProductIsPositive
    <3> HIDE DEF span
    <3> QED BY <2>2, <3>1, CeilIsPositive
  <2>4. CeilDiv(span, days * Day) \in Nat \ {0}
    <3> HIDE DEF span, days
    <3>1. days * Day \in Nat \ {0}
      BY <2>1, <2>3, ProductIsPositive
    <3> QED BY <2>2, <3>1, CeilIsPositive
  <2>5. Chart(found, range) = [days |-> days, bars |-> CeilDiv(span, days * Day)]
    BY <1>2 DEF Chart
  <2> HIDE DEF days, span
  <2> QED BY <2>3, <2>4, <2>5
<1> QED BY <1>1, <1>2

(* The bars share no row and show the rows younger than the chart is long. *)
Young(found, range) ==
  {s \in found : Now - Time[s] < Chart(found, range).bars * Chart(found, range).days * Day}
LEMMA TimelineParts ==
  ASSUME NEW found \in SUBSET Sigs, found # {}, NEW range \in Ranges
  PROVE  LET bars == buildTimeline(found, range) IN
         /\ IsFiniteSet(DOMAIN bars) /\ \A i \in DOMAIN bars : bars[i] \in SUBSET found
         /\ \A i, j \in DOMAIN bars : i # j => bars[i] \cap bars[j] = {}
         /\ UNION {bars[i] : i \in DOMAIN bars} = Young(found, range)
<1> DEFINE n == Chart(found, range).bars
           d == Chart(found, range).days
           Bar(s) == n - (Now - Time[s]) \div (d * Day)
           T == [i \in 1..n |-> {s \in found : Bar(s) = i}]
<1>1. buildTimeline(found, range) = T
  BY DEF buildTimeline
<1>2. n \in Nat \ {0} /\ d \in Nat \ {0} /\ Now \in Nat /\ Day \in Nat \ {0}
  BY ChartHasBars, LedgerAssumption
<1>3. ASSUME NEW s \in found
      PROVE  Bar(s) \in Int /\ Bar(s) <= n /\ (Bar(s) >= 1 <=> Now - Time[s] < n * d * Day)
  <2> DEFINE age == Now - Time[s]
             w == d * Day
             q == age \div w
  <2>1. age \in Nat /\ w \in Nat \ {0}
    BY <1>2, LedgerAssumption, ProductIsPositive
  <2> HIDE DEF age, w
  <2>2. q \in Int /\ (q < 0 <=> age < w * 0) /\ (q < n <=> age < w * n)
    BY <1>2, <2>1, QuotientBelow
  <2>3. Bar(s) = n - q
    BY DEF age, w
  <2>4. w * n = n * d * Day
    <3> HIDE DEF n, d
    <3> QED BY <1>2 DEF w
  <2> HIDE DEF q, n, d
  <2>5. ~(q < 0) /\ (q < n <=> age < n * d * Day)
    BY <1>2, <2>1, <2>2, <2>4
  <2>6. q \in Int /\ n \in Int
    BY <1>2, <2>2
  <2> HIDE DEF Bar
  <2>7. Bar(s) \in Int /\ Bar(s) <= n /\ (Bar(s) >= 1 <=> q < n)
    BY <2>3, <2>5, <2>6
  <2> QED BY <2>5, <2>7 DEF age
<1>4. UNION {T[i] : i \in 1..n} = Young(found, range)
  <2>1. ASSUME NEW s \in Young(found, range) PROVE s \in found /\ Bar(s) \in 1..n
    <3>1. s \in found /\ Now - Time[s] < n * d * Day
      BY DEF Young
    <3>2. Bar(s) \in Int /\ Bar(s) <= n /\ Bar(s) >= 1
      BY <1>3, <3>1
    <3> HIDE DEF Bar, n, d
    <3> QED BY <1>2, <3>1, <3>2
  <2>2. ASSUME NEW i \in 1..n, NEW s \in T[i] PROVE s \in Young(found, range)
    <3>1. s \in found /\ Bar(s) = i
      OBVIOUS
    <3>2. Now - Time[s] < n * d * Day
      <4>1. i >= 1
        BY <1>2
      <4> HIDE DEF Bar, n, d
      <4> QED BY <1>3, <3>1, <4>1
    <3> QED BY <3>1, <3>2 DEF Young
  <2> HIDE DEF n, Bar
  <2> QED BY <2>1, <2>2
<1>5. IsFiniteSet(1..n)
  BY <1>2, FS_Interval
<1> HIDE DEF n, Bar
<1> QED BY <1>1, <1>4, <1>5

(* The activity chart: its bars, and the total above them.                 *)
LEMMA ChartAgrees ==
  ASSUME user \in UserType, user.analysis.found # {} => user.analysis.wallet \in Wallets
  PROVE  Charted(user.analysis.found, user.range)
<1> DEFINE found == user.analysis.found
           w == user.analysis.wallet
           T == buildTimeline(found, user.range)
           f == [s \in Sigs |-> Normal[w][s].usd]
<1> SUFFICES ASSUME found # {}
             PROVE  /\ UNION {T[i] : i \in DOMAIN T} = Young(found, user.range)
                    /\ ActivityChart.total = Total(w, Young(found, user.range))
  BY DEF Charted, Young, timelineData
<1>1. found \in SUBSET Sigs /\ user.range \in Ranges /\ w \in Wallets
  BY DEF UserType, Result
<1>2. /\ IsFiniteSet(DOMAIN T) /\ \A i \in DOMAIN T : T[i] \in SUBSET found
      /\ \A i, j \in DOMAIN T : i # j => T[i] \cap T[j] = {}
      /\ UNION {T[i] : i \in DOMAIN T} = Young(found, user.range)
  <2> HIDE DEF found
  <2> QED BY <1>1, TimelineParts
<1>3. ActivityChart.total =
        SumFunctionOnSet([i \in DOMAIN T |-> SumFunctionOnSet(f, T[i])], DOMAIN T)
  BY DEF ActivityChart, timelineData, Total
<1>4. IsFiniteSet(found) /\ \A s \in found : f[s] \in Int
  <2>1. \A s \in found : f[s] = Normal[w][s].usd /\ Normal[w][s].usd \in Nat
    BY <1>1, WorthIsNat
  <2> HIDE DEF f
  <2> QED BY <1>1, <2>1, SigsAreFinite
<1>5. Total(w, Young(found, user.range)) = SumFunctionOnSet(f, Young(found, user.range))
  BY DEF Total
<1> HIDE DEF T, f, found, w
<1>6. SumFunctionOnSet([i \in DOMAIN T |-> SumFunctionOnSet(f, T[i])], DOMAIN T) =
        SumFunctionOnSet(f, UNION {T[i] : i \in DOMAIN T})
  BY <1>2, <1>4, SumParts
<1> QED BY <1>2, <1>3, <1>5, <1>6

(* What is true of an analysis whatever happens after it.                  *)
Earned(w, s) == Normal[w][s].is_outgoing /\ Normal[w][s].usd > 0 /\ Normal[w][s].category # "swap"
Honest(a) ==
  /\ a.found # {} => a.wallet \in Wallets
  /\ Lately(a) /\ Listed(a)
  /\ \A x \in DOMAIN a.recurring : a.recurring[x] \in SUBSET Sigs /\ Cardinality(a.recurring[x]) > 1
  /\ \A s \in a.found : s \in Party[a.wallet] /\ (Earned(a.wallet, s) => s \in Spent(a))
  /\ \A s \in Spent(a) : Normal[a.wallet][s].usd > 0
(* What is stored for a wallet is of its history.                          *)
RowsAreTheirs == \A w \in Wallets, s \in Sigs : table[s].wallet = w => s \in Party[w]
Reports ==
  /\ RowsAreTheirs /\ Honest(user.analysis) /\ Honest(scan.analysis)
  /\ \A r \in Runs : Honest(run[r].result)

LEMMA NothingIsHonest == Honest(NoResult)
<1>1. Spent(NoResult) = {} /\ NoResult.found = {} /\ NoResult.burn = {} /\ DOMAIN NoResult.recurring = {}
  BY DEF Spent, NoResult, NoPatterns
<1> QED BY <1>1 DEF Honest, Lately, Listed

LEMMA DueIsAside ==
  ASSUME NEW a \in Result, Honest(a), NEW due
  PROVE  Honest([a EXCEPT !.due = due])
<1> DEFINE b == [a EXCEPT !.due = due]
<1>1. /\ b.wallet = a.wallet /\ b.range = a.range /\ b.found = a.found /\ b.spend = a.spend
      /\ b.burn = a.burn /\ b.recurring = a.recurring
  BY DEF Result
<1> HIDE DEF b
<1>2. Spent(b) = Spent(a)
  BY <1>1 DEF Spent
<1>3. Lately(b) /\ Listed(b)
  BY <1>1, <1>2 DEF Honest, Lately, Listed
<1>4. Honest(b)
  BY <1>1, <1>2, <1>3 DEF Honest
<1> QED BY <1>4 DEF b

LEMMA NormalCategories ==
  ASSUME NEW w \in Wallets, NEW s \in Sigs
  PROVE  Normal[w][s].category \in {"swap", "transfer", "unknown"}
BY DEF Normal, normalizeTx

(* What an analysis counts as spent.                                       *)
LEMMA SpentIs ==
  ASSUME NEW w \in Wallets, NEW range \in Ranges
  PROVE  Spent(ResultOf(w, range)) =
           {s \in InRange(Outflows(table, w), range) : Category(table, w, s) \in SpendCategories}
BY DEF Spent, ResultOf, getSpendByCategory

LEMMA ResultIsHonest ==
  ASSUME Typed, RowsAreTheirs, NEW w \in Wallets, NEW range \in Ranges
  PROVE  Honest(ResultOf(w, range))
<1> DEFINE a == ResultOf(w, range)
           X == InRange(Meaningful(table, w), range)
<1>1. /\ a.wallet = w /\ a.range = range /\ a.found = Newest(X, RowLimit) /\ a.burn = Burned(w, range)
      /\ a.recurring = [x \in Recurring(w, range) |-> detectRecurringPatterns(w, range)[x].of]
  BY DEF ResultOf, Stored
<1>2. X \in SUBSET Sigs /\ X \subseteq Rows(table, w)
  BY RowsAreSigs DEF InRange
<1>3. Spent(a) = {s \in InRange(Outflows(table, w), range) : Category(table, w, s) \in SpendCategories}
  BY SpentIs
<1>4. Lately(a)
  <2>1. a.burn = {s \in Outflows(table, w) :
                    Time[s] >= BurnSince(range) /\ Category(table, w, s) \in SpendCategories}
    BY <1>1 DEF Burned
  <2>2. ASSUME NEW s \in Outflows(table, w), Time[s] >= BurnSince(range) PROVE Time[s] >= Since(range)
    <3>1. s \in Sigs
      BY RowsAreSigs DEF Outflows
    <3>2. Time[s] >= 0
      BY <3>1, LedgerAssumption
    <3> QED BY <2>2, <3>2 DEF BurnSince, Since
  <2> HIDE DEF a
  <2> QED BY <1>1, <1>3, <2>1, <2>2 DEF Lately, InRange
<1>5. Spent(a) \subseteq X
  BY <1>3 DEF Outflows, InRange
<1>6. Listed(a)
  <2> HIDE DEF a, X
  <2> SUFFICES ASSUME NEW s \in Spent(a), s \notin a.found
               PROVE  Cardinality(a.found) = RowLimit /\ \A t \in a.found : t > s
    BY DEF Listed
  <2>1. /\ Cardinality({t \in a.found : t > s}) >= RowLimit /\ \A t \in a.found : t > s
        /\ Cardinality(a.found) <= RowLimit /\ a.found \subseteq X
    BY <1>1, <1>2, <1>5, NewestIsFull, NewestIsShort, Parameters
  <2>2. {t \in a.found : t > s} = a.found
    BY <2>1
  <2>3. Cardinality(a.found) \in Nat
    BY <1>2, <2>1, SigsAreFinite
  <2> QED BY <2>1, <2>2, <2>3, Parameters
<1>7. ASSUME NEW x \in DOMAIN a.recurring
      PROVE  a.recurring[x] \in SUBSET Sigs /\ Cardinality(a.recurring[x]) > 1
  <2>1. x \in Recurring(w, range) /\ x \in Addresses
    BY <1>1 DEF Recurring
  <2>2. a.recurring[x] = Sample(w, range, x)
    BY <1>1, <2>1 DEF detectRecurringPatterns, PatternOf
  <2> QED BY <2>1, <2>2, SampleIs DEF Recurring, Recurs
<1>8. ASSUME NEW s \in a.found PROVE s \in Party[w] /\ (Earned(w, s) => s \in Spent(a))
  <2>1. s \in X /\ s \in Sigs /\ table[s].wallet = w
    <3>1. s \in X
      BY <1>1, <1>2, NewestIsShort, Parameters
    <3> QED BY <1>2, <3>1 DEF Rows
  <2>2. s \in Party[w]
    BY <2>1 DEF RowsAreTheirs
  <2>3. ASSUME Earned(w, s) PROVE s \in Spent(a)
    <3>1. s \in InRange(Outflows(table, w), range)
      BY <2>1, <2>3 DEF InRange, Outflows, Earned
    <3>2. table[s].category \in Tags \cup {"derived"}
      BY <2>1, TypesOf DEF Typed, TableType, StoredCategories
    <3>3. Normal[w][s].category \in {"transfer", "unknown"}
      BY <2>1, <2>3, NormalCategories DEF Earned
    <3>4. Category(table, w, s) \in SpendCategories
      BY <3>2, <3>3 DEF Category, SpendCategories
    <3> QED BY <1>3, <3>1, <3>4
  <2> QED BY <2>2, <2>3
<1>9. \A s \in Spent(a) : Normal[w][s].usd > 0
  BY <1>3 DEF InRange, Outflows
<1> HIDE DEF a
<1>10. Honest(a)
  BY <1>1, <1>4, <1>6, <1>7, <1>8, <1>9 DEF Honest
<1> QED BY <1>10 DEF a

(* Where something was spent there is a bar, and the bars add up to more   *)
(* than nothing.                                                           *)
LEMMA SpentIsDrawn ==
  ASSUME NEW a \in Result, Honest(a), a.wallet \in Wallets, Spent(a) # {}, NEW n \in Nat \ {0}
  PROVE  LET bars == TopCategories(a.wallet, a.spend, n) IN
         DOMAIN bars # {} /\ SumFunctionOnSet(bars, DOMAIN bars) > 0
<1> DEFINE w == a.wallet
           V == {d \in DOMAIN a.spend : Total(w, a.spend[d]) > 0}
           value == [c \in V |-> Total(w, a.spend[c])]
           B == {d \in V : Cardinality({e \in V : value[e] > value[d]}) < n}
           bars == [c \in B |-> value[c]]
<1>1. a.spend \in [SpendCategories -> SUBSET Sigs]
  BY DEF Result
<1>2. PICK c \in SpendCategories : a.spend[c] # {}
  BY DEF Spent
<1>3. c \in V
  <2> DEFINE S == a.spend[c]
             f == [s \in Sigs |-> Normal[w][s].usd]
  <2>1. S \in SUBSET Sigs /\ S # {}
    BY <1>1, <1>2
  <2>2. PICK s \in S : TRUE
    BY <2>1
  <2>3. Normal[w][s].usd > 0
    BY DEF Honest, Spent
  <2>4. IsFiniteSet(S) /\ \A t \in S : f[t] \in Nat
    BY <2>1, SigsAreFinite, WorthIsNat
  <2>5. f[s] > 0
    BY <2>1, <2>3
  <2>6. Total(w, S) = SumFunctionOnSet(f, S) /\ Total(w, S) \in Nat
    BY <2>1, TotalIsNat DEF Total
  <2> HIDE DEF f, S, w
  <2>7. f[s] <= SumFunctionOnSet(f, S) /\ f[s] \in Nat
    BY <2>4, SumBoundsMember
  <2>8. Total(w, S) > 0
    BY <2>5, <2>6, <2>7
  <2> QED BY <1>1, <2>8 DEF S
<1>4. IsFiniteSet(V) /\ \A d \in V : value[d] \in Nat /\ value[d] > 0
  <2>1. IsFiniteSet(SpendCategories)
    <3>1. IsFiniteSet({"transfer"}) /\ IsFiniteSet({"unknown"})
      BY FS_Singleton
    <3>2. IsFiniteSet({"transfer"} \cup {"unknown"})
      BY <3>1, FS_Union
    <3>3. IsFiniteSet(Tags \cup ({"transfer"} \cup {"unknown"}))
      BY <3>2, FS_Union, LedgerAssumption
    <3>4. {"transfer"} \cup {"unknown"} = {"transfer", "unknown"}
      OBVIOUS
    <3> QED BY <3>3, <3>4 DEF SpendCategories
  <2>2. V \subseteq SpendCategories
    BY <1>1
  <2>3. IsFiniteSet(V)
    <3> HIDE DEF V
    <3> QED BY <2>1, <2>2, FS_Subset
  <2>4. \A d \in V : Total(w, a.spend[d]) \in Nat
    BY <1>1, TotalIsNat
  <2> QED BY <2>3, <2>4
<1> HIDE DEF V, value
<1>5. PICK d \in V : {e \in V : value[e] > value[d]} = {}
  <2> DEFINE More(x) == {e \in V : value[e] > value[x]}
             C == {More(x) : x \in V}
  <2>1. C \in SUBSET (SUBSET V) /\ C # {}
    BY <1>3
  <2>2. PICK T \in C : \A U \in C : ~(U \subseteq T /\ U # T)
    <3> HIDE DEF C
    <3> QED BY <1>4, <2>1, MinimalSubset
  <2>3. PICK d \in V : T = More(d)
    BY <2>2
  <2>4. ASSUME NEW e \in More(d) PROVE FALSE
    <3>1. More(e) \subseteq More(d) /\ e \notin More(e)
      BY <1>4
    <3>2. More(e) \in C
      OBVIOUS
    <3> QED BY <2>2, <2>3, <2>4, <3>1, <3>2
  <2>5. More(d) = {}
    BY <2>4
  <2> QED BY <2>5
<1>6. d \in B
  BY <1>5, FS_EmptySet
<1>7. IsFiniteSet(B) /\ \A x \in B : bars[x] \in Nat /\ bars[x] > 0
  BY <1>4, FS_Subset
<1>8. DOMAIN bars = B
  OBVIOUS
<1> HIDE DEF B, bars
<1>9. bars[d] <= SumFunctionOnSet(bars, B) /\ SumFunctionOnSet(bars, B) \in Nat
  BY <1>6, <1>7, SumBoundsMember, SumNat
<1>10. DOMAIN bars # {} /\ SumFunctionOnSet(bars, DOMAIN bars) > 0
  BY <1>6, <1>7, <1>8, <1>9
<1>11. TopCategories(w, a.spend, n) = bars
  BY DEF TopCategories, bars, B, value, V
<1> QED BY <1>10, <1>11

(* A burn means that something was spent.                                  *)
LEMMA BurnIsSpent ==
  ASSUME NEW a \in Result, Honest(a), a.wallet \in Wallets, getMonthlyBurnUsd(a.wallet, a.burn, a.range) > 0
  PROVE  Spent(a) # {}
<1> SUFFICES ASSUME Spent(a) = {} PROVE FALSE
  OBVIOUS
<1>1. a.burn = {}
  BY DEF Honest, Lately
<1>2. Total(a.wallet, {}) = 0
  BY FS_EmptySet, SumUnfold DEF Total
<1>3. Days[a.range] \in Nat
  BY LedgerAssumption DEF Result
<1>4. getMonthlyBurnUsd(a.wallet, {}, a.range) = IF Days[a.range] = 0 THEN 0 ELSE (0 * 30) \div Days[a.range]
  BY <1>2 DEF getMonthlyBurnUsd
<1>5. Days[a.range] # 0 => (0 * 30) \div Days[a.range] = 0
  BY <1>3
<1>6. getMonthlyBurnUsd(a.wallet, a.burn, a.range) = 0
  BY <1>1, <1>4, <1>5
<1> QED BY <1>6

(* What the scanner shows.                                                 *)
LEMMA ScannerShows ==
  ASSUME scan \in ScanType
  PROVE  /\ Below \in {"advice", "figures"} => scan.phase = "done" /\ scan.analysis.found # {}
         /\ Below = "advice" => OnlyAdvice
<1>1. Below \in {"advice", "figures"} => scan.phase = "done" /\ Below = Results
  <2>1. scan.phase \in {"idle", "ingesting", "analyzing", "done", "error"}
    BY DEF ScanType
  <2>2. CASE scan.phase \in {"ingesting", "analyzing"}
    BY <2>2 DEF Below, Scanning
  <2>3. CASE scan.phase \in {"error", "idle"}
    BY <2>3 DEF Below, Scanning
  <2>4. CASE scan.phase = "done"
    BY <2>4 DEF Below, Scanning
  <2> QED BY <2>1, <2>2, <2>3, <2>4
<1>2. CASE scan.analysis.found = {}
  <2>1. Results = "nothing"
    BY <1>2 DEF Results, OnlyAdvice
  <2> QED BY <1>1, <2>1
<1>3. CASE scan.analysis.found # {}
  <2>1. OnlyAdvice \in BOOLEAN
    BY DEF OnlyAdvice
  <2>2. ~OnlyAdvice => Results = "figures"
    BY <1>3, <2>1 DEF Results
  <2> QED BY <1>1, <1>3, <2>2
<1> QED BY <1>2, <1>3

LEMMA PanelsDoAgree == ASSUME Typed, Scans, Reports PROVE PanelsAgree
<1> DEFINE a == scan.analysis
           w == scan.scanned
<1>1. a \in Result /\ Honest(a) /\ scan \in ScanType
  BY TypesOf DEF Typed, Reports, ScanType
<1>2. ASSUME Below \in {"advice", "figures"}
      PROVE  a.found # {} /\ a.wallet = w /\ w \in Wallets
  BY <1>1, <1>2, ScannerShows DEF Scans, Shows, Honest
<1>3. ASSUME w = a.wallet, w \in Wallets, Spent(a) # {}
      PROVE  DOMAIN topCategories # {} /\ totalSpend > 0
  BY <1>1, <1>3, SpentIsDrawn DEF topCategories, totalSpend
<1>4. ASSUME Below = "advice", NEW s \in a.found, TxPreviewRow(w, s).out, TxPreviewRow(w, s).usd > 0
      PROVE  Normal[w][s].category = "swap"
  <2>1. totalSpend = 0
    BY <1>1, <1>4, ScannerShows DEF OnlyAdvice
  <2>2. Spent(a) = {}
    BY <1>2, <1>3, <1>4, <2>1
  <2>3. ~Earned(w, s)
    BY <1>1, <1>2, <1>4, <2>2 DEF Honest
  <2> QED BY <1>4, <2>3 DEF Earned, TxPreviewRow
<1>5. ASSUME Below = "figures", Kpis(a, "scan").burn > 0
      PROVE  SpendPanel.total > 0 /\ DOMAIN SpendPanel.bars # {}
  <2>1. getMonthlyBurnUsd(a.wallet, a.burn, a.range) > 0
    BY <1>5 DEF Kpis
  <2>2. Spent(a) # {}
    BY <1>1, <1>2, <1>5, <2>1, BurnIsSpent
  <2> QED BY <1>2, <1>3, <1>5, <2>2 DEF SpendPanel
<1>6. ASSUME Below = "figures"
      PROVE  DOMAIN RecentActivity # {} /\ DOMAIN RecentActivity \subseteq Party[w]
  <2>1. DOMAIN RecentActivity = Newest(a.found, 5)
    BY DEF RecentActivity
  <2>2. a.found \in SUBSET Sigs /\ a.found # {} /\ a.wallet = w
    BY <1>1, <1>2, <1>6 DEF Result
  <2> HIDE DEF a
  <2>3. Newest(a.found, 5) \subseteq a.found
    BY DEF Newest
  <2>4. Max(a.found) \in a.found /\ {t \in a.found : t >= Max(a.found)} = {Max(a.found)}
    BY <2>2, SigMax DEF Sigs
  <2>5. Cardinality({Max(a.found)}) = 1
    BY FS_Singleton
  <2>6. Max(a.found) \in Newest(a.found, 5)
    BY <2>4, <2>5 DEF Newest
  <2> QED BY <1>1, <2>1, <2>2, <2>3, <2>6 DEF Honest
<1>7. ASSUME NEW x \in DOMAIN Bills PROVE BillsAgree(a.recurring[x], Bills[x])
  <2>1. x \in DOMAIN a.recurring /\ Bills[x] = BillRow(a.recurring[x])
    BY DEF Bills
  <2> QED BY <1>1, <2>1, BillAgrees DEF Honest
<1> QED BY <1>4, <1>5, <1>6, <1>7 DEF PanelsAgree

LEMMA RowsStayTheirs == Typed /\ RowsAreTheirs /\ [Next]_vars => RowsAreTheirs'
<1> SUFFICES ASSUME Typed, RowsAreTheirs, [Next]_vars, NEW w \in Wallets, NEW s \in Sigs, table'[s].wallet = w
             PROVE  s \in Party[w]
  BY DEF RowsAreTheirs
<1>1. table \in TableType
  BY TypesOf DEF Typed
<1>2. CASE table' = table
  BY <1>2 DEF RowsAreTheirs
<1>3. ASSUME NEW r \in Runs, fetchPage(r) PROVE s \in Party[w]
  <2>1. run[r].wallet \in Wallets /\ (s \in Kept(r) => s \in Party[run[r].wallet])
    BY <1>3, FetchIs, PageIs DEF Typed, Busy
  <2> QED BY <1>3, <2>1, FetchedRows DEF RowsAreTheirs
<1>4. ASSUME NEW r \in Runs, applyUserTag(r) PROVE s \in Party[w]
  <2>1. \E S, tag : Tagged(run[r].wallet, S, tag)
    BY <1>4 DEF applyUserTag
  <2> QED BY <1>1, <2>1 DEF Tagged, TableType, RowsAreTheirs
<1>5. CASE TimePasses
  BY <1>1, <1>5 DEF TimePasses, TableType, RowsAreTheirs
<1>6. (\E r \in Runs : fetchPage(r) \/ applyUserTag(r)) \/ TimePasses \/ table' = table
  BY NextIs, FailsTyped
     DEF vars, database, ingest, RateLimited, Fails, generateForecast, runFullTreasuryAnalysis, setAnalysis,
         submitTag, Abandoned, runFullAnalysis, runScan, reset, Land
<1> QED BY <1>2, <1>3, <1>4, <1>5, <1>6

(* Every analysis after a step was there before it, gets its forecast, or  *)
(* is computed in the step.                                                *)
Known(a) ==
  \/ a \in {NoResult, user.analysis, scan.analysis}
  \/ \E q \in Runs : a = run[q].result \/ \E due : a = [run[q].result EXCEPT !.due = due]
  \/ \E w \in Wallets, range \in Ranges : a = ResultOf(w, range)
ClientsKnow == Known(user'.analysis) /\ Known(scan'.analysis)
RunsKnow == \A q \in Runs : Known(run'[q].result)

LEMMA KnownIsHonest ==
  ASSUME Typed, Reports, NEW a, Known(a)
  PROVE  Honest(a)
<1>1. \A q \in Runs : run[q].result \in Result /\ Honest(run[q].result)
  BY TypesOf DEF Typed, RunType, Reports
<1>2. CASE a \in {NoResult, user.analysis, scan.analysis}
  BY <1>2, NothingIsHonest DEF Reports
<1>3. ASSUME NEW q \in Runs, a = run[q].result \/ \E due : a = [run[q].result EXCEPT !.due = due]
      PROVE  Honest(a)
  BY <1>1, <1>3, DueIsAside
<1>4. ASSUME NEW w \in Wallets, NEW range \in Ranges, a = ResultOf(w, range) PROVE Honest(a)
  BY <1>4, ResultIsHonest DEF Reports
<1> QED BY <1>2, <1>3, <1>4 DEF Known

LEMMA RunKnows ==
  ASSUME Typed, NEW r \in Runs, NEW n, run' = [run EXCEPT ![r] = n], Known(n.result)
  PROVE  RunsKnow
<1>1. run'[r] = n /\ \A q \in Runs \ {r} : run'[q] = run[q]
  BY OthersStay
<1>2. \A q \in Runs : Known(run[q].result)
  BY DEF Known
<1> QED BY <1>1, <1>2 DEF RunsKnow

LEMMA NoRunKnows == ASSUME Typed, NEW r \in Runs, run' = [run EXCEPT ![r] = NoRun] PROVE RunsKnow
<1>1. Known(NoRun.result)
  BY DEF Known, NoRun
<1> QED BY <1>1, RunKnows

LEMMA StartsKnows ==
  ASSUME Typed, NEW r \in Runs, NEW client, NEW pc, NEW w, NEW range, Starts(r, client, pc, w, range)
  PROVE  RunsKnow
<1> DEFINE n == [NoRun EXCEPT !.client = client, !.pc = pc, !.wallet = w, !.range = range]
<1>1. run' = [run EXCEPT ![r] = n] /\ n.result = NoResult
  BY DEF Starts, NoRun
<1> HIDE DEF n
<1>2. Known(n.result)
  BY <1>1 DEF Known
<1> QED BY <1>1, <1>2, RunKnows

LEMMA ToldKnows == ASSUME Typed, NEW r, Told(r) PROVE ClientsKnow
<1>1. user \in UserType /\ scan \in ScanType
  BY TypesOf DEF Typed
<1>2. user'.analysis = user.analysis
  BY <1>1 DEF Told, Stopped, UserType
<1>3. scan'.analysis = scan.analysis
  BY <1>1 DEF Told, ScanType
<1> QED BY <1>2, <1>3 DEF ClientsKnow, Known

LEMMA SameClientsKnow == ASSUME user' = user, scan' = scan PROVE ClientsKnow
BY DEF ClientsKnow, Known

LEMMA FailsKnows == ASSUME Typed, NEW r \in Runs, Fails(r) PROVE ClientsKnow /\ RunsKnow
BY ToldKnows, NoRunKnows DEF Fails

LEMMA AnalysesKnows ==
  ASSUME Typed, NEW r \in Runs, NEW top, Analyses(r, top)
  PROVE  ClientsKnow /\ RunsKnow
<1>1. user \in UserType /\ scan \in ScanType
  BY TypesOf DEF Typed
<1>2. CASE run[r].gone
  BY <1>2, NoRunKnows, SameClientsKnow DEF Analyses
<1>3. CASE ~run[r].gone
  <2>1. run' = [run EXCEPT ![r] = Onward(r)]
    BY <1>3 DEF Analyses, Onward
  <2>2. Known(Onward(r).result)
    BY DEF Onward, NoRun, Known
  <2>3. user'.analysis = user.analysis /\ scan'.analysis = scan.analysis
    BY <1>1, <1>3 DEF Analyses, UserType, ScanType
  <2> QED BY <2>1, <2>2, <2>3, RunKnows DEF ClientsKnow, Known
<1> QED BY <1>2, <1>3

(* A run that changes but for its analysis.                                *)
LEMMA KeepsResultKnows ==
  ASSUME Typed, NEW r \in Runs, NEW n, run' = [run EXCEPT ![r] = n], n.result = run[r].result
  PROVE  RunsKnow
<1>1. Known(n.result)
  BY DEF Known
<1> QED BY <1>1, RunKnows

LEMMA IngestKnows == ASSUME Typed, NEW r \in Runs, ingest(r) PROVE ClientsKnow /\ RunsKnow
<1>1. CASE Route(r).cached
  BY <1>1, AnalysesKnows DEF ingest
<1>2. CASE ~Route(r).cached
  <2>1. run[r] \in RunType
    BY TypesOf DEF Typed
  <2>2. run' = [run EXCEPT ![r] = FirstPage(r)] /\ user' = user /\ scan' = scan
    BY <1>2 DEF ingest, FirstPage
  <2>3. FirstPage(r).result = run[r].result
    BY <2>1 DEF FirstPage, RunType
  <2> QED BY <2>2, <2>3, KeepsResultKnows, SameClientsKnow
<1> QED BY <1>1, <1>2

LEMMA FetchKnows == ASSUME Typed, NEW r \in Runs, fetchPage(r) PROVE ClientsKnow /\ RunsKnow
<1>1. CASE IsLast(r)
  BY <1>1, FetchIs, AnalysesKnows
<1>2. CASE ~IsLast(r)
  <2>1. run[r] \in RunType
    BY TypesOf DEF Typed
  <2>2. run' = [run EXCEPT ![r] = Turned(r)] /\ user' = user /\ scan' = scan
    BY <1>2, FetchIs
  <2>3. Turned(r).result = run[r].result
    BY <2>1 DEF Turned, RunType
  <2> QED BY <2>2, <2>3, KeepsResultKnows, SameClientsKnow
<1> QED BY <1>1, <1>2

LEMMA RateLimitedKnows == ASSUME Typed, NEW r \in Runs, RateLimited(r) PROVE ClientsKnow /\ RunsKnow
<1>1. CASE GivesUp(r)
  BY <1>1, FailsKnows DEF RateLimited
<1>2. CASE ~GivesUp(r)
  <2> DEFINE n == [run[r] EXCEPT !.tries = @ + 1]
  <2>1. run[r] \in RunType
    BY TypesOf DEF Typed
  <2>2. run' = [run EXCEPT ![r] = n] /\ user' = user /\ scan' = scan
    BY <1>2 DEF RateLimited
  <2>3. n.result = run[r].result
    BY <2>1 DEF RunType
  <2> HIDE DEF n
  <2> QED BY <2>2, <2>3, KeepsResultKnows, SameClientsKnow
<1> QED BY <1>1, <1>2

LEMMA AbandonedKnows == ASSUME Typed, NEW r \in Runs, Abandoned(r) PROVE ClientsKnow /\ RunsKnow
<1> DEFINE n == [run[r] EXCEPT !.gone = TRUE]
<1>1. run[r] \in RunType
  BY TypesOf DEF Typed
<1>2. run' = [run EXCEPT ![r] = n] /\ Told(r)
  BY DEF Abandoned
<1>3. n.result = run[r].result
  BY <1>1 DEF RunType
<1> HIDE DEF n
<1> QED BY <1>2, <1>3, KeepsResultKnows, ToldKnows

LEMMA AnalysisKnows == ASSUME Typed, NEW r \in Runs, runFullTreasuryAnalysis(r) PROVE ClientsKnow /\ RunsKnow
<1> DEFINE n == [run[r] EXCEPT !.pc = "insights", !.result = ResultOf(run[r].wallet, run[r].range)]
<1>1. run[r] \in RunType /\ run[r].wallet \in Wallets /\ run[r].range \in Ranges
  BY TypesOf DEF Typed, Busy, runFullTreasuryAnalysis, RunType
<1>2. run' = [run EXCEPT ![r] = n] /\ user' = user /\ scan' = scan
  BY AnalysisIs
<1>3. n.result = ResultOf(run[r].wallet, run[r].range)
  BY <1>1 DEF RunType
<1> HIDE DEF n
<1>4. Known(n.result)
  BY <1>1, <1>3 DEF Known
<1> QED BY <1>2, <1>4, RunKnows, SameClientsKnow

LEMMA ForecastKnows == ASSUME Typed, NEW r \in Runs, generateForecast(r) PROVE ClientsKnow /\ RunsKnow
<1> DEFINE due == DueOf(run[r].wallet)
           n == [run[r] EXCEPT !.pc = "answered", !.result.due = due]
<1>1. run[r] \in RunType
  BY TypesOf DEF Typed
<1>2. run' = [run EXCEPT ![r] = n] /\ user' = user /\ scan' = scan
  BY ForecastIs DEF database
<1> HIDE DEF due
<1>3. n.result = [run[r].result EXCEPT !.due = due]
  BY <1>1 DEF RunType
<1> HIDE DEF n
<1>4. Known(n.result)
  BY <1>3 DEF Known
<1> QED BY <1>2, <1>4, RunKnows, SameClientsKnow

LEMMA SetAnalysisKnows == ASSUME Typed, NEW r \in Runs, setAnalysis(r) PROVE ClientsKnow /\ RunsKnow
<1>1. user \in UserType /\ scan \in ScanType
  BY TypesOf DEF Typed
<1>2. user'.analysis \in {user.analysis, run[r].result} /\ scan'.analysis \in {scan.analysis, run[r].result}
  BY <1>1 DEF setAnalysis, UserType, ScanType
<1>3. run' = [run EXCEPT ![r] = NoRun]
  BY DEF setAnalysis
<1> QED BY <1>2, <1>3, NoRunKnows DEF ClientsKnow, Known

(* The reports stay true of what was stored, whatever the runs do.         *)
LEMMA StepKnows == ASSUME Typed, [Next]_vars PROVE ClientsKnow /\ RunsKnow
<1>1. user \in UserType /\ scan \in ScanType
  BY TypesOf DEF Typed
<1>2. CASE Land \/ TimePasses \/ UNCHANGED vars
  BY <1>2 DEF Land, TimePasses, vars, ClientsKnow, RunsKnow, Known
<1>3. CASE reset
  <2>1. run' = run /\ user' = user /\ scan'.analysis = NoResult
    BY <1>1, <1>3 DEF reset, ScanType
  <2> QED BY <2>1 DEF ClientsKnow, RunsKnow, Known
<1>4. ASSUME NEW r \in Runs, Fails(r) \/ ingest(r) \/ RateLimited(r) \/ fetchPage(r) \/ Abandoned(r)
      PROVE  ClientsKnow /\ RunsKnow
  BY <1>4, FailsKnows, IngestKnows, RateLimitedKnows, FetchKnows, AbandonedKnows
<1>5. ASSUME NEW r \in Runs, runFullTreasuryAnalysis(r) \/ generateForecast(r) \/ setAnalysis(r)
      PROVE  ClientsKnow /\ RunsKnow
  BY <1>5, AnalysisKnows, ForecastKnows, SetAnalysisKnows
<1>6. ASSUME NEW r \in Runs, applyUserTag(r) PROVE ClientsKnow /\ RunsKnow
  BY <1>6, AnalysesKnows DEF applyUserTag
<1>7. ASSUME NEW r \in Runs, submitTag(r) PROVE ClientsKnow /\ RunsKnow
  BY <1>7, StartsKnows, SameClientsKnow DEF submitTag
<1>8. ASSUME NEW r \in Runs, NEW range, runFullAnalysis(r, range) PROVE ClientsKnow /\ RunsKnow
  <2>1. user'.analysis = user.analysis /\ scan' = scan
    BY <1>1, <1>8 DEF runFullAnalysis, UserType
  <2> QED BY <1>8, <2>1, StartsKnows DEF runFullAnalysis, ClientsKnow, Known
<1>9. ASSUME NEW r \in Runs, NEW w, runScan(r, w) PROVE ClientsKnow /\ RunsKnow
  <2>1. user' = user /\ scan'.analysis = NoResult
    BY <1>9 DEF runScan, NoScan
  <2> QED BY <1>9, <2>1, StartsKnows DEF runScan, ClientsKnow, Known
<1> QED BY <1>2, <1>3, <1>4, <1>5, <1>6, <1>7, <1>8, <1>9, NextIs

LEMMA ReportsStep == Typed /\ Reports /\ [Next]_vars => Reports'
<1> SUFFICES ASSUME Typed, Reports, [Next]_vars PROVE Reports'
  OBVIOUS
<1>1. RowsAreTheirs'
  BY RowsStayTheirs DEF Reports
<1>2. Honest(user'.analysis) /\ Honest(scan'.analysis) /\ \A q \in Runs : Honest(run'[q].result)
  BY StepKnows, KnownIsHonest DEF ClientsKnow, RunsKnow
<1> QED BY <1>1, <1>2 DEF Reports

LEMMA InitReports == Init => Reports
<1> SUFFICES ASSUME Init PROVE Reports
  OBVIOUS
<1>1. RowsAreTheirs
  BY LedgerAssumption DEF Init, NoRow, RowsAreTheirs
<1>2. user.analysis = NoResult /\ scan.analysis = NoResult /\ \A r \in Runs : run[r].result = NoResult
  BY DEF Init, NoScan, NoRun
<1> QED BY <1>1, <1>2, NothingIsHonest DEF Reports

(* Figures, chart, bills and panels are of the same rows, although other   *)
(* runs store, tag and answer between the queries they come from and after *)
(* them, and whatever range is selected meanwhile.                         *)
THEOREM ReportsAgree == Spec => []ReportAgrees
<1>1. Typed /\ Scans /\ Reports => ReportAgrees
  <2> SUFFICES ASSUME Typed, Scans, Reports PROVE ReportAgrees
    OBVIOUS
  <2>1. \A a \in {user.analysis, scan.analysis} : Lately(a) /\ Listed(a)
    BY DEF Reports, Honest
  <2>2. ASSUME NEW x \in DOMAIN user.analysis.recurring
        PROVE  BillsAgree(user.analysis.recurring[x], RecurringRows(user.analysis)[x].bill)
    <3>1. RecurringRows(user.analysis)[x].bill = BillRow(user.analysis.recurring[x])
      BY DEF RecurringRows, RecurringRow
    <3> QED BY <3>1, BillAgrees DEF Reports, Honest
  <2>3. Charted(user.analysis.found, user.range)
    BY ChartAgrees, TypesOf DEF Typed, Reports, Honest
  <2> QED BY <2>1, <2>2, <2>3, PanelsDoAgree DEF ReportAgrees
<1> DEFINE IInv == Typed /\ Paging /\ Scans /\ Reports
<1>2. Init => IInv
  BY InitTyped, InitPaging, InitScans, InitReports
<1>3. IInv /\ [Next]_vars => IInv'
  BY NextTyped, PagingStep, ScansStep, ReportsStep
<1>4. IInv => ReportAgrees
  BY <1>1
<1> HIDE DEF IInv
<1> QED BY <1>2, <1>3, <1>4, PTL DEF Spec
=============================================================================
