------------------------- MODULE ConfigSchemaProofs -------------------------
(***************************************************************************)
(* Proofs about internal/config, for any config maps and environments:     *)
(* what MergeEnvVars and the loop over the secrets return.                 *)
(***************************************************************************)
EXTENDS ConfigSchema, WellFoundedInduction, FiniteSetTheorems, TLAPS

(* Induction over the natural numbers, for a set of them *)
LEMMA NatSetInduction ==
  ASSUME NEW T, 0 \in T, \A n \in Nat : n \in T => n + 1 \in T
  PROVE  Nat \subseteq T
<1> DEFINE Missing == Nat \ T
           R == OpToRel(<, Nat)
<1>1. IsWellFoundedOn(R, Nat)
  BY NatLessThanWellFounded
<1>2. ASSUME NEW y \in Nat, NEW x \in Nat, y < x
      PROVE  <<y, x>> \in R
  BY <1>2 DEF OpToRel
<1> HIDE DEF R
<1>3. SUFFICES ASSUME Missing # {} PROVE FALSE
  OBVIOUS
<1>4. PICK x \in Missing : \A y \in Missing : ~(<<y, x>> \in R)
  BY <1>1, <1>3, WFMin
<1>5. x \in Nat /\ x # 0 /\ x - 1 \in Nat /\ x - 1 < x
  BY <1>4
<1>6. x - 1 \in T
  BY <1>2, <1>4, <1>5
<1>7. (x - 1) + 1 = x
  BY <1>5
<1> QED BY <1>4, <1>5, <1>6, <1>7

-----------------------------------------------------------------------------
(* MergeEnvVars.  m[k] is what its loop has made of the first k variables. *)

Merging(vars, m, n) ==
  m = [k \in 0..n |-> IF k = 0 THEN <<>> ELSE MergeEnvVar(m[k - 1], vars[k])]

(* The loop ends: its recursive definition defines a function. *)
LEMMA MergingExists ==
  ASSUME NEW vars
  PROVE  \A n \in Nat : \E m : Merging(vars, m, n)
<1> DEFINE T == {n \in Nat : \E m : Merging(vars, m, n)}
<1>1. 0 \in T
  <2> DEFINE m == [k \in 0..0 |-> <<>>]
  <2>1. m = [k \in 0..0 |-> IF k = 0 THEN <<>> ELSE MergeEnvVar(m[k - 1], vars[k])]
    OBVIOUS
  <2> QED BY <2>1 DEF Merging
<1>2. ASSUME NEW n \in Nat, n \in T
      PROVE  n + 1 \in T
  <2>1. PICK m : Merging(vars, m, n)
    BY <1>2
  <2> DEFINE h == [k \in 0..(n + 1) |->
                     IF k = n + 1 THEN MergeEnvVar(m[n], vars[n + 1]) ELSE m[k]]
  <2>2. \A k \in 0..n : h[k] = m[k]
    OBVIOUS
  <2>3. h[n + 1] = MergeEnvVar(h[n], vars[n + 1])
    BY <2>2
  <2>4. \A k \in 0..(n + 1) :
           h[k] = IF k = 0 THEN <<>> ELSE MergeEnvVar(h[k - 1], vars[k])
    <3> TAKE k \in 0..(n + 1)
    <3>1. CASE k = n + 1
      <4>1. k # 0 /\ k - 1 = n
        BY <3>1
      <4> HIDE DEF h
      <4> QED BY <2>3, <3>1, <4>1
    <3>2. CASE k \in 0..n
      <4>1. m[k] = IF k = 0 THEN <<>> ELSE MergeEnvVar(m[k - 1], vars[k])
        BY <2>1, <3>2 DEF Merging
      <4>2. k # 0 => k - 1 \in 0..n
        BY <3>2
      <4> HIDE DEF h
      <4> QED BY <2>2, <3>2, <4>1, <4>2
    <3> QED BY <3>1, <3>2
  <2>5. h = [k \in 0..(n + 1) |->
               IF k = 0 THEN <<>> ELSE MergeEnvVar(h[k - 1], vars[k])]
    <3>1. DOMAIN h = 0..(n + 1) /\ h = [k \in 0..(n + 1) |-> h[k]]
      OBVIOUS
    <3> HIDE DEF h
    <3> QED BY <2>4, <3>1
  <2> HIDE DEF h
  <2>6. n + 1 \in Nat
    OBVIOUS
  <2> QED BY <2>5, <2>6 DEF Merging
<1> HIDE DEF T
<1>3. Nat \subseteq T
  BY <1>1, <1>2, NatSetInduction
<1> QED BY <1>3 DEF T

LEMMA MergeUnfolds ==
  ASSUME NEW vars, Len(vars) \in Nat
  PROVE  \E m : Merging(vars, m, Len(vars)) /\ MergeEnvVars(vars) = m[Len(vars)]
<1> DEFINE m == CHOOSE m : Merging(vars, m, Len(vars))
<1>1. Merging(vars, m, Len(vars))
  BY MergingExists
<1>2. MergeEnvVars(vars) = m[Len(vars)]
  BY DEF MergeEnvVars, Merging
<1> QED BY <1>1, <1>2

(* A result of merging the first n variables: names of their own, for      *)
(* every name given its last variable, and nothing else.                   *)
IsLast(vars, i, n) == \A j \in (i + 1)..n : vars[j].name # vars[i].name

Merged(vars, m, n) ==
  /\ \A p, q \in DOMAIN m : m[p].name = m[q].name => p = q
  /\ \A i \in 1..n : \E p \in DOMAIN m : m[p].name = vars[i].name
  /\ \A p \in DOMAIN m : \E i \in 1..n : m[p] = vars[i] /\ IsLast(vars, i, n)

LEMMA MergeStep ==
  ASSUME NEW V, NEW vars, NEW n \in Nat, NEW m \in Seq(V), vars[n + 1] \in V,
         Merged(vars, m, n)
  PROVE  /\ MergeEnvVar(m, vars[n + 1]) \in Seq(V)
         /\ Merged(vars, MergeEnvVar(m, vars[n + 1]), n + 1)
<1> DEFINE v == vars[n + 1]
           r == MergeEnvVar(m, v)
<1>1. ASSUME NEW p \in DOMAIN m, m[p].name # v.name
      PROVE  \E i \in 1..(n + 1) : m[p] = vars[i] /\ IsLast(vars, i, n + 1)
  <2>1. PICK i \in 1..n : m[p] = vars[i] /\ IsLast(vars, i, n)
    BY DEF Merged
  <2>2. \A j \in (i + 1)..(n + 1) : j \in (i + 1)..n \/ j = n + 1
    OBVIOUS
  <2>3. IsLast(vars, i, n + 1)
    BY <1>1, <2>1, <2>2 DEF IsLast
  <2> QED BY <2>1, <2>3
<1>2. IsLast(vars, n + 1, n + 1) /\ n + 1 \in 1..(n + 1)
  BY DEF IsLast
<1>3. \A i \in 1..(n + 1) : i \in 1..n \/ i = n + 1
  OBVIOUS
<1>4. CASE \E p \in DOMAIN m : m[p].name = v.name
  <2>1. r = [p \in DOMAIN m |-> IF m[p].name = v.name THEN v ELSE m[p]]
    BY <1>4 DEF MergeEnvVar
  <2>2. r \in Seq(V) /\ DOMAIN r = DOMAIN m
    BY <2>1
  <2>3. \A p \in DOMAIN m : r[p] = IF m[p].name = v.name THEN v ELSE m[p]
    BY <2>1
  <2> HIDE DEF r
  <2>4. \A p \in DOMAIN m : r[p].name = m[p].name
    BY <2>3
  <2>5. \A p, q \in DOMAIN r : r[p].name = r[q].name => p = q
    BY <2>2, <2>4 DEF Merged
  <2>6. \A i \in 1..(n + 1) : \E p \in DOMAIN r : r[p].name = vars[i].name
    <3> TAKE i \in 1..(n + 1)
    <3>1. CASE i = n + 1
      BY <1>4, <2>2, <2>4, <3>1
    <3>2. CASE i \in 1..n
      <4>1. PICK p \in DOMAIN m : m[p].name = vars[i].name
        BY <3>2 DEF Merged
      <4> QED BY <2>2, <2>4, <4>1
    <3> QED BY <1>3, <3>1, <3>2
  <2>7. \A p \in DOMAIN r : \E i \in 1..(n + 1) : r[p] = vars[i] /\ IsLast(vars, i, n + 1)
    BY <1>1, <1>2, <2>2, <2>3
  <2> QED BY <2>2, <2>5, <2>6, <2>7 DEF Merged, r
<1>5. CASE ~\E p \in DOMAIN m : m[p].name = v.name
  <2>1. r = Append(m, v)
    BY <1>5 DEF MergeEnvVar
  <2>2. /\ r \in Seq(V) /\ Len(m) \in Nat /\ DOMAIN m = 1..Len(m)
        /\ DOMAIN r = 1..(Len(m) + 1)
        /\ \A p \in DOMAIN m : p \in DOMAIN r /\ r[p] = m[p]
        /\ r[Len(m) + 1] = v
    BY <2>1
  <2> HIDE DEF r
  <2>3. \A p \in DOMAIN r : p \in DOMAIN m \/ p = Len(m) + 1
    BY <2>2
  <2>4. \A p, q \in DOMAIN r : r[p].name = r[q].name => p = q
    BY <1>5, <2>2, <2>3 DEF Merged
  <2>5. Len(m) + 1 \in DOMAIN r
    BY <2>2
  <2>6. \A i \in 1..(n + 1) : \E p \in DOMAIN r : r[p].name = vars[i].name
    <3> TAKE i \in 1..(n + 1)
    <3>1. CASE i = n + 1
      BY <2>2, <2>5, <3>1
    <3>2. CASE i \in 1..n
      <4>1. PICK p \in DOMAIN m : m[p].name = vars[i].name
        BY <3>2 DEF Merged
      <4> QED BY <2>2, <4>1
    <3> QED BY <1>3, <3>1, <3>2
  <2>7. \A p \in DOMAIN r : \E i \in 1..(n + 1) : r[p] = vars[i] /\ IsLast(vars, i, n + 1)
    <3> TAKE p \in DOMAIN r
    <3>1. CASE p \in DOMAIN m
      BY <1>1, <1>5, <2>2, <3>1
    <3>2. CASE p = Len(m) + 1
      BY <1>2, <2>2, <3>2
    <3> QED BY <2>3, <3>1, <3>2
  <2> QED BY <2>2, <2>4, <2>6, <2>7 DEF Merged, r
<1> QED BY <1>4, <1>5

(* MergeEnvVars, for whatever environments it is given: every name that    *)
(* occurs comes out once, with the last of its variables, and no other.    *)
THEOREM MergeEnvVarsMerges ==
  ASSUME NEW V, NEW vars \in Seq(V)
  PROVE  /\ MergeEnvVars(vars) \in Seq(V)
         /\ Merged(vars, MergeEnvVars(vars), Len(vars))
<1>1. PICK m : Merging(vars, m, Len(vars)) /\ MergeEnvVars(vars) = m[Len(vars)]
  BY MergeUnfolds
<1> DEFINE T == {n \in Nat : n <= Len(vars) => m[n] \in Seq(V) /\ Merged(vars, m[n], n)}
<1>2. 0 \in T
  <2>1. m[0] = <<>>
    BY <1>1 DEF Merging
  <2>2. <<>> \in Seq(V) /\ DOMAIN <<>> = {} /\ 1..0 = {}
    OBVIOUS
  <2>3. Merged(vars, <<>>, 0)
    BY <2>2 DEF Merged
  <2> QED BY <2>1, <2>2, <2>3
<1>3. ASSUME NEW n \in Nat, n \in T
      PROVE  n + 1 \in T
  <2> SUFFICES ASSUME n + 1 <= Len(vars)
               PROVE  m[n + 1] \in Seq(V) /\ Merged(vars, m[n + 1], n + 1)
    OBVIOUS
  <2>1. m[n] \in Seq(V) /\ Merged(vars, m[n], n)
    BY <1>3
  <2>2. n + 1 \in 0..Len(vars) /\ n + 1 # 0 /\ (n + 1) - 1 = n /\ vars[n + 1] \in V
    OBVIOUS
  <2>3. m[n + 1] = MergeEnvVar(m[n], vars[n + 1])
    BY <1>1, <2>2 DEF Merging
  <2> QED BY <2>1, <2>2, <2>3, MergeStep
<1> HIDE DEF T
<1>4. Len(vars) \in T
  BY <1>2, <1>3, NatSetInduction
<1> QED BY <1>1, <1>4 DEF T

(* The list has the variable, and no other of its name. *)
Holds(list, var) ==
  \E p \in DOMAIN list : /\ list[p] = var
                        /\ \A q \in DOMAIN list : list[q].name = var.name => q = p

(* Of two lists whose second names nothing twice, the second wins. *)
LEMMA LaterVariablesWin ==
  ASSUME NEW V, NEW first \in Seq(V), NEW second \in Seq(V), NEW i \in DOMAIN second,
         \A j, k \in DOMAIN second : second[j].name = second[k].name => j = k
  PROVE  Holds(MergeEnvVars(first \o second), second[i])
<1> DEFINE vars == first \o second
           n == Len(first)
           merged == MergeEnvVars(vars)
<1>1. /\ vars \in Seq(V) /\ n \in Nat /\ Len(second) \in Nat
      /\ Len(vars) = n + Len(second) /\ DOMAIN second = 1..Len(second)
  OBVIOUS
<1>2. \A j \in DOMAIN second : vars[n + j] = second[j]
  OBVIOUS
<1> HIDE DEF vars, n
<1>3. Merged(vars, merged, Len(vars))
  BY <1>1, MergeEnvVarsMerges
<1> HIDE DEF merged
<1>4. n + i \in 1..Len(vars) /\ vars[n + i] = second[i]
  BY <1>1, <1>2
<1>5. PICK p \in DOMAIN merged : merged[p].name = second[i].name
  <2>1. \E p \in DOMAIN merged : merged[p].name = vars[n + i].name
    BY <1>3, <1>4 DEF Merged
  <2> QED BY <1>4, <2>1
<1>6. PICK l \in 1..Len(vars) : merged[p] = vars[l] /\ IsLast(vars, l, Len(vars))
  BY <1>3 DEF Merged
<1>7. l = n + i
  <2>1. ~(n + i \in (l + 1)..Len(vars))
    BY <1>4, <1>5, <1>6 DEF IsLast
  <2>2. l >= n + i
    BY <1>1, <1>4, <2>1
  <2>3. l - n \in DOMAIN second /\ l = n + (l - n)
    BY <1>1, <2>2
  <2>4. vars[l] = second[l - n]
    BY <1>2, <2>3
  <2>5. l - n = i
    BY <1>5, <1>6, <2>3, <2>4
  <2> QED BY <1>1, <2>5
<1>8. merged[p] = second[i]
  BY <1>4, <1>6, <1>7
<1>9. \A q \in DOMAIN merged : merged[q].name = second[i].name => q = p
  BY <1>3, <1>5 DEF Merged
<1> QED BY <1>8, <1>9 DEF merged, vars, Holds

-----------------------------------------------------------------------------
InOrder(config, vars, keys, n) ==
  /\ vars = [i \in 1..n |-> [name   |-> EnvName(keys[i]),
                            source |-> config[keys[i]].secret]]
  /\ \A i, j \in 1..n : keys[i] = keys[j] => i = j
  /\ \A k \in SecretKeys(config) : \E i \in 1..n : keys[i] = k

(* ResolveConfigValues: in whatever order Go iterates over the map, every  *)
(* secret comes out, once.                                                 *)
LEMMA EverySecretComesOut ==
  ASSUME NEW config, IsFiniteSet(SecretKeys(config)), NEW vars \in SecretEnvVars(config)
  PROVE  \E n \in Nat : \E keys \in [1..n -> SecretKeys(config)] :
           InOrder(config, vars, keys, n)
<1> DEFINE S == SecretKeys(config)
           n == Cardinality(S)
<1>1. PICK keys \in SetToSeqs(S) :
        vars = [i \in DOMAIN keys |-> [name   |-> EnvName(keys[i]),
                                      source |-> config[keys[i]].secret]]
  BY DEF SecretEnvVars
<1>2. n \in Nat
  BY FS_CardinalityType
<1>3. keys \in [1..n -> S] /\ \A i, j \in 1..n : keys[i] = keys[j] => i = j
  BY DEF SetToSeqs
<1> HIDE DEF n, S
<1>4. keys \in Injection(1..n, S)
  BY <1>3 DEF Injection, IsInjective
<1>5. Cardinality(1..n) = Cardinality(S)
  BY <1>2, FS_Interval DEF n
<1>6. keys \in Surjection(1..n, S)
  BY <1>4, <1>5, FS_Injection DEF S
<1>7. \A k \in S : \E i \in 1..n : keys[i] = k
  BY <1>6 DEF Surjection
<1>8. DOMAIN keys = 1..n
  BY <1>3
<1>9. InOrder(config, vars, keys, n)
  BY <1>1, <1>3, <1>7, <1>8 DEF S, InOrder
<1> QED BY <1>2, <1>3, <1>9 DEF S

SecretVar(config, key) == [name |-> EnvName(key), source |-> config[key].secret]

(* The variables of the secrets as a list: each once, in some order. *)
ListsSecrets(config, vars, n) ==
  /\ DOMAIN vars = 1..n /\ vars = [i \in 1..n |-> vars[i]]
  /\ \A i \in 1..n : \E k \in SecretKeys(config) : vars[i] = SecretVar(config, k)
  /\ \A k \in SecretKeys(config) : \E i \in 1..n : vars[i] = SecretVar(config, k)
  /\ \A i, j \in 1..n : vars[i].name = vars[j].name => i = j

LEMMA SecretsListed ==
  ASSUME NEW config, IsFiniteSet(SecretKeys(config)),
         \A k, l \in SecretKeys(config) : EnvName(k) = EnvName(l) => k = l,
         NEW vars \in SecretEnvVars(config)
  PROVE  \E n \in Nat : ListsSecrets(config, vars, n)
<1>1. PICK n \in Nat : \E keys \in [1..n -> SecretKeys(config)] :
        InOrder(config, vars, keys, n)
  BY EverySecretComesOut
<1>2. PICK keys \in [1..n -> SecretKeys(config)] : InOrder(config, vars, keys, n)
  BY <1>1
<1>3. DOMAIN vars = 1..n /\ vars = [i \in 1..n |-> vars[i]]
  BY <1>2 DEF InOrder
<1>4. \A i \in 1..n : vars[i] = SecretVar(config, keys[i]) /\ vars[i].name = EnvName(keys[i])
  BY <1>2 DEF InOrder, SecretVar
<1>5. \A i, j \in 1..n : vars[i].name = vars[j].name => i = j
  BY <1>2, <1>4 DEF InOrder
<1>6. \A k \in SecretKeys(config) : \E i \in 1..n : vars[i] = SecretVar(config, k)
  BY <1>2, <1>4 DEF InOrder
<1>7. \A i \in 1..n : \E k \in SecretKeys(config) : vars[i] = SecretVar(config, k)
  BY <1>4
<1>8. ListsSecrets(config, vars, n)
  BY <1>3, <1>5, <1>6, <1>7 DEF ListsSecrets
<1> QED BY <1>8

(* The last variable of a name comes out of the merge. *)
LEMMA LastComesOut ==
  ASSUME NEW vars, NEW m, NEW n \in Nat, Merged(vars, m, n),
         NEW i \in 1..n, IsLast(vars, i, n)
  PROVE  \E q \in DOMAIN m : m[q] = vars[i]
<1>1. PICK q \in DOMAIN m : m[q].name = vars[i].name
  BY DEF Merged
<1>2. PICK l \in 1..n : m[q] = vars[l] /\ IsLast(vars, l, n)
  BY DEF Merged
<1>3. ~(i \in (l + 1)..n) /\ ~(l \in (i + 1)..n)
  BY <1>1, <1>2 DEF IsLast
<1>4. l = i
  BY <1>3
<1> QED BY <1>2, <1>4

(* A list after another. *)
LEMMA Appended ==
  ASSUME NEW W, NEW a \in Seq(W), NEW b, NEW n \in Nat,
         DOMAIN b = 1..n, b = [i \in 1..n |-> b[i]], \A i \in 1..n : b[i] \in W
  PROVE  /\ Len(a) \in Nat /\ a \o b \in Seq(W) /\ Len(a \o b) = Len(a) + n
         /\ \A i \in 1..Len(a) : (a \o b)[i] = a[i]
         /\ \A i \in 1..n : (a \o b)[Len(a) + i] = b[i]
<1>1. b \in Seq(W) /\ Len(b) = n
  OBVIOUS
<1>2. Len(a) \in Nat
  OBVIOUS
<1>3. a \o b \in Seq(W) /\ Len(a \o b) = Len(a) + n
  BY <1>1
<1>4. \A i \in 1..Len(a) : (a \o b)[i] = a[i]
  BY <1>1
<1>5. \A i \in 1..n : (a \o b)[Len(a) + i] = b[i]
  BY <1>1, <1>2
<1> QED BY <1>2, <1>3, <1>4, <1>5

(* What comes out of the merge with the secrets in one order also comes    *)
(* out of it with the secrets in another.                                  *)
LEMMA OrderKeeps ==
  ASSUME NEW config, IsFiniteSet(SecretKeys(config)),
         \A k, l \in SecretKeys(config) : EnvName(k) = EnvName(l) => k = l,
         NEW V, NEW env \in Seq(V),
         NEW one \in SecretEnvVars(config), NEW other \in SecretEnvVars(config),
         NEW p \in DOMAIN MergeEnvVars(env \o one)
  PROVE  \E q \in DOMAIN MergeEnvVars(env \o other) :
           MergeEnvVars(env \o other)[q] = MergeEnvVars(env \o one)[p]
<1> DEFINE S == SecretKeys(config)
<1>a. PICK n \in Nat : ListsSecrets(config, one, n)
  BY SecretsListed
<1>b. PICK m \in Nat : ListsSecrets(config, other, m)
  BY SecretsListed
<1>1. /\ DOMAIN one = 1..n /\ one = [i \in 1..n |-> one[i]]
      /\ \A i \in 1..n : \E k \in S : one[i] = SecretVar(config, k)
      /\ \A k \in S : \E i \in 1..n : one[i] = SecretVar(config, k)
  BY <1>a DEF ListsSecrets
<1>2. /\ DOMAIN other = 1..m /\ other = [i \in 1..m |-> other[i]]
      /\ \A i \in 1..m : \E k \in S : other[i] = SecretVar(config, k)
      /\ \A k \in S : \E i \in 1..m : other[i] = SecretVar(config, k)
      /\ \A i, j \in 1..m : other[i].name = other[j].name => i = j
  BY <1>b DEF ListsSecrets
<1> HIDE DEF S
<1> DEFINE W         == V \cup {SecretVar(config, k) : k \in S}
           e         == Len(env)
           varsOne   == env \o one
           varsOther == env \o other
           mOne      == MergeEnvVars(varsOne)
           mOther    == MergeEnvVars(varsOther)
<1>3. /\ \A i \in 1..n : one[i] \in W
      /\ \A i \in 1..m : other[i] \in W
      /\ env \in Seq(W)
  <2>1. V \subseteq W
    OBVIOUS
  <2>2. \A k \in S : SecretVar(config, k) \in W
    OBVIOUS
  <2> HIDE DEF W
  <2> QED BY <1>1, <1>2, <2>1, <2>2
<1> HIDE DEF W
<1>4. /\ e \in Nat /\ varsOne \in Seq(W) /\ varsOther \in Seq(W)
      /\ Len(varsOne) = e + n /\ Len(varsOther) = e + m
      /\ \A i \in 1..e : varsOne[i] = env[i] /\ varsOther[i] = env[i]
      /\ \A i \in 1..n : varsOne[e + i] = one[i]
      /\ \A i \in 1..m : varsOther[e + i] = other[i]
  <2>1. /\ e \in Nat /\ varsOne \in Seq(W) /\ Len(varsOne) = e + n
        /\ \A i \in 1..e : varsOne[i] = env[i]
        /\ \A i \in 1..n : varsOne[e + i] = one[i]
    BY <1>1, <1>3, Appended
  <2>2. /\ varsOther \in Seq(W) /\ Len(varsOther) = e + m
        /\ \A i \in 1..e : varsOther[i] = env[i]
        /\ \A i \in 1..m : varsOther[e + i] = other[i]
    BY <1>2, <1>3, Appended
  <2> HIDE DEF varsOne, varsOther, e
  <2> QED BY <2>1, <2>2
<1> HIDE DEF varsOne, varsOther, e
<1>5. Merged(varsOne, mOne, e + n) /\ Merged(varsOther, mOther, e + m)
  BY <1>4, MergeEnvVarsMerges
<1> HIDE DEF mOne, mOther
<1>6. PICK i \in 1..(e + n) : mOne[p] = varsOne[i] /\ IsLast(varsOne, i, e + n)
  BY <1>5 DEF Merged, mOne, varsOne
<1>7. SUFFICES \E j \in 1..(e + m) : varsOther[j] = varsOne[i] /\ IsLast(varsOther, j, e + m)
  <2> SUFFICES ASSUME NEW j \in 1..(e + m),
                      varsOther[j] = varsOne[i], IsLast(varsOther, j, e + m)
               PROVE  \E q \in DOMAIN mOther : mOther[q] = mOne[p]
    BY DEF mOne, mOther, varsOne, varsOther
  <2>1. \E q \in DOMAIN mOther : mOther[q] = varsOther[j]
    BY <1>4, <1>5, LastComesOut
  <2> QED BY <1>6, <2>1
<1>8. CASE i \in 1..e
  <2>1. \A j \in 1..n : one[j].name # env[i].name
    <3> TAKE j \in 1..n
    <3>1. e + j \in (i + 1)..(e + n)
      BY <1>4, <1>8
    <3> QED BY <1>4, <1>6, <1>8, <3>1 DEF IsLast
  <2>2. \A j \in 1..m : other[j].name # env[i].name
    <3> TAKE j \in 1..m
    <3>1. PICK k \in S : other[j] = SecretVar(config, k)
      BY <1>2
    <3>2. PICK l \in 1..n : one[l] = SecretVar(config, k)
      BY <1>1
    <3> QED BY <2>1, <3>1, <3>2
  <2>3. \A j \in (i + 1)..(e + m) : varsOther[j].name # varsOther[i].name
    <3> TAKE j \in (i + 1)..(e + m)
    <3>1. CASE j \in 1..e
      <4>1. j \in (i + 1)..(e + n)
        BY <1>4, <1>8, <3>1
      <4> QED BY <1>4, <1>6, <1>8, <3>1, <4>1 DEF IsLast
    <3>2. CASE j \notin 1..e
      <4>1. j - e \in 1..m /\ j = e + (j - e)
        BY <1>4, <1>8, <3>2
      <4> QED BY <1>4, <1>8, <2>2, <4>1
    <3> QED BY <3>1, <3>2
  <2>4. i \in 1..(e + m)
    BY <1>4, <1>8
  <2> QED BY <1>4, <1>8, <2>3, <2>4 DEF IsLast
<1>9. CASE i \notin 1..e
  <2>1. i - e \in 1..n /\ i = e + (i - e)
    BY <1>4, <1>9
  <2>2. varsOne[i] = one[i - e]
    BY <1>4, <2>1
  <2>3. PICK k \in S : one[i - e] = SecretVar(config, k)
    BY <1>1, <2>1
  <2>4. PICK l \in 1..m : other[l] = SecretVar(config, k)
    BY <1>2
  <2>5. \A j \in (e + l + 1)..(e + m) : varsOther[j].name # varsOther[e + l].name
    <3> TAKE j \in (e + l + 1)..(e + m)
    <3>1. j - e \in 1..m /\ j = e + (j - e) /\ j - e # l
      BY <1>4
    <3>2. other[j - e].name # other[l].name
      BY <1>2, <3>1
    <3>3. varsOther[j] = other[j - e] /\ varsOther[e + l] = other[l]
      BY <1>4, <3>1
    <3> QED BY <3>2, <3>3
  <2>6. e + l \in 1..(e + m)
    BY <1>4
  <2>7. varsOther[e + l] = varsOne[i]
    BY <1>4, <2>2, <2>3, <2>4
  <2> QED BY <2>5, <2>6, <2>7 DEF IsLast
<1> QED BY <1>8, <1>9

(* Whatever the order of the map, the same variables come out. *)
LEMMA OrderOnlyReorders ==
  ASSUME NEW config, IsFiniteSet(SecretKeys(config)),
         \A k, l \in SecretKeys(config) : EnvName(k) = EnvName(l) => k = l,
         NEW V, NEW env \in Seq(V),
         NEW one \in SecretEnvVars(config), NEW other \in SecretEnvVars(config)
  PROVE  Range(MergeEnvVars(env \o one)) = Range(MergeEnvVars(env \o other))
<1>1. \A v : v \in Range(MergeEnvVars(env \o one)) => v \in Range(MergeEnvVars(env \o other))
  BY OrderKeeps DEF Range
<1>2. \A v : v \in Range(MergeEnvVars(env \o other)) => v \in Range(MergeEnvVars(env \o one))
  BY OrderKeeps DEF Range
<1> QED BY <1>1, <1>2
=============================================================================
