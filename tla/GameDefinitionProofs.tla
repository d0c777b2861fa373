------------------------ MODULE GameDefinitionProofs ------------------------
(***************************************************************************)
(* Proofs about the GameDefinition controller, for any definitions, any    *)
(* specs and any bounds on edits and faults.                               *)
(***************************************************************************)
EXTENDS GameDefinitionController, TLAPS

(* A verdict is a status of the right type whatever the definition. *)
LEMMA VerdictType ==
  ASSUME NEW d \in Definitions
  PROVE  Validated(d) \in Definitions /\ Invalidated(d) \in Definitions
BY DEF Validated, Invalidated, Definitions

(* Every step of the GameDefinition controller, of its informer and of the *)
(* users keeps the types.                                                  *)
LEMMA DefTypeStep ==
  ASSUME DefTypeOK, [DefNext]_defVars
  PROVE  DefTypeOK'
<1> USE BoundAssumption DEF DefTypeOK, BoundAssumption
<1>1. ASSUME NEW g \in Games, CreateDef(g)
      PROVE  DefTypeOK'
  <2>1. PICK d \in Defs :
          def' = [def EXCEPT ![g] = [uid |-> edits', spec |-> d,
                                     ready |-> FALSE, message |-> ""]]
    BY <1>1 DEF CreateDef
  <2>2. edits' \in 0..MaxEdits
    <3>1. UserActs
      BY <1>1 DEF CreateDef
    <3> QED BY <3>1 DEF UserActs
  <2>3. [uid |-> edits', spec |-> d, ready |-> FALSE, message |-> ""]
          \in Definitions
    BY <2>2 DEF Definitions
  <2> QED BY <1>1, <2>1, <2>2, <2>3 DEF CreateDef
<1>2. ASSUME NEW g \in Games, EditDef(g)
      PROVE  DefTypeOK'
  <2>1. PICK d \in Defs : def' = [def EXCEPT ![g].spec = d]
    BY <1>2 DEF EditDef
  <2>2. [def[g] EXCEPT !.spec = d] \in Definitions
    BY <1>2 DEF EditDef, Definitions
  <2>3. edits' \in 0..MaxEdits
    BY <1>2 DEF EditDef, UserActs
  <2> QED BY <1>2, <2>1, <2>2, <2>3 DEF EditDef
<1>3. ASSUME NEW g \in Games, DeleteDef(g)
      PROVE  DefTypeOK'
  BY <1>3 DEF DeleteDef, UserActs
<1>4. ASSUME NEW g \in Games, SyncDef(g)
      PROVE  DefTypeOK'
  BY <1>4 DEF SyncDef
<1>5. ASSUME NEW g \in Games, ReconcileDef(g)
      PROVE  DefTypeOK'
  <2>1. CASE ReconcileDefGone(g)
    BY <2>1 DEF ReconcileDefGone, Dequeue
  <2>2. CASE ReconcileInvalidDef(g)
    BY <2>2, VerdictType DEF ReconcileInvalidDef, WriteDefStatus
  <2>3. CASE ReconcileValidDef(g)
    BY <2>3, VerdictType DEF ReconcileValidDef, WriteDefStatus
  <2> QED BY <1>5, <2>1, <2>2, <2>3 DEF ReconcileDef
<1>6. ASSUME NEW g \in Games, DefAnswerLost(g)
      PROVE  DefTypeOK'
  <2>1. def' \in [Games -> Definitions \cup {None}]
    BY <1>6, VerdictType DEF DefAnswerLost
  <2> QED BY <1>6, <2>1 DEF DefAnswerLost
<1>7. CASE DefCrash
  BY <1>7 DEF DefCrash, ExistingDefs
<1>8. CASE UNCHANGED defVars
  BY <1>8 DEF defVars
<1> QED BY <1>1, <1>2, <1>3, <1>4, <1>5, <1>6, <1>7, <1>8
        DEF DefNext, DefUserNext, DefSystemNext

LEMMA DefTypeInit == DefInit => DefTypeOK
<1> SUFFICES ASSUME DefInit PROVE DefTypeOK
  OBVIOUS
<1>1. \A d \in Defs : [uid |-> 0, spec |-> d, ready |-> TRUE,
                       message |-> "validated"] \in Definitions
  BY BoundAssumption DEF Definitions, BoundAssumption
<1>2. {[uid |-> 0, spec |-> d, ready |-> TRUE, message |-> "validated"] :
          d \in {x \in Defs : ValidDefinition(x)}} \subseteq Definitions
  BY <1>1
<1>3. def \in [Games -> Definitions \cup {None}]
  BY <1>2 DEF DefInit
<1> QED BY <1>3, BoundAssumption
        DEF DefInit, DefTypeOK, ExistingDefs, BoundAssumption

(* Type correctness of the GameDefinition controller. *)
THEOREM DefTypeCorrect == DefSpec => []DefTypeOK
BY DefTypeInit, DefTypeStep, PTL DEF DefSpec

-----------------------------------------------------------------------------
(* What the rest of the operator does to the definitions: nothing, but its *)
(* users share the clock of edits.  The lemmas below leave room for it.    *)

DefOrOther ==
  [DefNext]_defVars \/ (UNCHANGED <<def, defCache, defQueue>> /\ edits <= edits')

(* The optimistic lock at work: a status is written only onto the very     *)
(* object that was validated.                                              *)
LEMMA ReadyStep ==
  ASSUME DefTypeOK, DefOrOther, NEW g \in Games, ReadyRises(g)
  PROVE  ValidDefinition(def'[g].spec)
<1> USE DEF DefTypeOK, ReadyRises
<1>1. ASSUME NEW h \in Games, CreateDef(h)
      PROVE  FALSE
  BY <1>1 DEF CreateDef
<1>2. ASSUME NEW h \in Games, EditDef(h)
      PROVE  FALSE
  <2>1. def[h] \in Definitions
    BY <1>2 DEF EditDef
  <2>2. def'[g].ready = def[g].ready
    BY <1>2, <2>1 DEF EditDef, Definitions
  <2> QED BY <2>2
<1>3. ASSUME NEW h \in Games, DeleteDef(h)
      PROVE  FALSE
  BY <1>3 DEF DeleteDef
<1>4. ASSUME NEW h \in Games, SyncDef(h)
      PROVE  FALSE
  BY <1>4 DEF SyncDef
<1>5. ASSUME NEW h \in Games, ReconcileDefGone(h)
      PROVE  FALSE
  BY <1>5 DEF ReconcileDefGone
<1>6. ASSUME NEW h \in Games, ReconcileInvalidDef(h)
      PROVE  FALSE
  <2>1. defCache[h] \in Definitions
    BY <1>6 DEF ReconcileInvalidDef
  <2>2. ~Invalidated(defCache[h]).ready
    BY <2>1 DEF Invalidated, Definitions
  <2> QED BY <1>6, <2>2 DEF ReconcileInvalidDef, WriteDefStatus
<1>7. ASSUME NEW h \in Games, ReconcileValidDef(h)
      PROVE  ValidDefinition(def'[g].spec)
  <2>1. defCache[h] \in Definitions
    BY <1>7 DEF ReconcileValidDef
  <2>2. Validated(defCache[h]).spec = defCache[h].spec
    BY <2>1 DEF Validated, Definitions
  <2> QED BY <1>7, <2>2 DEF ReconcileValidDef, WriteDefStatus
<1>8. ASSUME NEW h \in Games, DefAnswerLost(h)
      PROVE  ValidDefinition(def'[g].spec)
  <2>1. defCache[h] \in Definitions
    BY <1>8 DEF DefAnswerLost
  <2>2. CASE ValidDefinition(defCache[h].spec)
    <3>1. Validated(defCache[h]).spec = defCache[h].spec
      BY <2>1 DEF Validated, Definitions
    <3> QED BY <1>8, <2>2, <3>1 DEF DefAnswerLost
  <2>3. CASE ~ValidDefinition(defCache[h].spec)
    <3>1. ~Invalidated(defCache[h]).ready
      BY <2>1 DEF Invalidated, Definitions
    <3> QED BY <1>8, <2>3, <3>1 DEF DefAnswerLost
  <2> QED BY <2>2, <2>3
<1>9. CASE DefCrash
  BY <1>9 DEF DefCrash
<1>10. CASE UNCHANGED defVars \/ UNCHANGED <<def, defCache, defQueue>>
  BY <1>10 DEF defVars
<1> QED BY <1>1, <1>2, <1>3, <1>4, <1>5, <1>6, <1>7, <1>8, <1>9, <1>10
        DEF DefOrOther, DefNext, DefUserNext, DefSystemNext, ReconcileDef

(* Ready rises only where the stored spec validates, for any number of     *)
(* definitions and edits and any cache lag.                                *)
THEOREM ReadyOnlyWhenValidCorrect == DefSpec => ReadyOnlyWhenValid
<1>1. DefTypeOK /\ [DefNext]_defVars
        => [\A g \in Games : ReadyRises(g) => ValidDefinition(def'[g].spec)]_defVars
  BY ReadyStep DEF DefOrOther
<1> QED BY <1>1, DefTypeCorrect, PTL DEF DefSpec, ReadyOnlyWhenValid

-----------------------------------------------------------------------------
(* The controller rests only when the status is right. *)

Verdict(d) == IF ValidDefinition(d.spec) THEN Validated(d) ELSE Invalidated(d)

LEMMA VerdictAccurate ==
  ASSUME NEW d \in Definitions
  PROVE  /\ Verdict(d) \in Definitions
         /\ Verdict(d).uid = d.uid /\ Verdict(d).spec = d.spec
         /\ Accurate(Verdict(d))
<1>1. /\ Validated(d).uid = d.uid /\ Validated(d).spec = d.spec
      /\ Validated(d).ready /\ Validated(d).message = "validated"
  BY DEF Validated, Definitions
<1>2. /\ Invalidated(d).uid = d.uid /\ Invalidated(d).spec = d.spec
      /\ ~Invalidated(d).ready /\ Invalidated(d).message = "invalid"
  BY DEF Invalidated, Definitions
<1> QED BY <1>1, <1>2, VerdictType DEF Verdict, Accurate

LEMMA UidNatural ==
  ASSUME NEW d \in Definitions
  PROVE  d.uid \in Nat
<1>1. d.uid \in 0..MaxEdits
  BY DEF Definitions
<1> QED BY <1>1, BoundAssumption DEF BoundAssumption

(* Users make the clock of edits advance *)
LEMMA UserActsAdvances ==
  ASSUME UserActs, edits \in Nat
  PROVE  edits' = edits + 1 /\ edits <= edits'
BY DEF UserActs

(* What a step does to one definition *)
NewDef(g) == def'[g].uid = edits + 1 /\ edits' = edits + 1

SameDef(g) ==
  /\ def[g] # None /\ def'[g].uid = def[g].uid
  /\ def'[g].ready = def[g].ready /\ def'[g].message = def[g].message

JudgedDef(g) ==
  /\ g \in defQueue /\ defCache[g] # None /\ def[g] = defCache[g]
  /\ def'[g] = Verdict(defCache[g])
  /\ defCache' = defCache

LEMMA DefObjectStep ==
  ASSUME DefTypeOK, DefOrOther, NEW g \in Games, def'[g] # None
  PROVE  /\ edits <= edits'
         /\ NewDef(g) \/ SameDef(g) \/ JudgedDef(g)
<1> USE DEF DefTypeOK
<1>n. edits \in Nat
  BY BoundAssumption DEF BoundAssumption
<1>0. ASSUME def' = def, edits <= edits'
      PROVE  edits <= edits' /\ SameDef(g)
  BY <1>0 DEF SameDef
<1>1. ASSUME NEW h \in Games, CreateDef(h)
      PROVE  edits <= edits' /\ (NewDef(g) \/ SameDef(g))
  <2>1. PICK d \in Defs :
          def' = [def EXCEPT ![h] = [uid |-> edits', spec |-> d,
                                     ready |-> FALSE, message |-> ""]]
    BY <1>1 DEF CreateDef
  <2>2. edits' = edits + 1 /\ edits <= edits'
    <3>1. UserActs
      BY <1>1 DEF CreateDef
    <3> QED BY <1>n, <3>1, UserActsAdvances
  <2>3. CASE g = h
    BY <2>1, <2>2, <2>3 DEF NewDef
  <2>4. CASE g # h
    BY <2>1, <2>2, <2>4 DEF SameDef
  <2> QED BY <2>3, <2>4
<1>2. ASSUME NEW h \in Games, EditDef(h)
      PROVE  edits <= edits' /\ SameDef(g)
  <2>1. PICK d \in Defs : def' = [def EXCEPT ![h].spec = d]
    BY <1>2 DEF EditDef
  <2>2. def[h] \in Definitions
    BY <1>2 DEF EditDef
  <2>3. def[h] # None /\ edits <= edits'
    BY <1>2 DEF EditDef, UserActs
  <2>4. CASE g = h
    <3>1. def'[g] = [def[g] EXCEPT !.spec = d]
      BY <2>1, <2>4
    <3> QED BY <2>2, <2>3, <2>4, <3>1 DEF SameDef, Definitions
  <2>5. CASE g # h
    BY <2>1, <2>3, <2>5 DEF SameDef
  <2> QED BY <2>4, <2>5
<1>3. ASSUME NEW h \in Games, DeleteDef(h)
      PROVE  edits <= edits' /\ SameDef(g)
  BY <1>3 DEF DeleteDef, UserActs, SameDef
<1>4. ASSUME NEW h \in Games,
             ReconcileInvalidDef(h) \/ ReconcileValidDef(h) \/ DefAnswerLost(h)
      PROVE  edits <= edits' /\ (SameDef(g) \/ JudgedDef(g))
  <2>1. /\ h \in defQueue /\ defCache[h] # None /\ defCache' = defCache
        /\ edits' = edits
        /\ \/ def' = def
           \/ def[h] = defCache[h] /\ def' = [def EXCEPT ![h] = Verdict(defCache[h])]
    BY <1>4 DEF ReconcileInvalidDef, ReconcileValidDef, DefAnswerLost, WriteDefStatus,
                Verdict
  <2> QED BY <1>0, <2>1 DEF SameDef, JudgedDef
<1>5. ASSUME NEW h \in Games, SyncDef(h) \/ ReconcileDefGone(h)
      PROVE  def' = def /\ edits <= edits'
  BY <1>5 DEF SyncDef, ReconcileDefGone
<1>6. CASE DefCrash \/ UNCHANGED defVars
  BY <1>0, <1>6 DEF DefCrash, defVars
<1>7. CASE UNCHANGED <<def, defCache, defQueue>> /\ edits <= edits'
  BY <1>0, <1>7
<1> QED BY <1>0, <1>1, <1>2, <1>3, <1>4, <1>5, <1>6, <1>7
        DEF DefOrOther, DefNext, DefUserNext, DefSystemNext, ReconcileDef

(* The cache is renewed with a request, and a request leaves the queue     *)
(* only when the cache shows the right status or is due to be replaced.    *)
LEMMA DefCacheStep ==
  ASSUME DefTypeOK, DefOrOther, NEW g \in Games
  PROVE  \/ /\ defCache'[g] = defCache[g]
            /\ g \in defQueue /\ g \notin defQueue' =>
                 \/ defCache[g] = None
                 \/ def' = def /\ Accurate(defCache[g])
                 \/ def'[g] = Verdict(defCache[g])
         \/ defCache'[g] = def[g] /\ def' = def /\ (def[g] # None => g \in defQueue')
<1> USE DEF DefTypeOK
<1>1. ASSUME NEW h \in Games, CreateDef(h) \/ EditDef(h) \/ DeleteDef(h)
      PROVE  defCache' = defCache /\ defQueue' = defQueue
  BY <1>1 DEF CreateDef, EditDef, DeleteDef
<1>2. ASSUME NEW h \in Games, SyncDef(h)
      PROVE  \/ defCache'[g] = defCache[g] /\ (g \in defQueue => g \in defQueue')
             \/ defCache'[g] = def[g] /\ def' = def /\ g \in defQueue'
  BY <1>2 DEF SyncDef
<1>3. ASSUME NEW h \in Games, ReconcileDefGone(h)
      PROVE  /\ defCache' = defCache
             /\ g \in defQueue /\ g \notin defQueue' => defCache[g] = None
  BY <1>3 DEF ReconcileDefGone, Dequeue
<1>4. ASSUME NEW h \in Games, ReconcileInvalidDef(h) \/ ReconcileValidDef(h)
      PROVE  /\ defCache' = defCache
             /\ g \in defQueue /\ g \notin defQueue' =>
                  \/ def' = def /\ Accurate(defCache[g])
                  \/ def'[g] = Verdict(defCache[g])
  <2>1. defCache[h] \in Definitions
    BY <1>4 DEF ReconcileInvalidDef, ReconcileValidDef
  <2>2. /\ defCache' = defCache
        /\ \/ defQueue' = defQueue
           \/ /\ defQueue' = defQueue \ {h}
              /\ \/ def' = def /\ defCache[h] = Verdict(defCache[h])
                 \/ def' = [def EXCEPT ![h] = Verdict(defCache[h])]
    BY <1>4 DEF ReconcileInvalidDef, ReconcileValidDef, WriteDefStatus, Verdict
  <2> QED BY <2>1, <2>2, VerdictAccurate
<1>5. ASSUME NEW h \in Games, DefAnswerLost(h)
      PROVE  defCache' = defCache /\ defQueue' = defQueue
  BY <1>5 DEF DefAnswerLost
<1>6. CASE DefCrash
  BY <1>6 DEF DefCrash, ExistingDefs
<1>7. CASE UNCHANGED defVars \/ UNCHANGED <<def, defCache, defQueue>>
  BY <1>7 DEF defVars
<1> QED BY <1>1, <1>2, <1>3, <1>4, <1>5, <1>6, <1>7
        DEF DefOrOther, DefNext, DefUserNext, DefSystemNext, ReconcileDef

LEMMA DefSettledInit == DefInit => DefSettledInv
<1> SUFFICES ASSUME DefInit PROVE DefSettledInv
  OBVIOUS
<1>1. DefTypeOK
  BY DefTypeInit
<1>2. \A g \in Games : def[g] # None => def[g].uid = 0
  BY DEF DefInit
<1>3. DefUidsUsed
  BY <1>2 DEF DefInit, DefUidsUsed
<1>4. \A g \in Games : DefRemembered(g)
  BY DEF DefInit, DefRemembered, ExistingDefs
<1> QED BY <1>1, <1>3, <1>4 DEF DefSettledInv

LEMMA DefSettledStep ==
  ASSUME DefSettledInv, DefTypeOK', DefOrOther
  PROVE  DefSettledInv'
<1>0. DefTypeOK /\ edits \in Nat /\ edits' \in Nat
  BY BoundAssumption DEF DefSettledInv, DefTypeOK, BoundAssumption
<1>1. \A g \in Games : /\ def[g] # None => def[g] \in Definitions
                       /\ defCache[g] # None => defCache[g] \in Definitions
  BY <1>0 DEF DefTypeOK
<1>2. \A g \in Games :
        /\ def[g] # None => def[g].uid \in Nat /\ def[g].uid <= edits
        /\ defCache[g] # None => defCache[g].uid \in Nat /\ defCache[g].uid <= edits
  <2>1. \A g \in Games : /\ def[g] # None => def[g].uid \in Nat
                         /\ defCache[g] # None => defCache[g].uid \in Nat
    BY <1>1, UidNatural
  <2>2. DefUidsUsed
    BY DEF DefSettledInv
  <2> QED BY <2>1, <2>2 DEF DefUidsUsed
<1>3. edits <= edits'
  <2>1. CASE DefUserNext
    <3>1. UserActs
      BY <2>1 DEF DefUserNext, CreateDef, EditDef, DeleteDef
    <3> QED BY <1>0, <3>1, UserActsAdvances
  <2>2. CASE DefSystemNext \/ DefCrash \/ UNCHANGED defVars
    <3>1. edits' = edits
      BY <2>2 DEF DefSystemNext, SyncDef, ReconcileDef, ReconcileDefGone,
                  ReconcileInvalidDef, ReconcileValidDef, DefAnswerLost, DefCrash,
                  defVars
    <3> QED BY <1>0, <3>1
  <2> QED BY <2>1, <2>2 DEF DefOrOther, DefNext
<1>4. DefUidsUsed'
  <2>1. ASSUME NEW g \in Games, def'[g] # None
        PROVE  def'[g].uid <= edits'
    <3>1. CASE NewDef(g)
      BY <1>0, <3>1 DEF NewDef
    <3>2. CASE SameDef(g)
      <4>1. def[g].uid \in Nat /\ def[g].uid <= edits /\ def'[g].uid = def[g].uid
        BY <1>2, <3>2 DEF SameDef
      <4> QED BY <1>0, <1>3, <4>1
    <3>3. CASE JudgedDef(g)
      <4>1. /\ defCache[g].uid \in Nat /\ defCache[g].uid <= edits
            /\ def'[g].uid = defCache[g].uid
        BY <1>1, <1>2, <3>3, VerdictAccurate DEF JudgedDef
      <4> QED BY <1>0, <1>3, <4>1
    <3> QED BY <1>0, <2>1, <3>1, <3>2, <3>3, DefObjectStep
  <2>2. ASSUME NEW g \in Games, defCache'[g] # None
        PROVE  defCache'[g].uid <= edits'
    <3>1. defCache'[g] = defCache[g] \/ defCache'[g] = def[g]
      BY <1>0, DefCacheStep
    <3>2. defCache'[g].uid \in Nat /\ defCache'[g].uid <= edits
      BY <1>2, <2>2, <3>1
    <3> QED BY <1>0, <1>3, <3>2
  <2> QED BY <2>1, <2>2 DEF DefUidsUsed
<1>5. ASSUME NEW g \in Games
      PROVE  DefRemembered(g)'
  <2> SUFFICES ASSUME g \notin defQueue', defCache'[g] # None, def'[g] # None
               PROVE  \/ def'[g].uid # defCache'[g].uid
                      \/ def'[g].ready # defCache'[g].ready
                      \/ def'[g].message # defCache'[g].message
                      \/ Accurate(defCache'[g])
    BY DEF DefRemembered, DefOutdated
  <2>1. /\ defCache'[g] = defCache[g]
        /\ g \in defQueue =>
             \/ def' = def /\ Accurate(defCache[g])
             \/ def'[g] = Verdict(defCache[g])
    BY <1>0, DefCacheStep
  <2>2. CASE g \in defQueue
    <3>1. CASE def'[g] = Verdict(defCache[g])
      <4>1. Accurate(Verdict(defCache[g])) /\ Verdict(defCache[g]).spec = defCache[g].spec
        BY <1>1, <2>1, VerdictAccurate
      <4> QED BY <2>1, <3>1, <4>1 DEF Accurate
    <3> QED BY <2>1, <2>2, <3>1
  <2>3. CASE g \notin defQueue
    <3>1. DefOutdated(g) \/ Accurate(defCache[g])
      BY <2>1, <2>3 DEF DefSettledInv, DefRemembered
    <3>2. NewDef(g) \/ SameDef(g)
      BY <1>0, <2>3, DefObjectStep DEF JudgedDef
    <3>3. defCache[g].uid \in Nat /\ defCache[g].uid <= edits
      BY <1>2, <2>1
    <3> QED BY <1>0, <2>1, <3>1, <3>2, <3>3 DEF NewDef, SameDef, DefOutdated
  <2> QED BY <2>2, <2>3
<1> QED BY <1>4, <1>5 DEF DefSettledInv

LEMMA DefSettledImplies == DefSettledInv => DefSettledAccurate
BY DEF DefSettledInv, DefRemembered, DefOutdated, DefSettled, DefSettledAccurate

(* The inductive invariant: of a definition without a request the cache    *)
(* shows the verdict on its own spec, or is about to be replaced, whatever *)
(* conflicts, answers or processes are lost.                               *)
THEOREM DefSettledInvCorrect == DefSpec => []DefSettledInv
<1>1. DefSettledInv /\ [DefNext]_defVars => DefSettledInv'
  BY DefTypeStep, DefSettledStep DEF DefSettledInv, DefOrOther
<1> QED BY DefSettledInit, <1>1, PTL DEF DefSpec

(* A definition for which nothing is queued or undelivered has the status  *)
(* that its stored spec deserves, whatever conflicts, lost answers and     *)
(* restarts came before.                                                   *)
THEOREM DefSettledAccurateCorrect == DefSpec => []DefSettledAccurate
<1> QED BY DefSettledInvCorrect, DefSettledImplies, PTL
=============================================================================
