-------------------------- MODULE ConfigFileProofs --------------------------
(***************************************************************************)
(* Proofs about ConfigFile, for any number of versions: types, and the     *)
(* last configuration saved being kept whole.                              *)
(***************************************************************************)
EXTENDS ConfigFile, TLAPS

\* A save replaces the file by what it has dumped and synchronised.
SaveInOrder ==
    /\ gui \in {"sync", "replace"} => tmp = config
    /\ gui = "replace" => synced

\* No save cut short is, or can become, config.json.
NeverTruncated == file # Partial /\ Partial \notin disk

\* What was saved is put aside only when nothing takes its place.
KeptInPlace == saved # None => saved = file \/ (file = None /\ saved = bad)

ConfigInv == TypeOK /\ SaveInOrder /\ NeverTruncated /\ KeptInPlace

\* Where nothing was saved yet there is nothing to keep.
LEMMA ConfigInit == Init => ConfigInv
<1> SUFFICES ASSUME Init PROVE ConfigInv
  OBVIOUS
<1>1. 0 \in Versions /\ 1 \in 1 .. VersionsMax + 1
  BY ConfigFileAssumption DEF Versions
<1>2. TypeOK
  BY <1>1 DEF Init, TypeOK, GuiStates, DaemonStates, Contents
<1>3. SaveInOrder /\ NeverTruncated /\ KeptInPlace
  BY ConfigFileAssumption DEF Init, SaveInOrder, NeverTruncated, KeptInPlace
<1> QED
  BY <1>2, <1>3 DEF ConfigInv

\* Every step keeps the types.
LEMMA ConfigTypes == ConfigInv /\ [Next]_vars => TypeOK'
<1> SUFFICES ASSUME ConfigInv, [Next]_vars PROVE TypeOK'
  OBVIOUS
<1> USE ConfigFileAssumption
    DEF ConfigInv, TypeOK, GuiStates, DaemonStates, Versions, Contents
<1>1. CASE GuiLoads
  BY <1>1 DEF GuiLoads, Loaded
<1>2. CASE DaemonLoads \/ PutAside
  BY <1>2 DEF DaemonLoads, PutAside
<1>3. CASE Open
  <2>1. config' \in Versions /\ fresh' \in 1 .. VersionsMax + 1
    BY <1>3 DEF Open
  <2> QED
    BY <1>3, <2>1 DEF Open
<1>8. CASE Dump
  BY <1>8 DEF Dump
<1>4. CASE Sync \/ Replace
  BY <1>4 DEF Sync, Synced, Replace
<1>5. CASE WriteBack \/ GuiCloses \/ DaemonStops
  BY <1>5 DEF WriteBack, GuiCloses, DaemonStops
<1>6. CASE PowerFails \/ Spoiled
  BY <1>6 DEF PowerFails, Spoiled
<1>7. CASE UNCHANGED vars
  BY <1>7 DEF vars
<1> QED
  BY <1>1, <1>2, <1>3, <1>4, <1>5, <1>6, <1>7, <1>8 DEF Next

\* Every step keeps the order of the save, and the file from a torn one.
LEMMA ConfigWhole == ConfigInv /\ [Next]_vars => (SaveInOrder /\ NeverTruncated)'
<1> SUFFICES ASSUME ConfigInv, [Next]_vars PROVE (SaveInOrder /\ NeverTruncated)'
  OBVIOUS
<1> USE ConfigFileAssumption DEF ConfigInv, TypeOK, SaveInOrder, NeverTruncated, Versions
<1>1. CASE GuiLoads \/ DaemonLoads \/ PutAside
  BY <1>1 DEF GuiLoads, DaemonLoads, PutAside
<1>2. CASE Open \/ Dump \/ Sync
  BY <1>2 DEF Open, Dump, Sync, Synced
<1>3. CASE Replace
  BY <1>3 DEF Replace
<1>4. CASE WriteBack \/ GuiCloses \/ DaemonStops
  BY <1>4 DEF WriteBack, GuiCloses, DaemonStops
<1>5. CASE PowerFails \/ Spoiled
  BY <1>5 DEF PowerFails, Spoiled
<1>6. CASE UNCHANGED vars
  BY <1>6 DEF vars
<1> QED
  BY <1>1, <1>2, <1>3, <1>4, <1>5, <1>6 DEF Next

\* Every step keeps what was saved, the moves of a late reader included.
LEMMA ConfigKept == ConfigInv /\ [Next]_vars => KeptInPlace'
<1> SUFFICES ASSUME ConfigInv, [Next]_vars PROVE KeptInPlace'
  OBVIOUS
<1> USE ConfigFileAssumption DEF ConfigInv, KeptInPlace
<1>1. CASE GuiLoads \/ DaemonLoads \/ Open \/ Dump \/ Sync
  BY <1>1 DEF GuiLoads, DaemonLoads, Open, Dump, Sync
<1>2. CASE PutAside
  BY <1>2 DEF PutAside
<1>3. CASE Replace
  BY <1>3 DEF Replace, SaveInOrder
<1>4. CASE WriteBack \/ GuiCloses \/ DaemonStops
  BY <1>4 DEF WriteBack, GuiCloses, DaemonStops
<1>5. CASE PowerFails \/ Spoiled
  BY <1>5 DEF PowerFails, Spoiled, NeverTruncated
<1>6. CASE UNCHANGED vars
  BY <1>6 DEF vars
<1> QED
  BY <1>1, <1>2, <1>3, <1>4, <1>5, <1>6 DEF Next

\* The strengthened invariant holds throughout.
LEMMA ConfigInductive == Spec => []ConfigInv
<1>1. ConfigInv /\ [Next]_vars => ConfigInv'
  BY ConfigTypes, ConfigWhole, ConfigKept DEF ConfigInv
<1> QED
  BY <1>1, ConfigInit, PTL DEF Spec

\* Every reachable state is well typed.
THEOREM ConfigTypeCorrect == Spec => []TypeOK
<1>1. ConfigInv => TypeOK
  BY DEF ConfigInv
<1> QED
  BY <1>1, ConfigInductive, PTL

\* The last configuration saved survives, whole, every death between two steps of a
\* save and every race of a reader that puts the file aside (app.py:92).
THEOREM SavedIsKept == Spec => []KeptSafe
<1>1. ConfigInv => KeptSafe
  BY DEF ConfigInv, KeptInPlace, KeptSafe
<1> QED
  BY <1>1, ConfigInductive, PTL
=============================================================================
