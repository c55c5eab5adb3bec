-------------------------- MODULE CoreControl_proofs --------------------------
(***************************************************************************)
(* Proofs about CoreControl, for any number of cores and calls, under two  *)
(* assumptions: the counter of the host does not wrap (MaxCalls < BusyMax) *)
(* and no core is looked at before it has started (BootBeforeWatch).       *)
(*                                                                         *)
(* IndInv says what the words of each mailbox hold at each place of a      *)
(* call.  One lemma per action shows that the action preserves it; the     *)
(* safety properties follow from it without another induction.             *)
(***************************************************************************)
EXTENDS CoreControl, TLAPS, FiniteSetTheorems

\* The set of watched cores is finite, and changes by one core at a time.
Watched == {c \in CoreIds : active[c]}

(* Cardinality is a number, since there are finitely many cores.           *)
LEMMA WatchedFinite == IsFiniteSet(Watched) /\ Cardinality(Watched) \in Nat
<1>1. IsFiniteSet(CoreIds)
  BY TotalAssumption, FS_Interval DEF CoreIds
<1>2. IsFiniteSet(Watched)
  BY <1>1, FS_Subset DEF Watched
<1> QED BY <1>2, FS_CardinalityType

(* A core that starts finds its mailbox idle and marks itself busy.         *)
LEMMA BootInd ==
  ASSUME IndInv, NEW c \in CoreIds, Boot(c), MaxCalls < BusyMax, BootBeforeWatch
  PROVE  IndInv'
<1> USE DEF Boot, Goto, hostVars, shared
<1>0. TypeOK /\ CountInv /\ \A d \in CoreIds : CoreInv(d)
  BY DEF IndInv
<1>1. TypeOK'
  BY <1>0, BusyAssumption DEF TypeOK
<1>2. CountInv'
  BY <1>0 DEF CountInv
<1>3. ASSUME NEW d \in CoreIds
      PROVE  CoreInv(d)'
  <2>0. CoreInv(d)
    BY <1>0
  <2>1. CallInv(d)'
    BY <1>0, <2>0 DEF TypeOK, CoreInv, CallInv, BusyInv, WatchInv, InCall, Replied,
      Answering
  <2>2. BusyInv(d)'
    BY <1>0, <2>0 DEF TypeOK, CoreInv, CallInv, BusyInv, WatchInv, InCall, Replied,
      Answering
  <2>3. CommandInv(d)'
    BY <1>0, <2>0 DEF TypeOK, CoreInv, CallInv, BusyInv, CommandInv, WatchInv,
      InCall, Replied, Answering
  <2>4. DataInv(d)'
    BY <1>0, <2>0 DEF TypeOK, CoreInv, CallInv, BusyInv, DataInv, WatchInv, InCall,
      Replied, Answering, Asked, Answer, Message, CommandInv
  <2>5. WatchInv(d)'
    BY <1>0, <2>0 DEF TypeOK, CoreInv, WatchInv, CallInv, BusyInv, Replied
  <2> QED BY <2>1, <2>2, <2>3, <2>4, <2>5 DEF CoreInv
<1> QED BY <1>1, <1>2, <1>3 DEF IndInv

(* The core writes its request while the host keeps off the mailbox.        *)
LEMMA FillInd ==
  ASSUME IndInv, NEW c \in CoreIds, Fill(c), MaxCalls < BusyMax, BootBeforeWatch
  PROVE  IndInv'
<1> USE DEF Fill, Goto, hostVars, shared
<1>0. TypeOK /\ CountInv /\ \A d \in CoreIds : CoreInv(d)
  BY DEF IndInv
<1>1. TypeOK'
  BY <1>0, BusyAssumption DEF TypeOK, Message, Asked
<1>2. CountInv'
  BY <1>0 DEF CountInv
<1>3. ASSUME NEW d \in CoreIds
      PROVE  CoreInv(d)'
  <2>0. CoreInv(d)
    BY <1>0
  <2>1. CallInv(d)'
    BY <1>0, <2>0 DEF TypeOK, CoreInv, CallInv, BusyInv, WatchInv, InCall, Replied,
      Answering
  <2>2. BusyInv(d)'
    BY <1>0, <2>0 DEF TypeOK, CoreInv, CallInv, BusyInv, WatchInv, InCall, Replied,
      Answering
  <2>3. CommandInv(d)'
    BY <1>0, <2>0 DEF TypeOK, CoreInv, CallInv, BusyInv, CommandInv, WatchInv,
      InCall, Replied, Answering
  <2>4. DataInv(d)'
    BY <1>0, <2>0 DEF TypeOK, CoreInv, CallInv, BusyInv, DataInv, WatchInv, InCall,
      Replied, Answering, Asked, Answer, Message, CommandInv
  <2>5. WatchInv(d)'
    BY <1>0, <2>0 DEF TypeOK, CoreInv, WatchInv, CallInv, BusyInv, Replied
  <2> QED BY <2>1, <2>2, <2>3, <2>4, <2>5 DEF CoreInv
<1> QED BY <1>1, <1>2, <1>3 DEF IndInv

(* So it does when it stores the command.                                   *)
LEMMA CommandInd ==
  ASSUME IndInv, NEW c \in CoreIds, Command(c), MaxCalls < BusyMax, BootBeforeWatch
  PROVE  IndInv'
<1> USE DEF Command, Goto, hostVars, shared
<1>0. TypeOK /\ CountInv /\ \A d \in CoreIds : CoreInv(d)
  BY DEF IndInv
<1>1. TypeOK'
  BY <1>0, BusyAssumption DEF TypeOK
<1>2. CountInv'
  BY <1>0 DEF CountInv
<1>3. ASSUME NEW d \in CoreIds
      PROVE  CoreInv(d)'
  <2>0. CoreInv(d)
    BY <1>0
  <2>1. CallInv(d)'
    BY <1>0, <2>0 DEF TypeOK, CoreInv, CallInv, BusyInv, WatchInv, InCall, Replied,
      Answering
  <2>2. BusyInv(d)'
    BY <1>0, <2>0 DEF TypeOK, CoreInv, CallInv, BusyInv, WatchInv, InCall, Replied,
      Answering
  <2>3. CommandInv(d)'
    BY <1>0, <2>0 DEF TypeOK, CoreInv, CallInv, BusyInv, CommandInv, WatchInv,
      InCall, Replied, Answering
  <2>4. DataInv(d)'
    BY <1>0, <2>0 DEF TypeOK, CoreInv, CallInv, BusyInv, DataInv, WatchInv, InCall,
      Replied, Answering, Asked, Answer, Message, CommandInv
  <2>5. WatchInv(d)'
    BY <1>0, <2>0 DEF TypeOK, CoreInv, WatchInv, CallInv, BusyInv, Replied
  <2> QED BY <2>1, <2>2, <2>3, <2>4, <2>5 DEF CoreInv
<1> QED BY <1>1, <1>2, <1>3 DEF IndInv

(* The copy of core_busy is the number of calls given back, plus one.       *)
LEMMA RememberInd ==
  ASSUME IndInv, NEW c \in CoreIds, Remember(c), MaxCalls < BusyMax, BootBeforeWatch
  PROVE  IndInv'
<1> USE DEF Remember, Goto, hostVars, shared
<1>0. TypeOK /\ CountInv /\ \A d \in CoreIds : CoreInv(d)
  BY DEF IndInv
<1>1. TypeOK'
  BY <1>0, BusyAssumption DEF TypeOK
<1>2. CountInv'
  BY <1>0 DEF CountInv
<1>3. ASSUME NEW d \in CoreIds
      PROVE  CoreInv(d)'
  <2>0. CoreInv(d)
    BY <1>0
  <2>1. CallInv(d)'
    BY <1>0, <2>0 DEF TypeOK, CoreInv, CallInv, BusyInv, WatchInv, InCall, Replied,
      Answering
  <2>2. BusyInv(d)'
    BY <1>0, <2>0 DEF TypeOK, CoreInv, CallInv, BusyInv, WatchInv, InCall, Replied,
      Answering
  <2>3. CommandInv(d)'
    BY <1>0, <2>0 DEF TypeOK, CoreInv, CallInv, BusyInv, CommandInv, WatchInv,
      InCall, Replied, Answering
  <2>4. DataInv(d)'
    BY <1>0, <2>0 DEF TypeOK, CoreInv, CallInv, BusyInv, DataInv, WatchInv, InCall,
      Replied, Answering, Asked, Answer, Message, CommandInv
  <2>5. WatchInv(d)'
    BY <1>0, <2>0 DEF TypeOK, CoreInv, WatchInv, CallInv, BusyInv, Replied
  <2> QED BY <2>1, <2>2, <2>3, <2>4, <2>5 DEF CoreInv
<1> QED BY <1>1, <1>2, <1>3 DEF IndInv

(* From here on the host may act: the request and the command are in place. *)
LEMMA ReleaseInd ==
  ASSUME IndInv, NEW c \in CoreIds, Release(c), MaxCalls < BusyMax, BootBeforeWatch
  PROVE  IndInv'
<1> USE DEF Release, Goto, hostVars, shared
<1>0. TypeOK /\ CountInv /\ \A d \in CoreIds : CoreInv(d)
  BY DEF IndInv
<1>1. TypeOK'
  BY <1>0, BusyAssumption DEF TypeOK
<1>2. CountInv'
  BY <1>0 DEF CountInv
<1>3. ASSUME NEW d \in CoreIds
      PROVE  CoreInv(d)'
  <2>0. CoreInv(d)
    BY <1>0
  <2>1. CallInv(d)'
    BY <1>0, <2>0 DEF TypeOK, CoreInv, CallInv, BusyInv, WatchInv, InCall, Replied,
      Answering
  <2>2. BusyInv(d)'
    BY <1>0, <2>0 DEF TypeOK, CoreInv, CallInv, BusyInv, WatchInv, InCall, Replied,
      Answering
  <2>3. CommandInv(d)'
    BY <1>0, <2>0 DEF TypeOK, CoreInv, CallInv, BusyInv, CommandInv, WatchInv,
      InCall, Replied, Answering
  <2>4. DataInv(d)'
    BY <1>0, <2>0 DEF TypeOK, CoreInv, CallInv, BusyInv, DataInv, WatchInv, InCall,
      Replied, Answering, Asked, Answer, Message, CommandInv
  <2>5. WatchInv(d)'
    BY <1>0, <2>0 DEF TypeOK, CoreInv, WatchInv, CallInv, BusyInv, Replied
  <2> QED BY <2>1, <2>2, <2>3, <2>4, <2>5 DEF CoreInv
<1> QED BY <1>1, <1>2, <1>3 DEF IndInv

(* The spin ends only on the value the host gave for this very call.        *)
LEMMA ReturnInd ==
  ASSUME IndInv, NEW c \in CoreIds, Return(c), MaxCalls < BusyMax, BootBeforeWatch
  PROVE  IndInv'
<1> USE DEF Return, SpinEnds, Goto, hostVars, shared
<1>0. TypeOK /\ CountInv /\ \A d \in CoreIds : CoreInv(d)
  BY DEF IndInv
<1>1. TypeOK'
  BY <1>0, BusyAssumption DEF TypeOK
<1>2. CountInv'
  BY <1>0 DEF CountInv
<1>3. ASSUME NEW d \in CoreIds
      PROVE  CoreInv(d)'
  <2>0. CoreInv(d)
    BY <1>0
  <2>1. CallInv(d)'
    BY <1>0, <2>0 DEF TypeOK, CoreInv, CallInv, BusyInv, WatchInv, InCall, Replied,
      Answering
  <2>2. BusyInv(d)'
    BY <1>0, <2>0 DEF TypeOK, CoreInv, CallInv, BusyInv, WatchInv, InCall, Replied,
      Answering
  <2>3. CommandInv(d)'
    BY <1>0, <2>0 DEF TypeOK, CoreInv, CallInv, BusyInv, CommandInv, WatchInv,
      InCall, Replied, Answering
  <2>4. DataInv(d)'
    BY <1>0, <2>0 DEF TypeOK, CoreInv, CallInv, BusyInv, DataInv, WatchInv, InCall,
      Replied, Answering, Asked, Answer, Message, CommandInv
  <2>5. WatchInv(d)'
    BY <1>0, <2>0 DEF TypeOK, CoreInv, WatchInv, CallInv, BusyInv, Replied
  <2> QED BY <2>1, <2>2, <2>3, <2>4, <2>5 DEF CoreInv
<1> QED BY <1>1, <1>2, <1>3 DEF IndInv

(* A core ends between two calls, with no command in its mailbox.           *)
LEMMA EndInd ==
  ASSUME IndInv, NEW c \in CoreIds, End(c), MaxCalls < BusyMax, BootBeforeWatch
  PROVE  IndInv'
<1> USE DEF End, Goto, hostVars, shared
<1>0. TypeOK /\ CountInv /\ \A d \in CoreIds : CoreInv(d)
  BY DEF IndInv
<1>1. TypeOK'
  BY <1>0, BusyAssumption DEF TypeOK
<1>2. CountInv'
  BY <1>0 DEF CountInv
<1>3. ASSUME NEW d \in CoreIds
      PROVE  CoreInv(d)'
  <2>0. CoreInv(d)
    BY <1>0
  <2>1. CallInv(d)'
    BY <1>0, <2>0 DEF TypeOK, CoreInv, CallInv, BusyInv, WatchInv, InCall, Replied,
      Answering
  <2>2. BusyInv(d)'
    BY <1>0, <2>0 DEF TypeOK, CoreInv, CallInv, BusyInv, WatchInv, InCall, Replied,
      Answering
  <2>3. CommandInv(d)'
    BY <1>0, <2>0 DEF TypeOK, CoreInv, CallInv, BusyInv, CommandInv, WatchInv,
      InCall, Replied, Answering
  <2>4. DataInv(d)'
    BY <1>0, <2>0 DEF TypeOK, CoreInv, CallInv, BusyInv, DataInv, WatchInv, InCall,
      Replied, Answering, Asked, Answer, Message, CommandInv
  <2>5. WatchInv(d)'
    BY <1>0, <2>0 DEF TypeOK, CoreInv, WatchInv, CallInv, BusyInv, Replied
  <2> QED BY <2>1, <2>2, <2>3, <2>4, <2>5 DEF CoreInv
<1> QED BY <1>1, <1>2, <1>3 DEF IndInv

(* core_run falls after core_busy.                                          *)
LEMMA EndedInd ==
  ASSUME IndInv, NEW c \in CoreIds, Ended(c), MaxCalls < BusyMax, BootBeforeWatch
  PROVE  IndInv'
<1> USE DEF Ended, Goto, hostVars, shared
<1>0. TypeOK /\ CountInv /\ \A d \in CoreIds : CoreInv(d)
  BY DEF IndInv
<1>1. TypeOK'
  BY <1>0, BusyAssumption DEF TypeOK
<1>2. CountInv'
  BY <1>0 DEF CountInv
<1>3. ASSUME NEW d \in CoreIds
      PROVE  CoreInv(d)'
  <2>0. CoreInv(d)
    BY <1>0
  <2>1. CallInv(d)'
    BY <1>0, <2>0 DEF TypeOK, CoreInv, CallInv, BusyInv, WatchInv, InCall, Replied,
      Answering
  <2>2. BusyInv(d)'
    BY <1>0, <2>0 DEF TypeOK, CoreInv, CallInv, BusyInv, WatchInv, InCall, Replied,
      Answering
  <2>3. CommandInv(d)'
    BY <1>0, <2>0 DEF TypeOK, CoreInv, CallInv, BusyInv, CommandInv, WatchInv,
      InCall, Replied, Answering
  <2>4. DataInv(d)'
    BY <1>0, <2>0 DEF TypeOK, CoreInv, CallInv, BusyInv, DataInv, WatchInv, InCall,
      Replied, Answering, Asked, Answer, Message, CommandInv
  <2>5. WatchInv(d)'
    BY <1>0, <2>0 DEF TypeOK, CoreInv, WatchInv, CallInv, BusyInv, Replied
  <2> QED BY <2>1, <2>2, <2>3, <2>4, <2>5 DEF CoreInv
<1> QED BY <1>1, <1>2, <1>3 DEF IndInv

(* A call begins when every earlier one has returned.                       *)
LEMMA BeginInd ==
  ASSUME IndInv, NEW c \in CoreIds, NEW command \in Commands, Begin(c, command),
  MaxCalls < BusyMax, BootBeforeWatch
  PROVE  IndInv'
<1> USE DEF Begin, Goto, hostVars, shared
<1>0. TypeOK /\ CountInv /\ \A d \in CoreIds : CoreInv(d)
  BY DEF IndInv
<1>1. TypeOK'
  BY <1>0, BusyAssumption, CallsAssumption DEF TypeOK
<1>2. CountInv'
  BY <1>0 DEF CountInv
<1>3. ASSUME NEW d \in CoreIds
      PROVE  CoreInv(d)'
  <2>0. CoreInv(d)
    BY <1>0
  <2>1. CallInv(d)'
    BY <1>0, <2>0 DEF TypeOK, CoreInv, CallInv, BusyInv, WatchInv, InCall, Replied,
      Answering
  <2>2. BusyInv(d)'
    BY <1>0, <2>0 DEF TypeOK, CoreInv, CallInv, BusyInv, WatchInv, InCall, Replied,
      Answering
  <2>3. CommandInv(d)'
    BY <1>0, <2>0 DEF TypeOK, CoreInv, CallInv, BusyInv, CommandInv, WatchInv,
      InCall, Replied, Answering
  <2>4. DataInv(d)'
    BY <1>0, <2>0 DEF TypeOK, CoreInv, CallInv, BusyInv, DataInv, WatchInv, InCall,
      Replied, Answering, Asked, Answer, Message, CommandInv
  <2>5. WatchInv(d)'
    BY <1>0, <2>0 DEF TypeOK, CoreInv, WatchInv, CallInv, BusyInv, Replied
  <2> QED BY <2>1, <2>2, <2>3, <2>4, <2>5 DEF CoreInv
<1> QED BY <1>1, <1>2, <1>3 DEF IndInv

(* The host starts the cores in ascending order and counts them.            *)
LEMMA StartCoreInd ==
  ASSUME IndInv, StartCore, MaxCalls < BusyMax, BootBeforeWatch
  PROVE  IndInv'
<1> USE DEF StartCore, coreVars, shared, NextCore
<1>0. TypeOK /\ CountInv /\ \A d \in CoreIds : CoreInv(d)
  BY DEF IndInv
<1>s. scan \in CoreIds
  BY <1>0, TotalAssumption DEF TypeOK, CoreIds
<1>1. TypeOK'
  <2>1. scan' \in 0..TotalCores /\ hostPc' = "start"
    BY <1>0, <1>s, TotalAssumption DEF TypeOK
  <2>2. core_run' \in [CoreIds -> {0, 1}]
    BY <1>0, <1>s DEF TypeOK
  <2>3. active' \in [CoreIds -> BOOLEAN]
    BY <1>0, <1>s DEF TypeOK
  <2>4. totalActive' \in Int
    BY <1>0 DEF TypeOK
  <2> QED BY <1>0, <2>1, <2>2, <2>3, <2>4 DEF TypeOK
<1>2. CountInv'
  <2>1. ~active[scan]
    BY <1>0, <1>s DEF CoreInv, WatchInv, TypeOK
  <2>2. CASE scan \in Intent
    <3>1. Watched' = Watched \cup {scan}
      BY <1>0, <1>s, <2>2 DEF Watched, TypeOK
    <3>2. Cardinality(Watched') = Cardinality(Watched) + 1
      BY <2>1, <3>1, WatchedFinite, FS_AddElement DEF Watched
    <3> QED BY <1>0, <2>2, <3>2 DEF CountInv, Watched
  <2>3. CASE scan \notin Intent
    BY <1>0, <2>3 DEF CountInv
  <2> QED BY <2>2, <2>3
<1>3. ASSUME NEW d \in CoreIds
      PROVE  CoreInv(d)'
  <2>0. CoreInv(d)
    BY <1>0
  <2>1. CallInv(d)'
    BY <1>0, <1>s, <2>0 DEF TypeOK, CoreInv, CallInv, BusyInv, WatchInv, InCall,
      Replied, Answering
  <2>2. BusyInv(d)'
    BY <1>0, <1>s, <2>0 DEF TypeOK, CoreInv, CallInv, BusyInv, WatchInv, InCall,
      Replied, Answering
  <2>3. CommandInv(d)'
    BY <1>0, <1>s, <2>0 DEF TypeOK, CoreInv, CallInv, BusyInv, CommandInv, WatchInv,
      InCall, Replied, Answering
  <2>4. DataInv(d)'
    BY <1>0, <1>s, <2>0 DEF TypeOK, CoreInv, CallInv, BusyInv, DataInv, WatchInv,
      InCall, Replied, Answering, Asked, Answer, Message, CommandInv
  <2>5. WatchInv(d)'
    BY <1>0, <1>s, <2>0, <1>1 DEF TypeOK, CoreInv, WatchInv, CallInv, BusyInv, Replied
  <2> QED BY <2>1, <2>2, <2>3, <2>4, <2>5 DEF CoreInv
<1> QED BY <1>1, <1>2, <1>3 DEF IndInv

(* When the watch begins every core it watches has marked itself busy.      *)
LEMMA StartWatchInd ==
  ASSUME IndInv, StartWatch, MaxCalls < BusyMax, BootBeforeWatch
  PROVE  IndInv'
<1> USE DEF StartWatch, coreVars, shared, NextCore
<1>0. TypeOK /\ CountInv /\ \A d \in CoreIds : CoreInv(d)
  BY DEF IndInv
<1>c. \A d \in CoreIds : d < scan
  BY TotalAssumption DEF CoreIds
<1>1. TypeOK'
  BY <1>0, BusyAssumption DEF TypeOK
<1>2. CountInv'
  BY <1>0 DEF CountInv
<1>3. ASSUME NEW d \in CoreIds
      PROVE  CoreInv(d)'
  <2>0. CoreInv(d)
    BY <1>0
  <2>1. CallInv(d)'
    BY <1>0, <2>0 DEF TypeOK, CoreInv, CallInv, BusyInv, WatchInv, InCall, Replied,
      Answering
  <2>2. BusyInv(d)'
    BY <1>0, <2>0 DEF TypeOK, CoreInv, CallInv, BusyInv, WatchInv, InCall, Replied,
      Answering
  <2>3. CommandInv(d)'
    BY <1>0, <2>0 DEF TypeOK, CoreInv, CallInv, BusyInv, CommandInv, WatchInv,
      InCall, Replied, Answering
  <2>4. DataInv(d)'
    BY <1>0, <2>0 DEF TypeOK, CoreInv, CallInv, BusyInv, DataInv, WatchInv, InCall,
      Replied, Answering, Asked, Answer, Message, CommandInv
  <2>5. WatchInv(d)'
    BY <1>0, <2>0, <1>c DEF TypeOK, CoreInv, WatchInv, CallInv, BusyInv, Replied
  <2> QED BY <2>1, <2>2, <2>3, <2>4, <2>5 DEF CoreInv
<1> QED BY <1>1, <1>2, <1>3 DEF IndInv

(* The loop is left only when no core is watched any more.                  *)
LEMMA RoundInd ==
  ASSUME IndInv, Round, MaxCalls < BusyMax, BootBeforeWatch
  PROVE  IndInv'
<1> USE DEF Round, coreVars, shared, NextCore
<1>0. TypeOK /\ CountInv /\ \A d \in CoreIds : CoreInv(d)
  BY DEF IndInv
<1>1. TypeOK'
  BY <1>0, BusyAssumption, TotalAssumption DEF TypeOK
<1>2. CountInv'
  BY <1>0, WatchedFinite DEF CountInv, Watched
<1>3. ASSUME NEW d \in CoreIds
      PROVE  CoreInv(d)'
  <2>0. CoreInv(d)
    BY <1>0
  <2>1. CallInv(d)'
    BY <1>0, <2>0 DEF TypeOK, CoreInv, CallInv, BusyInv, WatchInv, InCall, Replied,
      Answering
  <2>2. BusyInv(d)'
    BY <1>0, <2>0 DEF TypeOK, CoreInv, CallInv, BusyInv, WatchInv, InCall, Replied,
      Answering
  <2>3. CommandInv(d)'
    BY <1>0, <2>0 DEF TypeOK, CoreInv, CallInv, BusyInv, CommandInv, WatchInv,
      InCall, Replied, Answering
  <2>4. DataInv(d)'
    BY <1>0, <2>0 DEF TypeOK, CoreInv, CallInv, BusyInv, DataInv, WatchInv, InCall,
      Replied, Answering, Asked, Answer, Message, CommandInv
  <2>5. WatchInv(d)'
    BY <1>0, <2>0 DEF TypeOK, CoreInv, WatchInv, CallInv, BusyInv, Replied
  <2> QED BY <2>1, <2>2, <2>3, <2>4, <2>5 DEF CoreInv
<1> QED BY <1>1, <1>2, <1>3 DEF IndInv

(* core_busy = 0 is seen only of a core that waits, ends or has ended.      *)
LEMMA LookInd ==
  ASSUME IndInv, Look, MaxCalls < BusyMax, BootBeforeWatch
  PROVE  IndInv'
<1> USE DEF Look, coreVars, shared, NextCore
<1>0. TypeOK /\ CountInv /\ \A d \in CoreIds : CoreInv(d)
  BY DEF IndInv
<1>s. scan \in CoreIds
  BY <1>0, TotalAssumption DEF TypeOK, CoreIds
<1>1. TypeOK'
  BY <1>0, <1>s, BusyAssumption, TotalAssumption DEF TypeOK
<1>2. CountInv'
  BY <1>0 DEF CountInv
<1>3. ASSUME NEW d \in CoreIds
      PROVE  CoreInv(d)'
  <2>0. CoreInv(d)
    BY <1>0
  <2>1. CallInv(d)'
    BY <1>0, <1>s, <2>0 DEF TypeOK, CoreInv, CallInv, BusyInv, WatchInv, InCall,
      Replied, Answering
  <2>2. BusyInv(d)'
    BY <1>0, <1>s, <2>0 DEF TypeOK, CoreInv, CallInv, BusyInv, WatchInv, InCall,
      Replied, Answering
  <2>3. CommandInv(d)'
    BY <1>0, <1>s, <2>0 DEF TypeOK, CoreInv, CallInv, BusyInv, CommandInv, WatchInv,
      InCall, Replied, Answering
  <2>4. DataInv(d)'
    BY <1>0, <1>s, <2>0 DEF TypeOK, CoreInv, CallInv, BusyInv, DataInv, WatchInv,
      InCall, Replied, Answering, Asked, Answer, Message, CommandInv
  <2>5. WatchInv(d)'
    BY <1>0, <1>s, <2>0 DEF TypeOK, CoreInv, WatchInv, CallInv, BusyInv, Replied
  <2> QED BY <2>1, <2>2, <2>3, <2>4, <2>5 DEF CoreInv
<1> QED BY <1>1, <1>2, <1>3 DEF IndInv

(* A core is dropped only when it has ended.                                *)
LEMMA DeactivateInd ==
  ASSUME IndInv, Deactivate, MaxCalls < BusyMax, BootBeforeWatch
  PROVE  IndInv'
<1> USE DEF Deactivate, coreVars, shared, NextCore
<1>0. TypeOK /\ CountInv /\ \A d \in CoreIds : CoreInv(d)
  BY DEF IndInv
<1>s. scan \in CoreIds
  BY <1>0, TotalAssumption DEF TypeOK, CoreIds
<1>1. TypeOK'
  BY <1>0, <1>s, BusyAssumption, TotalAssumption DEF TypeOK
<1>2. CountInv'
  <2>1. scan \in Watched /\ Watched' = Watched \ {scan}
    BY <1>0, <1>s DEF Watched, TypeOK, CoreInv, WatchInv
  <2>2. Cardinality(Watched') = Cardinality(Watched) - 1
    BY <2>1, WatchedFinite, FS_RemoveElement
  <2> QED BY <1>0, <2>2 DEF CountInv, Watched
<1>3. ASSUME NEW d \in CoreIds
      PROVE  CoreInv(d)'
  <2>0. CoreInv(d)
    BY <1>0
  <2>1. CallInv(d)'
    BY <1>0, <1>s, <2>0 DEF TypeOK, CoreInv, CallInv, BusyInv, WatchInv, InCall,
      Replied, Answering
  <2>2. BusyInv(d)'
    BY <1>0, <1>s, <2>0 DEF TypeOK, CoreInv, CallInv, BusyInv, WatchInv, InCall,
      Replied, Answering
  <2>3. CommandInv(d)'
    BY <1>0, <1>s, <2>0 DEF TypeOK, CoreInv, CallInv, BusyInv, CommandInv, WatchInv,
      InCall, Replied, Answering
  <2>4. DataInv(d)'
    BY <1>0, <1>s, <2>0 DEF TypeOK, CoreInv, CallInv, BusyInv, DataInv, WatchInv,
      InCall, Replied, Answering, Asked, Answer, Message, CommandInv
  <2>5a. d = scan => pc[d] = "ended"
    BY <1>0, <1>s DEF CoreInv, WatchInv
  <2>5b. d # scan => active'[d] = active[d]
    BY <1>0, <1>s DEF TypeOK
  <2>5c. active'[scan] = FALSE /\ hostPc' \in {"look", "round"}
    BY <1>0, <1>s DEF TypeOK
  <2>5. WatchInv(d)'
    BY <1>0, <1>s, <2>0, <2>5a, <2>5b, <2>5c DEF TypeOK, CoreInv, WatchInv, CallInv,
      BusyInv, Replied
  <2> QED BY <2>1, <2>2, <2>3, <2>4, <2>5 DEF CoreInv
<1> QED BY <1>1, <1>2, <1>3 DEF IndInv

(* Nothing changes when there is no command.                                *)
LEMMA NoCommandInd ==
  ASSUME IndInv, NoCommand, MaxCalls < BusyMax, BootBeforeWatch
  PROVE  IndInv'
<1> USE DEF NoCommand, coreVars, shared, NextCore
<1>0. TypeOK /\ CountInv /\ \A d \in CoreIds : CoreInv(d)
  BY DEF IndInv
<1>s. scan \in CoreIds
  BY <1>0, TotalAssumption DEF TypeOK, CoreIds
<1>1. TypeOK'
  BY <1>0, <1>s, BusyAssumption, TotalAssumption DEF TypeOK
<1>2. CountInv'
  BY <1>0 DEF CountInv
<1>3. ASSUME NEW d \in CoreIds
      PROVE  CoreInv(d)'
  <2>0. CoreInv(d)
    BY <1>0
  <2>1. CallInv(d)'
    BY <1>0, <1>s, <2>0 DEF TypeOK, CoreInv, CallInv, BusyInv, WatchInv, InCall,
      Replied, Answering
  <2>2. BusyInv(d)'
    BY <1>0, <1>s, <2>0 DEF TypeOK, CoreInv, CallInv, BusyInv, WatchInv, InCall,
      Replied, Answering
  <2>3. CommandInv(d)'
    BY <1>0, <1>s, <2>0 DEF TypeOK, CoreInv, CallInv, BusyInv, CommandInv, WatchInv,
      InCall, Replied, Answering
  <2>4. DataInv(d)'
    BY <1>0, <1>s, <2>0 DEF TypeOK, CoreInv, CallInv, BusyInv, DataInv, WatchInv,
      InCall, Replied, Answering, Asked, Answer, Message, CommandInv
  <2>5. WatchInv(d)'
    BY <1>0, <1>s, <2>0 DEF TypeOK, CoreInv, WatchInv, CallInv, BusyInv, Replied
  <2> QED BY <2>1, <2>2, <2>3, <2>4, <2>5 DEF CoreInv
<1> QED BY <1>1, <1>2, <1>3 DEF IndInv

(* The host executes the command of a core that waits for it, once.         *)
LEMMA ServeInd ==
  ASSUME IndInv, Serve, MaxCalls < BusyMax, BootBeforeWatch
  PROVE  IndInv'
<1> USE DEF Serve, coreVars, shared, NextCore
<1>0. TypeOK /\ CountInv /\ \A d \in CoreIds : CoreInv(d)
  BY DEF IndInv
<1>s. scan \in CoreIds
  BY <1>0, TotalAssumption DEF TypeOK, CoreIds
<1>1. TypeOK'
  BY <1>0, <1>s, BusyAssumption DEF TypeOK, Message, Answer, None
<1>2. CountInv'
  BY <1>0 DEF CountInv
<1>3. ASSUME NEW d \in CoreIds
      PROVE  CoreInv(d)'
  <2>0. CoreInv(d)
    BY <1>0
  <2>1. CallInv(d)'
    BY <1>0, <1>s, <2>0 DEF CommandInv, Commands, None, TypeOK, CoreInv, CallInv,
      BusyInv, WatchInv, InCall, Replied, Answering
  <2>2. BusyInv(d)'
    BY <1>0, <1>s, <2>0 DEF CommandInv, Commands, None, TypeOK, CoreInv, CallInv,
      BusyInv, WatchInv, InCall, Replied, Answering
  <2>3. CommandInv(d)'
    BY <1>0, <1>s, <2>0 DEF TypeOK, CoreInv, CallInv, BusyInv, CommandInv, WatchInv,
      InCall, Replied, Answering
  <2>4. DataInv(d)'
    BY <1>0, <1>s, <2>0 DEF TypeOK, CoreInv, CallInv, BusyInv, DataInv, WatchInv,
      InCall, Replied, Answering, Asked, Answer, Message, CommandInv
  <2>5. WatchInv(d)'
    BY <1>0, <1>s, <2>0 DEF TypeOK, CoreInv, WatchInv, CallInv, BusyInv, Replied
  <2> QED BY <2>1, <2>2, <2>3, <2>4, <2>5 DEF CoreInv
<1> QED BY <1>1, <1>2, <1>3 DEF IndInv

(* The new value of core_busy is larger than the one the core remembers.    *)
LEMMA GiveBackInd ==
  ASSUME IndInv, GiveBack, MaxCalls < BusyMax, BootBeforeWatch
  PROVE  IndInv'
<1> USE DEF GiveBack, coreVars, shared, NextCore
<1>0. TypeOK /\ CountInv /\ \A d \in CoreIds : CoreInv(d)
  BY DEF IndInv
<1>s. scan \in CoreIds
  BY <1>0, TotalAssumption DEF TypeOK, CoreIds
<1>p. pb'[scan] = pb[scan] + 1 /\ pb[scan] = returned[scan] + 1
  <2>1. /\ pb[scan] = returned[scan] + 1
        /\ pb[scan] \in 0..MaxCalls
    BY <1>0, <1>s, CallsAssumption
       DEF TypeOK, CoreInv, CallInv, BusyInv, Answering, Replied, InCall
  <2>2. (pb[scan] + 1) % (BusyMax + 1) = pb[scan] + 1
    BY <2>1, BusyAssumption, CallsAssumption
  <2> QED BY <1>0, <1>s, <2>1, <2>2 DEF TypeOK
<1>1. TypeOK'
  BY <1>0, <1>s, BusyAssumption, TotalAssumption DEF TypeOK
<1>2. CountInv'
  BY <1>0 DEF CountInv
<1>3. ASSUME NEW d \in CoreIds
      PROVE  CoreInv(d)'
  <2>0. CoreInv(d)
    BY <1>0
  <2>1. CallInv(d)'
    BY <1>0, <1>s, <2>0, <1>p, BusyAssumption DEF TypeOK, CoreInv, CallInv, BusyInv,
      WatchInv, InCall, Replied, Answering
  <2>2. BusyInv(d)'
    BY <1>0, <1>s, <2>0, <1>p, BusyAssumption DEF TypeOK, CoreInv, CallInv, BusyInv,
      WatchInv, InCall, Replied, Answering
  <2>3. CommandInv(d)'
    BY <1>0, <1>s, <2>0, <1>p, BusyAssumption DEF TypeOK, CoreInv, CallInv, BusyInv,
      CommandInv, WatchInv, InCall, Replied, Answering
  <2>4. DataInv(d)'
    BY <1>0, <1>s, <2>0 DEF TypeOK, CoreInv, CallInv, BusyInv, DataInv, WatchInv,
      InCall, Replied, Answering, Asked, Answer, Message, CommandInv
  <2>5. WatchInv(d)'
    BY <1>0, <1>s, <2>0 DEF TypeOK, CoreInv, WatchInv, CallInv, BusyInv, Replied
  <2> QED BY <2>1, <2>2, <2>3, <2>4, <2>5 DEF CoreInv
<1> QED BY <1>1, <1>2, <1>3 DEF IndInv

(* Before anything runs, every mailbox is empty and every counter is 0.    *)
LEMMA InitInd == Init => IndInv
<1> SUFFICES ASSUME Init PROVE IndInv
  OBVIOUS
<1> USE DEF Init
<1>1. TypeOK
  BY TotalAssumption, BusyAssumption, CallsAssumption DEF TypeOK, Message, Asked, None
<1>2. CountInv
  <2>1. {c \in CoreIds : active[c]} = {}
    OBVIOUS
  <2> QED BY <2>1, FS_EmptySet DEF CountInv
<1>3. ASSUME NEW c \in CoreIds
      PROVE  CoreInv(c)
  <2>1. c \in Int /\ ~(c < 0)
    BY TotalAssumption DEF CoreIds
  <2>2. CallInv(c) /\ BusyInv(c)
    BY DEF CallInv, BusyInv, InCall, Replied, Answering
  <2>3. CommandInv(c) /\ DataInv(c)
    BY DEF CommandInv, DataInv, InCall, Replied, Answering
  <2>4. WatchInv(c)
    BY <2>1, IntentAssumption DEF WatchInv
  <2> QED BY <2>2, <2>3, <2>4 DEF CoreInv
<1> QED BY <1>1, <1>2, <1>3 DEF IndInv

(* A step of the system, or none, preserves the inductive invariant.       *)
LEMMA NextInd ==
  ASSUME IndInv, [Next]_vars, MaxCalls < BusyMax, BootBeforeWatch
  PROVE  IndInv'
<1>1. CASE HostStep
  BY <1>1, StartCoreInd, StartWatchInd, RoundInd, LookInd, DeactivateInd,
     NoCommandInd, ServeInd, GiveBackInd DEF HostStep
<1>2. CASE \E c \in CoreIds : CoreStep(c)
  BY <1>2, BootInd, FillInd, CommandInd, RememberInd, ReleaseInd, ReturnInd,
     EndedInd, EndInd, BeginInd DEF CoreStep, CallStep
<1>3. CASE UNCHANGED vars
  BY <1>3 DEF vars, shared, coreVars, hostVars, IndInv, TypeOK, CountInv, CoreInv,
     CallInv, BusyInv, CommandInv, DataInv, WatchInv, InCall, Replied, Answering
<1> QED BY <1>1, <1>2, <1>3 DEF Next, Finished

(* The inductive invariant holds in every reachable state.                 *)
THEOREM Invariance ==
  ASSUME MaxCalls < BusyMax, BootBeforeWatch
  PROVE  Spec => []IndInv
<1>1. Init => IndInv
  BY InitInd
<1>2. IndInv /\ [Next]_vars => IndInv'
  BY NextInd
<1> QED BY <1>1, <1>2, PTL DEF Spec

(* The variables have their types: in particular core_busy never wraps.    *)
THEOREM TypeCorrect ==
  ASSUME MaxCalls < BusyMax, BootBeforeWatch
  PROVE  Spec => []TypeOK
<1>1. IndInv => TypeOK
  BY DEF IndInv
<1> QED BY <1>1, Invariance, PTL

(* Every command of every core is executed exactly once, between its call  *)
(* and its return (device-support.c:155-181).                              *)
THEOREM ExactlyOnce ==
  ASSUME MaxCalls < BusyMax, BootBeforeWatch
  PROVE  Spec => []ServedOnce
<1>1. IndInv => ServedOnce
  BY DEF IndInv, TypeOK, CoreInv, CallInv, ServedOnce, InCall, Replied
<1> QED BY <1>1, Invariance, PTL

(* Every call of every core returns the answer to its own request.         *)
THEOREM OwnAnswers ==
  ASSUME MaxCalls < BusyMax, BootBeforeWatch
  PROVE  Spec => []OwnAnswer
<1>1. ASSUME IndInv PROVE OwnAnswer
  <2> SUFFICES ASSUME NEW c \in CoreIds, calls[c] > 0, calls[c] = returned[c]
               PROVE  /\ result[c].call = calls[c]
                      /\ wanted[c] \in {"input", "concatenate", "maths"}
                         => result[c].is = "answer"
    BY DEF OwnAnswer
  <2>1. CoreInv(c) /\ TypeOK
    BY <1>1 DEF IndInv
  <2>2. ~InCall(c)
    BY <2>1 DEF CoreInv, CallInv, TypeOK
  <2> QED BY <2>1, <2>2 DEF CoreInv, CallInv, DataInv, TypeOK
<1> QED BY <1>1, Invariance, PTL

(* While the host writes to a mailbox, its core waits.                     *)
THEOREM MailboxOwned ==
  ASSUME MaxCalls < BusyMax, BootBeforeWatch
  PROVE  Spec => []HostOwnsMailbox
<1>1. ASSUME IndInv PROVE HostOwnsMailbox
  <2> SUFFICES ASSUME hostPc = "answer" PROVE pc[scan] = "wait" /\ core_busy[scan] = 0
    BY DEF HostOwnsMailbox
  <2>1. scan \in CoreIds
    BY <1>1, TotalAssumption DEF IndInv, TypeOK, CoreIds
  <2> QED BY <1>1, <2>1 DEF IndInv, CoreInv, BusyInv, Answering
<1> QED BY <1>1, Invariance, PTL

(* The host leaves its loop only when every core it started has ended.     *)
THEOREM NoneAbandoned ==
  ASSUME MaxCalls < BusyMax, BootBeforeWatch
  PROVE  Spec => []NobodyAbandoned
<1>1. ASSUME IndInv PROVE NobodyAbandoned
  <2> SUFFICES ASSUME hostPc = "done", NEW c \in Intent
               PROVE  pc[c] = "ended"
    BY DEF NobodyAbandoned
  <2>1. Cardinality(Watched) = 0
    BY <1>1 DEF IndInv, CountInv, Watched
  <2>2. Watched = {}
    BY <2>1, WatchedFinite, FS_EmptySet
  <2>3. ~active[c] /\ c \in CoreIds
    BY <2>2, IntentAssumption DEF Watched
  <2> QED BY <1>1, <2>3 DEF IndInv, CoreInv, WatchInv
<1> QED BY <1>1, Invariance, PTL
===============================================================================
