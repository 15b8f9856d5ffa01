----------------------------- MODULE ControlProofs -----------------------------
(***************************************************************************)
(* The modules of MCControl, one after the other, and their composition.   *)
(* DebugCommandsProofs has what is proved of DebugCommands.                *)
(***************************************************************************)
EXTENDS MCControl, DebugCommandsProofs

(***************************************************************************)
(* JniBridge for any threads: what is cached in JNI_OnLoad is accounted    *)
(* for at every stage that fails, and a call leaves its thread as it found *)
(* it.                                                                     *)
(***************************************************************************)

-----------------------------------------------------------------------------
(* The inductive invariant.                                                 *)

\* The stages, and what each has cached.  A status under way, with JNI_OnUnload quiet,
\* is not met by JNI_OnLoad either, because nothing is cached before that.
CacheInv ==
  /\ live = globals
  /\ loadLocals = (IF stage \in Stages /\ stage.doing = "ref" THEN 1 ELSE 0)
  /\ stage = Absent => globals = {}
  /\ quiet => \A t \in Threads : call[t] = "status" =>
       stage \notin Stages \cup {Absent} /\ {"grpc", "enum"} \subseteq globals

\* Where a call is tells what it has attached, made and left pending.
ThreadInv(t) ==
  /\ call[t] = "none" <=> step[t] = "none"
  /\ step[t] \in {"none", "env"} => (attached[t] <=> t \in JavaThreads) /\ ~didAttach[t]
  /\ step[t] \notin {"none", "env"} => attached[t] /\ (didAttach[t] <=> t \notin JavaThreads)
  /\ step[t] \in {"none", "env", "class", "clear", "detach"} => locals[t] = 0
  /\ step[t] \in {"method", "delete"} => locals[t] = 1
  /\ step[t] = "call" => locals[t] = IF call[t] = "status" THEN 2 ELSE 1
  /\ pending[t] => step[t] \in {"delete", "clear"}

JniInv == JniTypeOK /\ CacheInv /\ \A t \in Threads : ThreadInv(t)

-----------------------------------------------------------------------------
LEMMA JniInitEstablishes == JniInit => JniInv
<1> SUFFICES ASSUME JniInit PROVE JniInv
  OBVIOUS
<1> USE DEF JniInit
<1>1. /\ \A t \in Threads : (t \in JavaThreads) \in BOOLEAN
      /\ attached \in [Threads -> BOOLEAN] /\ didAttach \in [Threads -> BOOLEAN]
      /\ pending \in [Threads -> BOOLEAN]
  BY Booleans
<1>2. JniTypeOK
  BY <1>1 DEF JniTypeOK
<1>3. CacheInv
  BY DEF CacheInv, Absent, Stages
<1>4. \A t \in Threads : ThreadInv(t)
  BY DEF ThreadInv
<1> QED
  BY <1>2, <1>3, <1>4 DEF JniInv

\* JNI_OnLoad and JNI_OnUnload move on and leave the threads alone.
LEMMA LoadSteps ==
  ASSUME JniInv, LoadBegins \/ LoadStep \/ LoadFails \/ Unload
  PROVE  JniInv'
<1> USE DEF JniInv
<1>1. UNCHANGED <<thread, quiet>>
  BY DEF LoadBegins, LoadStep, LoadFails, Unload
<1>2. \A t \in Threads : ThreadInv(t)'
  BY <1>1 DEF ThreadInv, thread
<1>3. stage \in Stages => stage # Absent /\ stage # Loaded /\ stage # Failed
  BY DEF Stages, Absent, Loaded, Failed
<1>4. CASE LoadBegins
  <2>1. stage' \in Stages /\ stage'.doing = "find"
    BY <1>4 DEF LoadBegins, Stages, Classes
  <2>2. stage = Absent /\ stage \notin Stages
    BY <1>4 DEF LoadBegins, Stages, Absent
  <2>3. JniTypeOK'
    BY <1>1, <1>4, <2>1 DEF JniTypeOK, LoadBegins, cache, thread
  <2>4. CacheInv'
    BY <1>1, <1>3, <1>4, <2>1, <2>2 DEF CacheInv, LoadBegins, cache, thread
  <2> QED
    BY <1>2, <2>3, <2>4
<1>5. CASE LoadStep
  <2>1. stage \in Stages
    BY <1>5 DEF LoadStep
  <2>2. /\ stage' \in Stages \cup {Loaded} /\ stage' # Absent
        /\ stage' \in Stages /\ stage'.doing = "ref" <=> stage.doing = "find"
    BY <1>5, <2>1 DEF LoadStep, Following, Stages, Classes, Loaded, Absent
  <2>3. JniTypeOK'
    <3>1. loadLocals' \in 0 .. 1
      BY <1>5, <2>1 DEF LoadStep, CacheInv, JniTypeOK
    <3> QED
      BY <1>1, <1>5, <2>1, <2>2, <3>1 DEF LoadStep, JniTypeOK, thread, Stages
  <2>4. loadLocals' = (IF stage' \in Stages /\ stage'.doing = "ref" THEN 1 ELSE 0)
    BY <1>5, <2>1, <2>2 DEF LoadStep, CacheInv, JniTypeOK
  <2>5. CacheInv'
    BY <1>1, <1>5, <2>1, <2>2, <2>4 DEF LoadStep, CacheInv, thread
  <2> QED
    BY <1>2, <2>3, <2>5
<1>6. CASE LoadFails
  <2>1. JniTypeOK'
    BY <1>1, <1>6 DEF JniTypeOK, LoadFails, thread, CacheInv, Stages
  <2>2. CacheInv'
    BY <1>1, <1>3, <1>6 DEF CacheInv, LoadFails, thread, Stages, Failed, Absent
  <2> QED
    BY <1>2, <2>1, <2>2
<1>7. CASE Unload
  <2>1. stage \notin Stages /\ stage' \notin Stages /\ stage # Absent
    BY <1>7 DEF Unload, Stages, Loaded, Absent
  <2>2. JniTypeOK'
    BY <1>1, <1>7 DEF JniTypeOK, Unload, thread
  <2>3. CacheInv'
    BY <1>1, <1>7, <2>1 DEF CacheInv, Unload, thread
  <2> QED
    BY <1>2, <2>2, <2>3
<1> QED
  BY <1>4, <1>5, <1>6, <1>7

\* A call moves one thread, and leaves the cache and the other threads alone.
LEMMA OthersUnmoved ==
  ASSUME JniTypeOK, NEW t \in Threads, NEW u \in Threads, u # t,
         \/ StatusBegins(t) \/ DebugBegins(t) \/ GetEnv(t) \/ GetClass(t) \/ GetMethod(t)
         \/ CallJava(t) \/ Delete(t) \/ Clear(t) \/ Detach(t)
  PROVE  /\ call'[u] = call[u] /\ step'[u] = step[u] /\ attached'[u] = attached[u]
         /\ didAttach'[u] = didAttach[u] /\ locals'[u] = locals[u]
         /\ pending'[u] = pending[u]
<1> USE DEF JniTypeOK, Goes
<1>1. CASE StatusBegins(t) \/ DebugBegins(t)
  BY <1>1 DEF StatusBegins, DebugBegins
<1>2. CASE GetEnv(t)
  BY <1>2 DEF GetEnv
<1>3. CASE GetClass(t) \/ GetMethod(t)
  BY <1>3 DEF GetClass, GetMethod
<1>4. CASE CallJava(t) \/ Delete(t)
  BY <1>4 DEF CallJava, Delete
<1>5. CASE Clear(t) \/ Detach(t)
  BY <1>5 DEF Clear, Detach
<1> QED
  BY <1>1, <1>2, <1>3, <1>4, <1>5

\* The moving thread's own part.
LEMMA CallMoves ==
  ASSUME JniInv, NEW t \in Threads,
         \/ StatusBegins(t) \/ DebugBegins(t) \/ GetEnv(t) \/ GetClass(t) \/ GetMethod(t)
         \/ CallJava(t) \/ Delete(t) \/ Clear(t) \/ Detach(t)
  PROVE  JniTypeOK' /\ ThreadInv(t)' /\ (call'[t] = "status" =>
           call[t] = "status" \/ (stage \notin Stages /\ {"grpc", "enum"} \subseteq globals))
<1> USE DEF JniInv, JniTypeOK, ThreadInv, Goes, cache, loading
<1>1. CASE StatusBegins(t)
  BY <1>1 DEF StatusBegins
<1>2. CASE DebugBegins(t)
  BY <1>2 DEF DebugBegins
<1>3. CASE GetEnv(t)
  <2>1. CASE attached[t] /\ Goes(t, "env", "class")
             /\ UNCHANGED <<call, attached, didAttach>>
    BY <1>3, <2>1 DEF GetEnv
  <2>2. CASE /\ ~attached[t] /\ Goes(t, "env", "class")
             /\ attached' = [attached EXCEPT ![t] = TRUE]
             /\ didAttach' = [didAttach EXCEPT ![t] = TRUE] /\ UNCHANGED call
    <3>1. attached' \in [Threads -> BOOLEAN] /\ didAttach' \in [Threads -> BOOLEAN]
      BY <2>2, Booleans
    <3>2. attached'[t] /\ didAttach'[t] /\ t \notin JavaThreads
      BY <1>3, <2>2 DEF GetEnv
    <3> QED
      BY <1>3, <2>2, <3>1, <3>2 DEF GetEnv
  <2>3. CASE /\ ~attached[t] /\ Goes(t, "env", "none")
             /\ call' = [call EXCEPT ![t] = "none"]
             /\ UNCHANGED <<attached, didAttach>>
    BY <1>3, <2>3 DEF GetEnv
  <2> QED
    BY <1>3, <2>1, <2>2, <2>3 DEF GetEnv
<1>4. CASE GetClass(t)
  BY <1>4 DEF GetClass
<1>5. CASE GetMethod(t)
  BY <1>5 DEF GetMethod
<1>6. CASE CallJava(t)
  BY <1>6 DEF CallJava
<1>7. CASE Delete(t)
  BY <1>7 DEF Delete
<1>8. CASE Clear(t)
  BY <1>8 DEF Clear
<1>9. CASE Detach(t)
  BY <1>9 DEF Detach
<1> QED
  BY <1>1, <1>2, <1>3, <1>4, <1>5, <1>6, <1>7, <1>8, <1>9

LEMMA CallSteps ==
  ASSUME JniInv, NEW t \in Threads,
         \/ StatusBegins(t) \/ DebugBegins(t) \/ GetEnv(t) \/ GetClass(t) \/ GetMethod(t)
         \/ CallJava(t) \/ Delete(t) \/ Clear(t) \/ Detach(t)
  PROVE  JniInv'
<1>1. UNCHANGED <<cache, loading, quiet>>
  BY DEF StatusBegins, DebugBegins, GetEnv, GetClass, GetMethod, CallJava, Delete, Clear,
         Detach
<1>2. \A u \in Threads \ {t} :
        /\ call'[u] = call[u] /\ step'[u] = step[u] /\ attached'[u] = attached[u]
        /\ didAttach'[u] = didAttach[u] /\ locals'[u] = locals[u]
        /\ pending'[u] = pending[u]
  BY OthersUnmoved DEF JniInv
<1>3. /\ JniTypeOK' /\ ThreadInv(t)'
      /\ call'[t] = "status" =>
           call[t] = "status" \/ (stage \notin Stages /\ {"grpc", "enum"} \subseteq globals)
  BY CallMoves
<1>4. \A u \in Threads : ThreadInv(u)'
  BY <1>2, <1>3 DEF JniInv, ThreadInv
<1>5. CacheInv'
  BY <1>1, <1>2, <1>3 DEF JniInv, CacheInv, cache, loading
<1> QED
  BY <1>3, <1>4, <1>5 DEF JniInv

\* The bridge's types, the books of JNI_OnLoad and the state of each call hold together,
\* whatever fails and in whatever order.
THEOREM JniInvHolds == JniSpec => []JniInv
<1>1. JniInv /\ [JniNext]_jniVars => JniInv'
  <2> SUFFICES ASSUME JniInv, [JniNext]_jniVars PROVE JniInv'
    OBVIOUS
  <2>1. CASE LoadBegins \/ LoadStep \/ LoadFails \/ Unload
    BY <2>1, LoadSteps
  <2>2. ASSUME NEW t \in Threads,
               \/ StatusBegins(t) \/ DebugBegins(t) \/ GetEnv(t) \/ GetClass(t)
               \/ GetMethod(t) \/ CallJava(t) \/ Delete(t) \/ Clear(t) \/ Detach(t)
        PROVE  JniInv'
    BY <2>2, CallSteps
  <2>3. CASE UNCHANGED jniVars
    BY <2>3 DEF jniVars, cache, loading, thread, JniInv, JniTypeOK, CacheInv, ThreadInv
  <2> QED
    BY <2>1, <2>2, <2>3 DEF JniNext
<1> QED
  BY JniInitEstablishes, <1>1, PTL DEF JniSpec

-----------------------------------------------------------------------------
(* What follows from it.                                                    *)

\* JNI_OnLoad deletes, at whatever stage it fails, just what it no longer points to.
THEOREM Accounted == JniSpec => []RefsAccounted
<1>1. JniInv => RefsAccounted
  BY DEF JniInv, CacheInv, RefsAccounted
<1> QED
  BY <1>1, JniInvHolds, PTL

\* A status between its guards and its last call never meets a deleted class.
THEOREM ClassesStay == JniSpec => []CallsUseLiveRefs
<1>1. JniInv => CallsUseLiveRefs
  BY DEF JniInv, CacheInv, CallsUseLiveRefs
<1> QED
  BY <1>1, JniInvHolds, PTL

\* Any number of threads, attached or not, are left as the calls found them.
THEOREM LeftAsFound == JniSpec => []ThreadLeftAsFound
<1>1. JniInv => ThreadLeftAsFound
  <2> SUFFICES ASSUME JniInv, NEW t \in Threads, call[t] = "none"
               PROVE  attached[t] = (t \in JavaThreads) /\ locals[t] = 0 /\ ~pending[t]
    BY DEF ThreadLeftAsFound
  <2>1. (attached[t] <=> t \in JavaThreads) /\ locals[t] = 0 /\ ~pending[t]
    BY DEF JniInv, ThreadInv
  <2>2. attached[t] \in BOOLEAN /\ (t \in JavaThreads) \in BOOLEAN
    BY Booleans DEF JniInv, JniTypeOK
  <2> QED
    BY <2>1, <2>2
<1> QED
  BY <1>1, JniInvHolds, PTL

(***************************************************************************)
(* PipelineRefs for any number of pipelines and of dumps at once: the      *)
(* references of a pipeline are counted step by step against those that    *)
(* hold it.                                                                *)
(***************************************************************************)

-----------------------------------------------------------------------------
(* Counting dumpers.                                                        *)

\* How many dumpers f takes to p.
Count(f, p) == Cardinality({d \in Dumpers : f[d] = p})

LEMMA CountIsNat == \A f, p : Count(f, p) \in Nat
<1> SUFFICES ASSUME NEW f, NEW p PROVE Count(f, p) \in Nat
  OBVIOUS
<1>1. {d \in Dumpers : f[d] = p} \subseteq Dumpers
  OBVIOUS
<1> QED
  BY <1>1, PipelineAssumption, FS_Subset, FS_CardinalityType DEF PipelineAssumption, Count

\* Nobody is counted where f takes nobody.
LEMMA CountOfNone ==
  ASSUME NEW f, NEW p, \A d \in Dumpers : f[d] # p
  PROVE  Count(f, p) = 0
<1>1. {d \in Dumpers : f[d] = p} = {}
  OBVIOUS
<1> QED
  BY <1>1, FS_EmptySet DEF Count

\* When d moves from f[d] to g[d], each of the two counts changes by one.
LEMMA CountMoves ==
  \A f, g, p : \A d \in Dumpers :
    g[d] # f[d] /\ (\A e \in Dumpers : e # d => g[e] = f[e]) =>
      Count(g, p) = IF p = g[d] THEN Count(f, p) + 1
                    ELSE IF p = f[d] THEN Count(f, p) - 1 ELSE Count(f, p)
<1> SUFFICES ASSUME NEW f, NEW g, NEW p, NEW d \in Dumpers, g[d] # f[d],
                    \A e \in Dumpers : e # d => g[e] = f[e]
             PROVE  Count(g, p) = IF p = g[d] THEN Count(f, p) + 1
                                  ELSE IF p = f[d] THEN Count(f, p) - 1 ELSE Count(f, p)
  OBVIOUS
<1> DEFINE F == {e \in Dumpers : f[e] = p}
           G == {e \in Dumpers : g[e] = p}
<1>1. IsFiniteSet(F) /\ IsFiniteSet(G)
  <2>1. F \subseteq Dumpers /\ G \subseteq Dumpers
    OBVIOUS
  <2> QED
    BY <2>1, PipelineAssumption, FS_Subset DEF PipelineAssumption
<1>2. Cardinality(F) \in Nat /\ Cardinality(G) \in Nat
  BY <1>1, FS_CardinalityType
<1>3. CASE p = g[d]
  <2>1. G = F \cup {d} /\ d \notin F
    BY <1>3
  <2> QED
    BY <1>1, <1>3, <2>1, FS_AddElement DEF Count
<1>4. CASE p = f[d]
  <2>1. G = F \ {d} /\ d \in F
    BY <1>4
  <2> QED
    BY <1>1, <1>2, <1>4, <2>1, FS_RemoveElement DEF Count
<1>5. CASE p # g[d] /\ p # f[d]
  <2>1. G = F
    BY <1>5
  <2> QED
    BY <1>5, <2>1 DEF Count
<1> QED
  BY <1>3, <1>4, <1>5

\* The holders of a pipeline, before a step and after it.
LEMMA HoldersAre ==
  \A p :
    /\ Holders(p) = One(p \in owned) + One(p = s_full_pipeline) + One(p = playing)
                    + Count(holds, p) + Count(inner, p) + closures[p]
    /\ Holders(p)' = One(p \in owned') + One(p = s_full_pipeline') + One(p = playing')
                     + Count(holds', p) + Count(inner', p) + closures'[p]
  BY DEF Holders, Count

-----------------------------------------------------------------------------
(* The inductive invariant.                                                 *)

\* A client plays into a media that lives, and with serial there is one at most.
MediaInv ==
  /\ playing # 0 => playing \in prepared
  /\ serial => \A p, q \in prepared : p = q

RefInv == RefTypeOK /\ RefsAreHeld /\ CachedIsOwned /\ MediaInv

LEMMA RefInitEstablishes == RefInit => RefInv
<1> SUFFICES ASSUME RefInit PROVE RefInv
  OBVIOUS
<1> USE PipelineAssumption DEF PipelineAssumption, RefInit
<1>1. RefTypeOK
  <2>1. scanning \in BOOLEAN /\ serial \in BOOLEAN
    OBVIOUS
  <2>2. refs \in [Pipelines -> Nat] /\ closures \in [Pipelines -> {0, Handlers}]
    OBVIOUS
  <2>3. holds \in [Dumpers -> 0 .. made] /\ inner \in [Dumpers -> 0 .. made]
    OBVIOUS
  <2>4. /\ made \in 0 .. MaxPipelines /\ s_full_pipeline \in 0 .. made /\ playing \in 0 .. made
        /\ alive \subseteq 1 .. made /\ owned \subseteq 1 .. made /\ prepared \subseteq owned
    OBVIOUS
  <2> QED
    BY <2>1, <2>2, <2>3, <2>4 DEF RefTypeOK
<1>2. RefsAreHeld
  <2> SUFFICES ASSUME NEW p \in Pipelines PROVE refs[p] = 0 /\ Holders(p) = 0
    BY DEF RefsAreHeld
  <2>1. p # 0
    BY DEF Pipelines
  <2>2. Count(holds, p) = 0 /\ Count(inner, p) = 0
    BY <2>1, CountOfNone
  <2> QED
    BY <2>1, <2>2, HoldersAre DEF One
<1> QED
  BY <1>1, <1>2 DEF RefInv, CachedIsOwned, MediaInv

LEMMA Counted ==
  ASSUME RefTypeOK, NEW p \in Pipelines
  PROVE  /\ Holders(p) \in Nat /\ refs[p] \in Nat /\ closures[p] \in Nat
         /\ Count(holds, p) \in Nat /\ Count(inner, p) \in Nat
         /\ Count(holds', p) \in Nat /\ Count(inner', p) \in Nat
<1>1. /\ Count(holds, p) \in Nat /\ Count(inner, p) \in Nat
      /\ Count(holds', p) \in Nat /\ Count(inner', p) \in Nat
  BY CountIsNat
<1>2. refs[p] \in Nat /\ closures[p] \in Nat
  BY DEF RefTypeOK, Handlers
<1> QED
  BY <1>1, <1>2, HoldersAre DEF One

\* Who holds is a holder, ...
LEMMA HolderCounts ==
  ASSUME RefTypeOK, NEW p \in Pipelines
  PROVE  /\ p \in owned \/ p = s_full_pipeline \/ p = playing => Holders(p) > 0
         /\ \A d \in Dumpers : holds[d] = p \/ inner[d] = p => Holders(p) > 0
<1>1. Count(holds, p) \in Nat /\ Count(inner, p) \in Nat /\ closures[p] \in Nat
  BY Counted
<1>2. p \in owned \/ p = s_full_pipeline \/ p = playing => Holders(p) > 0
  BY <1>1, HoldersAre DEF One
<1>3. ASSUME NEW d \in Dumpers, holds[d] = p \/ inner[d] = p PROVE Holders(p) > 0
  <2> DEFINE H == {e \in Dumpers : holds[e] = p}
             I == {e \in Dumpers : inner[e] = p}
  <2>1. IsFiniteSet(H) /\ IsFiniteSet(I)
    <3>1. H \subseteq Dumpers /\ I \subseteq Dumpers
      OBVIOUS
    <3> QED
      BY <3>1, PipelineAssumption, FS_Subset DEF PipelineAssumption
  <2>2. Count(holds, p) > 0 \/ Count(inner, p) > 0
    <3>1. H # {} \/ I # {}
      BY <1>3
    <3> QED
      BY <1>1, <2>1, <3>1, FS_EmptySet DEF Count
  <2> QED
    BY <1>1, <2>2, HoldersAre DEF One
<1> QED
  BY <1>2, <1>3

\* ... and has a reference to give up.
LEMMA HeldHasReference ==
  ASSUME RefInv, NEW p \in Pipelines
  PROVE  /\ p \in owned \/ p = s_full_pipeline \/ p = playing => refs[p] > 0
         /\ \A d \in Dumpers : holds[d] = p \/ inner[d] = p => refs[p] > 0
<1>1. refs[p] \in Nat /\ Holders(p) \in Nat /\ refs[p] >= Holders(p)
  BY Counted DEF RefInv, RefsAreHeld
<1> QED
  BY <1>1, HolderCounts DEF RefInv

-----------------------------------------------------------------------------
(* Step by step.                                                            *)

\* The books balance after a step that balances each pipeline's, if nobody comes to hold
\* what nobody held.
LEMMA StillHeld ==
  ASSUME RefTypeOK, RefTypeOK', RefsAreHeld, UNCHANGED <<serial, alive>>,
         \A p \in Pipelines :
           /\ refs'[p] - refs[p] >= Holders(p)' - Holders(p)
           /\ serial => refs'[p] - refs[p] = Holders(p)' - Holders(p)
           /\ Holders(p) = 0 => Holders(p)' = 0
  PROVE  RefsAreHeld'
<1> SUFFICES ASSUME NEW p \in Pipelines
             PROVE  /\ refs'[p] >= Holders(p)'
                    /\ p \notin alive => Holders(p)' = 0
                    /\ serial => refs'[p] = Holders(p)'
  BY DEF RefsAreHeld
<1>1. /\ refs[p] >= Holders(p) /\ (serial => refs[p] = Holders(p))
      /\ p \notin alive => Holders(p) = 0
  BY DEF RefsAreHeld
<1>2. Holders(p) \in Nat /\ refs[p] \in Nat
  BY Counted
<1>3. Holders(p)' \in Nat /\ refs'[p] \in Nat
  <2>1. Count(holds', p) \in Nat /\ Count(inner', p) \in Nat
    BY CountIsNat
  <2>2. refs'[p] \in Nat /\ closures'[p] \in Nat
    BY DEF RefTypeOK, Handlers
  <2> QED
    BY <2>1, <2>2, HoldersAre DEF One
<1> QED
  BY <1>1, <1>2, <1>3

\* MakeMedia: the new pipeline is nobody's but the media's.
LEMMA MakeMediaKeeps == ASSUME RefInv, MakeMedia PROVE RefInv'
<1>0. RefTypeOK /\ RefsAreHeld /\ CachedIsOwned /\ MediaInv
  BY DEF RefInv
<1>1. /\ made' = made + 1 /\ made' \in Pipelines
      /\ made' \notin owned /\ made' # s_full_pipeline /\ made' # playing
      /\ made' \notin alive
      /\ \A d \in Dumpers : holds[d] # made' /\ inner[d] # made'
  BY <1>0, PipelineAssumption DEF RefTypeOK, MakeMedia, Pipelines, PipelineAssumption
<1>2. RefTypeOK'
  BY <1>0, <1>1 DEF RefTypeOK, MakeMedia, play, dumps, Pipelines
<1>3. Count(holds, made') = 0 /\ Count(inner, made') = 0
  BY <1>1, CountOfNone
<1>4. closures[made'] = 0
  <2>1. Holders(made') = 0
    BY <1>0, <1>1 DEF RefsAreHeld
  <2>2. closures[made'] \in Nat
    BY <1>0, <1>1, Counted
  <2> QED
    BY <1>1, <1>3, <2>1, <2>2, HoldersAre DEF One
<1>5. RefsAreHeld'
  <2> SUFFICES ASSUME NEW p \in Pipelines
               PROVE  /\ refs'[p] >= Holders(p)' /\ (serial => refs'[p] = Holders(p)')
                      /\ p \notin alive' => Holders(p)' = 0
    BY DEF RefsAreHeld, MakeMedia
  <2>0. /\ UNCHANGED <<s_full_pipeline, playing, holds, inner, closures>>
        /\ owned' = owned \cup {made'} /\ alive' = alive \cup {made'}
    BY DEF MakeMedia, play, dumps
  <2>1. CASE p = made'
    <3>1. refs'[p] = 1
      BY <1>0, <2>1 DEF MakeMedia, RefTypeOK
    <3>2. Holders(p)' = 1 + 0 + 0 + 0 + 0 + 0
      BY <1>1, <1>3, <1>4, <2>0, <2>1, HoldersAre DEF One
    <3> QED
      BY <2>0, <2>1, <3>1, <3>2
  <2>2. CASE p # made'
    <3>1. Holders(p)' = Holders(p)
      BY <2>0, <2>2, HoldersAre
    <3>2. refs'[p] = refs[p]
      BY <1>0, <2>2 DEF MakeMedia, RefTypeOK
    <3> QED
      BY <1>0, <2>0, <3>1, <3>2 DEF RefsAreHeld
  <2> QED
    BY <2>1, <2>2
<1>6. CachedIsOwned' /\ MediaInv'
  BY <1>0 DEF MakeMedia, play, CachedIsOwned, MediaInv
<1> QED
  BY <1>2, <1>5, <1>6 DEF RefInv

\* on_media_prepared: a reference for each closure.
LEMMA MediaPreparedKeeps ==
  ASSUME RefInv, NEW p \in Pipelines, MediaPrepared(p)
  PROVE  RefInv'
<1>0. RefTypeOK /\ RefsAreHeld /\ CachedIsOwned /\ MediaInv
  BY DEF RefInv
<1> USE DEF MediaPrepared, play, dumps
<1>1. RefTypeOK'
  BY <1>0 DEF RefTypeOK, Plus, Handlers
<1>2. CachedIsOwned' /\ MediaInv'
  BY <1>0 DEF CachedIsOwned, MediaInv
<1>3. Holders(p) > 0
  BY <1>0, HolderCounts DEF RefTypeOK
<1>4. ASSUME NEW q \in Pipelines PROVE refs'[q] - refs[q] = Holders(q)' - Holders(q)
  <2>1. refs'[q] = IF q = p THEN refs[q] + Handlers ELSE refs[q]
    BY DEF Plus
  <2>2. closures'[q] = IF q = p THEN closures[q] + Handlers ELSE closures[q]
    BY <1>0 DEF RefTypeOK, Handlers
  <2>3. /\ Count(holds, q) \in Nat /\ Count(inner, q) \in Nat /\ refs[q] \in Nat
        /\ closures[q] \in Nat
    BY <1>0, Counted
  <2> QED
    BY <2>1, <2>2, <2>3, HoldersAre DEF One, Handlers
<1>5. ASSUME NEW q \in Pipelines, Holders(q) = 0 PROVE Holders(q)' = 0
  <2>1. q # p
    BY <1>3, <1>5
  <2>2. closures'[q] = closures[q]
    BY <1>0, <2>1 DEF RefTypeOK
  <2> QED
    BY <1>5, <2>2, HoldersAre
<1>6. \A q \in Pipelines : refs'[q] - refs[q] >= Holders(q)' - Holders(q)
  <2> SUFFICES ASSUME NEW q \in Pipelines PROVE refs'[q] - refs[q] >= Holders(q)' - Holders(q)
    OBVIOUS
  <2>1. refs'[q] \in Nat /\ refs[q] \in Nat
    BY <1>0, <1>1 DEF RefTypeOK
  <2> QED
    BY <1>4, <2>1
<1>7. RefsAreHeld'
  BY <1>0, <1>1, <1>4, <1>5, <1>6, StillHeld
<1> QED
  BY <1>1, <1>2, <1>7 DEF RefInv

\* on_client_play_request: what it takes is its own, or the cache's.
LEMMA PlayKeeps ==
  ASSUME RefInv, PlayCaches \/ PlayEnds \/ \E p \in Pipelines : PlayBegins(p)
  PROVE  RefInv'
<1>0. RefTypeOK /\ RefsAreHeld /\ CachedIsOwned /\ MediaInv
  BY DEF RefInv
<1> USE DEF media, dumps
<1>a. \A q \in Pipelines :
        /\ q # 0 /\ Count(holds, q) \in Nat /\ Count(inner, q) \in Nat
        /\ refs[q] \in Nat /\ closures[q] \in Nat
  BY <1>0, Counted DEF Pipelines
<1>1. ASSUME NEW p \in Pipelines, PlayBegins(p) PROVE RefInv'
  <2>1. RefTypeOK'
    BY <1>0, <1>1 DEF PlayBegins, Ref, Plus, RefTypeOK, Pipelines
  <2>2. CachedIsOwned' /\ MediaInv'
    BY <1>0, <1>1 DEF PlayBegins, CachedIsOwned, MediaInv
  <2>3. Holders(p) > 0
    BY <1>0, <1>1, HolderCounts DEF PlayBegins, RefTypeOK
  <2>4. ASSUME NEW q \in Pipelines
        PROVE  /\ refs'[q] - refs[q] >= Holders(q)' - Holders(q)
               /\ serial => refs'[q] - refs[q] = Holders(q)' - Holders(q)
               /\ Holders(q) = 0 => Holders(q)' = 0
    <3>1. refs'[q] = IF q = p THEN refs[q] + 1 ELSE refs[q]
      BY <1>1 DEF PlayBegins, Ref, Plus
    <3>2. playing = 0 /\ playing' = p
          /\ UNCHANGED <<s_full_pipeline, owned, holds, inner, closures>>
      BY <1>1 DEF PlayBegins, Pipelines
    <3> QED
      BY <1>a, <2>3, <3>1, <3>2, HoldersAre DEF One
  <2>5. RefsAreHeld'
    BY <1>0, <1>1, <2>1, <2>4, StillHeld DEF PlayBegins
  <2> QED
    BY <2>1, <2>2, <2>5 DEF RefInv
<1>b. playing # 0 => playing \in Pipelines /\ playing \in prepared
  BY <1>0, PipelineAssumption DEF MediaInv, RefTypeOK, Pipelines, PipelineAssumption
<1>2. CASE PlayCaches
  <2>1. playing \in Pipelines /\ playing \in prepared
    BY <1>b, <1>2 DEF PlayCaches
  <2>2. Holders(playing) > 0
    BY <1>0, <2>1, HolderCounts
  <2>3. RefTypeOK'
    <3>1. refs' \in [Pipelines -> Nat]
      BY <1>0, <1>2 DEF PlayCaches, Ref, Plus, RefTypeOK
    <3> QED
      BY <1>0, <1>2, <3>1 DEF PlayCaches, RefTypeOK
  <2>4. CachedIsOwned' /\ MediaInv'
    BY <1>0, <1>2, <2>1 DEF PlayCaches, CachedIsOwned, MediaInv
  <2>5. serial /\ s_full_pipeline # 0 => s_full_pipeline = playing
    BY <1>0, <2>1 DEF CachedIsOwned, MediaInv
  <2>6. ASSUME NEW q \in Pipelines
        PROVE  /\ refs'[q] - refs[q] >= Holders(q)' - Holders(q)
               /\ serial => refs'[q] - refs[q] = Holders(q)' - Holders(q)
               /\ Holders(q) = 0 => Holders(q)' = 0
    <3>1. refs'[q] = IF s_full_pipeline # playing /\ q = playing THEN refs[q] + 1
                     ELSE refs[q]
      BY <1>0, <1>2 DEF PlayCaches, Ref, Plus, RefTypeOK
    <3>2. s_full_pipeline' = playing /\ UNCHANGED <<playing, owned, holds, inner, closures>>
      BY <1>2 DEF PlayCaches
    <3> QED
      BY <1>a, <2>1, <2>2, <2>5, <3>1, <3>2, HoldersAre DEF One
  <2>7. RefsAreHeld'
    BY <1>0, <1>2, <2>3, <2>6, StillHeld DEF PlayCaches
  <2> QED
    BY <2>3, <2>4, <2>7 DEF RefInv
<1>3. CASE PlayEnds
  <2>1. playing \in Pipelines /\ refs[playing] > 0
    BY <1>b, <1>3, HeldHasReference DEF PlayEnds
  <2>2. RefTypeOK'
    <3>1. refs' \in [Pipelines -> Nat]
      <4>1. refs' = [q \in Pipelines |-> IF q = playing THEN refs[q] + (-1) ELSE refs[q]]
        BY <1>3 DEF PlayEnds, Unref, Plus
      <4>2. \A q \in Pipelines : (IF q = playing THEN refs[q] + (-1) ELSE refs[q]) \in Nat
        BY <1>a, <2>1
      <4> QED
        BY <4>1, <4>2
    <3>2. playing' \in 0 .. made
      BY <1>0, <1>3 DEF PlayEnds, RefTypeOK
    <3>3. scanning' \in BOOLEAN
      BY <1>3 DEF PlayEnds
    <3>4. UNCHANGED <<s_full_pipeline, media, dumps, serial>>
      BY <1>3 DEF PlayEnds
    <3> QED
      BY <1>0, <3>1, <3>2, <3>3, <3>4 DEF RefTypeOK
  <2>3. CachedIsOwned' /\ MediaInv'
    BY <1>0, <1>3 DEF PlayEnds, CachedIsOwned, MediaInv
  <2>4. ASSUME NEW q \in Pipelines
        PROVE  /\ refs'[q] - refs[q] >= Holders(q)' - Holders(q)
               /\ serial => refs'[q] - refs[q] = Holders(q)' - Holders(q)
               /\ Holders(q) = 0 => Holders(q)' = 0
    <3>1. refs'[q] = IF q = playing THEN refs[q] - 1 ELSE refs[q]
      BY <1>3, <1>a DEF PlayEnds, Unref, Plus
    <3>2. playing' = 0 /\ UNCHANGED <<s_full_pipeline, owned, holds, inner, closures>>
      BY <1>3 DEF PlayEnds
    <3> QED
      BY <1>a, <3>1, <3>2, HoldersAre DEF One
  <2>5. RefsAreHeld'
    BY <1>0, <1>3, <2>2, <2>4, StillHeld DEF PlayEnds
  <2> QED
    BY <2>2, <2>3, <2>5 DEF RefInv
<1> QED
  BY <1>1, <1>2, <1>3

\* The cache gives up what is its own, the media lives on or is unprepared.
LEMMA UncacheKeeps ==
  ASSUME RefInv, Uncache,
         UNCHANGED <<made, alive, owned, closures, playing, scanning, holds, inner, serial>>,
         prepared' \subseteq prepared, playing # 0 => playing \in prepared'
  PROVE  RefInv'
<1>0. RefTypeOK /\ RefsAreHeld /\ CachedIsOwned /\ MediaInv
  BY DEF RefInv
<1>1. s_full_pipeline # 0 => s_full_pipeline \in Pipelines /\ refs[s_full_pipeline] > 0
  <2>1. s_full_pipeline # 0 => s_full_pipeline \in Pipelines
    BY <1>0, PipelineAssumption DEF RefTypeOK, Pipelines, PipelineAssumption
  <2> QED
    BY <2>1, HeldHasReference
<1>2. RefTypeOK'
  BY <1>0, <1>1 DEF Uncache, Unref, Plus, RefTypeOK, Pipelines
<1>3. CachedIsOwned' /\ MediaInv'
  BY <1>0 DEF Uncache, CachedIsOwned, MediaInv
<1>4. ASSUME NEW q \in Pipelines
      PROVE  /\ refs'[q] - refs[q] >= Holders(q)' - Holders(q)
             /\ serial => refs'[q] - refs[q] = Holders(q)' - Holders(q)
             /\ Holders(q) = 0 => Holders(q)' = 0
  <2>1. /\ q # 0 /\ Count(holds, q) \in Nat /\ Count(inner, q) \in Nat
        /\ refs[q] \in Nat /\ closures[q] \in Nat
    BY <1>0, Counted DEF Pipelines
  <2>2. refs'[q] = IF q = s_full_pipeline THEN refs[q] - 1 ELSE refs[q]
    BY <2>1 DEF Uncache, Unref, Plus
  <2>3. s_full_pipeline' = 0
    BY DEF Uncache
  <2> QED
    BY <2>1, <2>2, <2>3, HoldersAre DEF One
<1>5. RefsAreHeld'
  BY <1>0, <1>2, <1>4, StillHeld
<1> QED
  BY <1>2, <1>3, <1>5 DEF RefInv

\* The media gives up what is its own.
LEMMA MediaFreedKeeps ==
  ASSUME RefInv, NEW p \in Pipelines, MediaFreed(p)
  PROVE  RefInv'
<1>0. RefTypeOK /\ RefsAreHeld /\ CachedIsOwned /\ MediaInv
  BY DEF RefInv
<1> USE DEF play, dumps
<1>1. refs[p] > 0
  BY HeldHasReference DEF MediaFreed
<1>2. RefTypeOK'
  BY <1>0, <1>1 DEF MediaFreed, Unref, Plus, RefTypeOK, Pipelines
<1>3. CachedIsOwned' /\ MediaInv'
  BY <1>0 DEF MediaFreed, CachedIsOwned, MediaInv
<1>4. ASSUME NEW q \in Pipelines
      PROVE  /\ refs'[q] - refs[q] >= Holders(q)' - Holders(q)
             /\ serial => refs'[q] - refs[q] = Holders(q)' - Holders(q)
             /\ Holders(q) = 0 => Holders(q)' = 0
  <2>1. /\ Count(holds, q) \in Nat /\ Count(inner, q) \in Nat
        /\ refs[q] \in Nat /\ closures[q] \in Nat
    BY <1>0, Counted
  <2>2. refs'[q] = IF q = p THEN refs[q] - 1 ELSE refs[q]
    BY <2>1 DEF MediaFreed, Unref, Plus
  <2>3. /\ p \in owned /\ owned' = owned \ {p}
        /\ UNCHANGED <<s_full_pipeline, playing, holds, inner, closures>>
    BY DEF MediaFreed
  <2> QED
    BY <2>1, <2>2, <2>3, HoldersAre DEF One
<1>5. RefsAreHeld'
  BY <1>0, <1>2, <1>4, StillHeld DEF MediaFreed
<1> QED
  BY <1>2, <1>3, <1>5 DEF RefInv

\* What is finalized had no reference, hence no holder, its own closures included.
LEMMA PipelineFinalizedKeeps ==
  ASSUME RefInv, NEW p \in Pipelines, PipelineFinalized(p)
  PROVE  RefInv'
<1>0. RefTypeOK /\ RefsAreHeld /\ CachedIsOwned /\ MediaInv
  BY DEF RefInv
<1> USE DEF PipelineFinalized, play, dumps
<1>1. Holders(p) = 0 /\ closures[p] = 0
  <2>1. /\ Holders(p) \in Nat /\ Count(holds, p) \in Nat /\ Count(inner, p) \in Nat
        /\ closures[p] \in Nat
    BY <1>0, Counted
  <2>2. Holders(p) = 0
    BY <1>0, <2>1 DEF RefsAreHeld
  <2>3. One(p \in owned) \in Nat /\ One(p = s_full_pipeline) \in Nat /\ One(p = playing) \in Nat
    BY DEF One
  <2>4. Holders(p) = One(p \in owned) + One(p = s_full_pipeline) + One(p = playing)
                     + Count(holds, p) + Count(inner, p) + closures[p]
    BY HoldersAre
  <2> QED
    BY <2>1, <2>2, <2>3, <2>4
<1>2. closures' = closures
  BY <1>0, <1>1 DEF RefTypeOK
<1>3. RefTypeOK'
  BY <1>0, <1>2 DEF RefTypeOK
<1>4. \A q : Holders(q)' = Holders(q)
  BY <1>2, HoldersAre
<1>5. RefsAreHeld'
  BY <1>0, <1>1, <1>4 DEF RefsAreHeld
<1>6. CachedIsOwned' /\ MediaInv'
  BY <1>0 DEF CachedIsOwned, MediaInv
<1> QED
  BY <1>3, <1>5, <1>6 DEF RefInv

\* A dump takes a reference with the pointer, and gives it up with the pointer.
LEMMA DumpKeeps ==
  ASSUME RefInv, NEW d \in Dumpers,
         DumpStep(d)
  PROVE  RefInv'
<1>0. RefTypeOK /\ RefsAreHeld /\ CachedIsOwned /\ MediaInv
  BY DEF RefInv
<1> USE DEF DumpStep, media, play
<1>1. /\ UNCHANGED <<s_full_pipeline, media, play, serial>>
      /\ CachedIsOwned' /\ MediaInv'
  BY <1>0 DEF Snapshot, DumpWithin, DumpWithinEnds, DumpEnds, CachedIsOwned, MediaInv
<1>2. holds \in [Dumpers -> 0 .. made] /\ inner \in [Dumpers -> 0 .. made]
  BY <1>0 DEF RefTypeOK
<1>3. \A p \in 1 .. made : p \in Pipelines /\ p # 0 /\ refs[p] \in Nat
  BY <1>0, PipelineAssumption DEF RefTypeOK, Pipelines, PipelineAssumption
<1>4. ASSUME NEW p \in 1 .. made, Holders(p) > 0, NEW n \in {-1, 1},
             \A q \in Pipelines : refs'[q] = IF q = p THEN refs[q] + n ELSE refs[q],
             \A q \in Pipelines :
               Count(holds', q) + Count(inner', q)
                 = Count(holds, q) + Count(inner, q) + (IF q = p THEN n ELSE 0),
             RefTypeOK'
      PROVE  RefInv'
  <2>1. ASSUME NEW q \in Pipelines
        PROVE  /\ refs'[q] - refs[q] >= Holders(q)' - Holders(q)
               /\ serial => refs'[q] - refs[q] = Holders(q)' - Holders(q)
               /\ Holders(q) = 0 => Holders(q)' = 0
    <3>1. /\ Count(holds, q) \in Nat /\ Count(inner, q) \in Nat /\ refs[q] \in Nat
          /\ Count(holds', q) \in Nat /\ Count(inner', q) \in Nat /\ closures[q] \in Nat
      BY <1>0, Counted
    <3> QED
      BY <1>1, <1>4, <3>1, HoldersAre DEF One
  <2>2. RefsAreHeld'
    BY <1>0, <1>1, <1>4, <2>1, StillHeld
  <2> QED
    BY <1>1, <1>4, <2>2 DEF RefInv
<1>5. \A q \in Pipelines : Count(holds, q) \in Nat /\ Count(inner, q) \in Nat /\ q # 0
  BY <1>0, Counted DEF Pipelines
<1>c. \A q \in 1 .. made :
        q = s_full_pipeline \/ q = holds[d] \/ q = inner[d] => Holders(q) > 0
  BY <1>0, <1>3, HolderCounts
<1>6. CASE Snapshot(d)
  <2>1. /\ s_full_pipeline \in 1 .. made /\ holds[d] = 0 /\ holds'[d] = s_full_pipeline
        /\ inner' = inner /\ \A e \in Dumpers : e # d => holds'[e] = holds[e]
    BY <1>0, <1>2, <1>6 DEF Snapshot, RefTypeOK
  <2>2. ASSUME NEW q \in Pipelines
        PROVE  Count(holds', q) = Count(holds, q) + (IF q = s_full_pipeline THEN 1 ELSE 0)
    <3>1. holds'[d] # holds[d]
      BY <1>3, <2>1
    <3>2. Count(holds', q) = IF q = holds'[d] THEN Count(holds, q) + 1
                             ELSE IF q = holds[d] THEN Count(holds, q) - 1
                             ELSE Count(holds, q)
      BY <2>1, <3>1, CountMoves
    <3> QED
      BY <1>5, <2>1, <3>2
  <2>3. RefTypeOK'
    BY <1>0, <1>1, <1>6, <2>1 DEF Snapshot, Ref, Plus, RefTypeOK
  <2>4. \A q \in Pipelines :
          refs'[q] = IF q = s_full_pipeline THEN refs[q] + 1 ELSE refs[q]
    BY <1>6 DEF Snapshot, Ref, Plus
  <2> QED
    BY <1>4, <1>5, <1>c, <2>1, <2>2, <2>3, <2>4
<1>7. CASE DumpWithin(d)
  <2>1. /\ s_full_pipeline \in 1 .. made /\ inner[d] = 0 /\ inner'[d] = s_full_pipeline
        /\ holds' = holds /\ \A e \in Dumpers : e # d => inner'[e] = inner[e]
    BY <1>0, <1>2, <1>7 DEF DumpWithin, RefTypeOK
  <2>2. ASSUME NEW q \in Pipelines
        PROVE  Count(inner', q) = Count(inner, q) + (IF q = s_full_pipeline THEN 1 ELSE 0)
    <3>1. inner'[d] # inner[d]
      BY <1>3, <2>1
    <3>2. Count(inner', q) = IF q = inner'[d] THEN Count(inner, q) + 1
                             ELSE IF q = inner[d] THEN Count(inner, q) - 1
                             ELSE Count(inner, q)
      BY <2>1, <3>1, CountMoves
    <3> QED
      BY <1>5, <2>1, <3>2
  <2>3. RefTypeOK'
    BY <1>0, <1>1, <1>7, <2>1 DEF DumpWithin, Ref, Plus, RefTypeOK
  <2>4. \A q \in Pipelines :
          refs'[q] = IF q = s_full_pipeline THEN refs[q] + 1 ELSE refs[q]
    BY <1>7 DEF DumpWithin, Ref, Plus
  <2> QED
    BY <1>4, <1>5, <1>c, <2>1, <2>2, <2>3, <2>4
<1>8. CASE DumpWithinEnds(d)
  <2> DEFINE p == inner[d]
  <2>1. /\ p \in 1 .. made /\ inner'[d] = 0
        /\ holds' = holds /\ \A e \in Dumpers : e # d => inner'[e] = inner[e]
    BY <1>0, <1>2, <1>8 DEF DumpWithinEnds, RefTypeOK
  <2>2. refs[p] > 0
    BY <1>3, <2>1, HeldHasReference
  <2>3. ASSUME NEW q \in Pipelines
        PROVE  Count(inner', q) = Count(inner, q) + (IF q = p THEN -1 ELSE 0)
    <3>1. inner'[d] # inner[d]
      BY <1>3, <2>1
    <3>2. Count(inner', q) = IF q = inner'[d] THEN Count(inner, q) + 1
                             ELSE IF q = inner[d] THEN Count(inner, q) - 1
                             ELSE Count(inner, q)
      BY <2>1, <3>1, CountMoves
    <3> QED
      BY <1>5, <2>1, <3>2
  <2>4. \A q \in Pipelines : refs'[q] = IF q = p THEN refs[q] + (-1) ELSE refs[q]
    BY <1>0, <1>8 DEF DumpWithinEnds, Unref, Plus, RefTypeOK
  <2>5. RefTypeOK'
    BY <1>0, <1>1, <1>8, <2>1, <2>2 DEF DumpWithinEnds, Unref, Plus, RefTypeOK
  <2> QED
    BY <1>4, <1>5, <1>c, <2>1, <2>3, <2>4, <2>5
<1>9. CASE DumpEnds(d)
  <2> DEFINE p == holds[d]
  <2>1. /\ p \in 1 .. made /\ holds'[d] = 0
        /\ inner' = inner /\ \A e \in Dumpers : e # d => holds'[e] = holds[e]
    BY <1>0, <1>2, <1>9 DEF DumpEnds, RefTypeOK
  <2>2. refs[p] > 0
    BY <1>3, <2>1, HeldHasReference
  <2>3. ASSUME NEW q \in Pipelines
        PROVE  Count(holds', q) = Count(holds, q) + (IF q = p THEN -1 ELSE 0)
    <3>1. holds'[d] # holds[d]
      BY <1>3, <2>1
    <3>2. Count(holds', q) = IF q = holds'[d] THEN Count(holds, q) + 1
                             ELSE IF q = holds[d] THEN Count(holds, q) - 1
                             ELSE Count(holds, q)
      BY <2>1, <3>1, CountMoves
    <3> QED
      BY <1>5, <2>1, <3>2
  <2>4. \A q \in Pipelines : refs'[q] = IF q = p THEN refs[q] + (-1) ELSE refs[q]
    BY <1>0, <1>9 DEF DumpEnds, Unref, Plus, RefTypeOK
  <2>5. RefTypeOK'
    BY <1>0, <1>1, <1>9, <2>1, <2>2 DEF DumpEnds, Unref, Plus, RefTypeOK
  <2> QED
    BY <1>4, <1>5, <1>c, <2>1, <2>3, <2>4, <2>5
<1> QED
  BY <1>6, <1>7, <1>8, <1>9

-----------------------------------------------------------------------------
\* The books of all pipelines balance, the closures of their own buses included, however
\* dumps, clients and media cross.
THEOREM RefInvHolds == RefSpec => []RefInv
<1>1. RefInv /\ [RefNext]_refVars => RefInv'
  <2> SUFFICES ASSUME RefInv, [RefNext]_refVars PROVE RefInv'
    OBVIOUS
  <2>1. CASE MakeMedia
    BY <2>1, MakeMediaKeeps
  <2>2. CASE PlayCaches \/ PlayEnds \/ \E p \in Pipelines : PlayBegins(p)
    BY <2>2, PlayKeeps
  <2>3. CASE Destroy
    BY <2>3, UncacheKeeps DEF Destroy, media, play, dumps, RefInv, MediaInv
  <2>4. ASSUME NEW p \in Pipelines, MediaStep(p) PROVE RefInv'
    <3>1. CASE Unprepared(p)
      BY <3>1, UncacheKeeps DEF Unprepared, play, dumps, RefInv, MediaInv
    <3> QED
      BY <2>4, <3>1, MediaPreparedKeeps, MediaFreedKeeps, PipelineFinalizedKeeps DEF MediaStep
  <2>5. ASSUME NEW d \in Dumpers, DumpStep(d) PROVE RefInv'
    BY <2>5, DumpKeeps
  <2>6. CASE UNCHANGED refVars
    <3> USE DEF refVars, media, play, dumps
    <3>1. \A p : Holders(p)' = Holders(p)
      BY <2>6, HoldersAre
    <3>2. RefsAreHeld'
      BY <2>6, <3>1 DEF RefInv, RefsAreHeld
    <3> QED
      BY <2>6, <3>2 DEF RefInv, RefTypeOK, CachedIsOwned, MediaInv
  <2> QED
    BY <2>1, <2>2, <2>3, <2>4, <2>5, <2>6 DEF RefNext
<1> QED
  BY RefInitEstablishes, <1>1, PTL DEF RefSpec

\* A pipeline has a reference for each that holds it, the closures on its own bus included,
\* so none of them holds a finalized one; and with serial media it has no other.
THEOREM References == RefSpec => []RefsAreHeld
<1>1. RefInv => RefsAreHeld
  BY DEF RefInv
<1> QED
  BY <1>1, RefInvHolds, PTL

\* With serial media the cache never outlives its media.
THEOREM CacheLives == RefSpec => []CachedIsOwned
<1>1. RefInv => CachedIsOwned
  BY DEF RefInv
<1> QED
  BY <1>1, RefInvHolds, PTL

(***************************************************************************)
(* ServiceControl for any clients and any number of lives: a gRPC server   *)
(* ends with its service and a start has the service to itself, as long as *)
(* calls are orderly; a service that lives is served if the ports are tidy. *)
(***************************************************************************)

\* The service is alive, and is not being destroyed.
Lives == where["main"] # "none" /\ ~destroying

\* A call has a service; the main thread has the last one.
ClientsPlaced == \A c \in Clients : where[c] # "idle" => svc[c] # 0
MainPlaced == where["main"] # "none" => svc["main"] = instance /\ instance # 0

\* Where the main thread is while it destroys a service.
DestroyingPlaced ==
  /\ destroying => where["main"] \in {"stop test", "stop get", "stop", "clear"}
  /\ where["main"] = "clear" => destroying

PlacesInv == ClientsPlaced /\ MainPlaced /\ DestroyingPlaced

\* The port is held by the gRPC server that got it.
ServerInv ==
  /\ \A s \in Services : s > instance => grpcServer[s] = "none"
  /\ \A s \in Services : grpcServer[s] = "listening" => port = s
  /\ port # 0 => grpcServer[port] \in {"listening", "started"}

\* With orderly callers a gRPC server ends with its service.
OrderlyServers ==
  /\ \A s \in Services :
       grpcServer[s] \in {"starting", "listening"} => s = instance /\ Lives
  /\ port # 0 => port = instance /\ Lives

\* A start that is under way has the service that lives and its streamer to itself.
StartIsOrderly(c) ==
  /\ svc[c] = instance /\ Lives /\ ~TakingDown
  /\ activeMode[instance] = CAMERA2_HWENC
  /\ mCamera2Streamer[instance] = 0 => Starting = {c}
  /\ where[c] = "create" => mCamera2Streamer[instance] = 0
  /\ where[c] \in {"get", "start"} => mCamera2Streamer[instance] # 0
  /\ where[c] = "start" => target[c] = mCamera2Streamer[instance]

OrderlyStarts == \A c \in Starting : StartIsOrderly(c)

\* A stop by the main thread leaves no stream.
OrderlyStops ==
  /\ where["main"] = "stop" => target["main"] = mCamera2Streamer[instance]
  /\ where["main"] \in {"set mode", "clear"} => up = 0

OrderlyInv ==
  orderly => OrderlyServers /\ OrderlyStarts /\ OrderlyStops /\ StreamsAreReachable

ServiceInv ==
  ServiceTypeOK /\ PlacesInv /\ ServerInv /\ LiveServiceIsServed /\ OrderlyInv
-----------------------------------------------------------------------------
(* Types.                                                                   *)

Wheres == {"none", "ready", "serve", "idle", "test", "create", "get", "start",
           "stop test", "stop get", "stop", "set mode", "clear"}

\* ServiceTypeOK in the parts that the provers take one at a time.
FlagsOK == destroying \in BOOLEAN /\ orderly \in BOOLEAN /\ tidy \in BOOLEAN

PlacesOK ==
  /\ instance \in 0 .. MaxServices /\ created \in 0 .. MaxStreamers
  /\ where \in [Actors -> Wheres]
  /\ svc \in [Actors -> 0 .. instance] /\ target \in [Actors -> 0 .. created]

ServersOK ==
  /\ activeMode \in [Services -> {CAMERA, CAMERA2_HWENC}]
  /\ mCamera2Streamer \in [Services -> 0 .. created]
  /\ grpcServer \in [Services -> {"none", "starting", "listening", "started", "failed"}]
  /\ port \in 0 .. instance /\ up \in 0 .. created

LEMMA ServiceParts == ServiceTypeOK <=> FlagsOK /\ PlacesOK /\ ServersOK
  BY Zenon DEF ServiceTypeOK, FlagsOK, PlacesOK, ServersOK, Wheres

LEMMA ServicePartsPrime == FlagsOK' /\ PlacesOK' /\ ServersOK' => ServiceTypeOK'
  BY Zenon DEF ServiceTypeOK, FlagsOK, PlacesOK, ServersOK, Wheres

LEMMA ConstantsAreNat ==
  /\ MaxServices \in Nat /\ MaxStreamers \in Nat
  /\ \A c \in Clients : c \in Actors /\ c # "main"
  /\ "main" \in Actors
  BY ServiceAssumption DEF ServiceAssumption, Actors

\* A thread goes on, and the others stay where they are.
LEMMA StepsMoves ==
  ASSUME PlacesOK, NEW t \in Actors, NEW from, NEW to \in Wheres, Steps(t, from, to)
  PROVE  /\ where[t] = from /\ where' \in [Actors -> Wheres] /\ where'[t] = to
         /\ svc' \in [Actors -> 0 .. instance]
         /\ svc'[t] = IF to = "idle" THEN 0 ELSE svc[t]
         /\ \A u \in Actors : u # t => where'[u] = where[u] /\ svc'[u] = svc[u]
<1>1. /\ where \in [Actors -> Wheres] /\ svc \in [Actors -> 0 .. instance]
      /\ 0 \in 0 .. instance
  BY DEF PlacesOK
<1>2. where[t] = from /\ where' = [where EXCEPT ![t] = to]
  BY DEF Steps
<1>3. svc' = IF to = "idle" THEN [svc EXCEPT ![t] = 0] ELSE svc
  BY DEF Steps
<1> QED
  BY <1>1, <1>2, <1>3

\* Where camera2Stop goes on.
LEMMA GoesOnIn ==
  \A t \in Actors : GoesOn(t) \in Wheres /\ GoesOn(t) \in {"idle", "clear", "set mode"}
  BY DEF GoesOn, Wheres

LEMMA FlagsStay == FlagsOK /\ [ServiceNext]_serviceVars => FlagsOK'
<1> SUFFICES ASSUME FlagsOK, [ServiceNext]_serviceVars PROVE FlagsOK'
  OBVIOUS
<1> USE Booleans DEF FlagsOK, assumed
<1>1. CASE OnCreate \/ SetMode \/ Serve \/ OnDestroy \/ OnDestroyEnds \/ StreamFails
  BY <1>1 DEF OnCreate, SetMode, Serve, OnDestroy, OnDestroyEnds, StreamFails
<1>2. ASSUME NEW toCamera \in BOOLEAN, OnStartCommand(toCamera) PROVE FlagsOK'
  BY <1>2 DEF OnStartCommand
<1>3. ASSUME NEW s \in Services, GrpcBinds(s) \/ GrpcStarted(s) PROVE FlagsOK'
  BY <1>3 DEF GrpcBinds, GrpcStarted
<1>4. ASSUME NEW c \in Clients,
             \/ StreamoutStart(c) \/ StreamoutStop(c) \/ TestStreamer(c) \/ CreateStreamer(c)
             \/ GetStreamer(c) \/ StartStreamer(c)
      PROVE  FlagsOK'
  BY <1>4 DEF StreamoutStart, StreamoutStop, Called, TestStreamer, CreateStreamer,
       GetStreamer, StartStreamer
<1>5. ASSUME NEW t \in Actors, TestForStop(t) \/ GetForStop(t) \/ StopStreamer(t)
      PROVE  FlagsOK'
  BY <1>5 DEF TestForStop, GetForStop, StopStreamer
<1>6. CASE UNCHANGED serviceVars
  BY <1>6 DEF serviceVars
<1> QED
  BY <1>1, <1>2, <1>3, <1>4, <1>5, <1>6 DEF ServiceNext

\* The streamer that a thread finds is one.
LEMMA FoundIn ==
  ASSUME PlacesOK, ServersOK, NEW t \in Actors, svc[t] # 0
  PROVE  Found(t) \in 0 .. created /\ svc[t] \in Services
<1>1. svc[t] \in Services
  BY ConstantsAreNat DEF PlacesOK, Services
<1> QED
  BY <1>1 DEF ServersOK, Found

LEMMA PlacesStay ==
  PlacesOK /\ ServersOK /\ PlacesInv /\ [ServiceNext]_serviceVars => PlacesOK'
<1> SUFFICES ASSUME PlacesOK, ServersOK, PlacesInv, [ServiceNext]_serviceVars PROVE PlacesOK'
  OBVIOUS
<1>0. /\ instance \in 0 .. MaxServices /\ created \in 0 .. MaxStreamers
      /\ where \in [Actors -> Wheres]
      /\ svc \in [Actors -> 0 .. instance] /\ target \in [Actors -> 0 .. created]
  BY DEF PlacesOK
<1>c. /\ MaxServices \in Nat /\ MaxStreamers \in Nat /\ "main" \in Actors
      /\ \A c \in Clients : c \in Actors
  BY ConstantsAreNat
<1>w. {"none", "ready", "serve", "idle", "test", "create", "get", "start",
           "stop test", "stop get", "stop", "set mode", "clear"} \subseteq Wheres
  BY DEF Wheres
<1>1. CASE OnCreate
  <2>1. /\ instance' = instance + 1 /\ instance' \in 0 .. MaxServices
        /\ where' = [where EXCEPT !["main"] = "ready"] /\ svc' = [svc EXCEPT !["main"] = instance']
        /\ created' = created /\ target' = target
    BY <1>0, <1>c, <1>1 DEF OnCreate
  <2>2. svc' \in [Actors -> 0 .. instance']
    <3>1. 0 .. instance \subseteq 0 .. instance' /\ instance' \in 0 .. instance'
      BY <1>0, <1>c, <2>1
    <3>2. svc \in [Actors -> 0 .. instance']
      BY <1>0, <3>1
    <3> QED
      BY <2>1, <3>1, <3>2
  <2>3. where' \in [Actors -> Wheres]
    BY <1>0, <1>w, <2>1
  <2> QED
    BY <1>0, <2>1, <2>2, <2>3 DEF PlacesOK
<1>2. ASSUME NEW t \in Actors, NEW from, NEW to \in Wheres, Steps(t, from, to),
             instance' = instance, created' \in created .. MaxStreamers,
             target' \in [Actors -> 0 .. created]
      PROVE  PlacesOK'
  <2>1. where' \in [Actors -> Wheres] /\ svc' \in [Actors -> 0 .. instance]
    BY <1>2, StepsMoves
  <2> QED
    BY <1>0, <1>c, <1>2, <2>1 DEF PlacesOK
<1>3. created \in created .. MaxStreamers
  BY <1>0, <1>c
<1>4. CASE SetMode \/ Serve \/ OnDestroy \/ OnDestroyEnds
  <2>1. \E from, to \in Wheres : Steps("main", from, to)
    BY <1>w, <1>4 DEF SetMode, Serve, OnDestroy, OnDestroyEnds
  <2>2. instance' = instance /\ created' = created /\ target' = target
    BY <1>4 DEF SetMode, Serve, OnDestroy, OnDestroyEnds, ofThreads
  <2> QED
    BY <1>0, <1>c, <1>2, <1>3, <2>1, <2>2
<1>5. ASSUME NEW toCamera \in BOOLEAN, OnStartCommand(toCamera) PROVE PlacesOK'
  <2>1. \E to \in Wheres : Steps("main", "ready", to)
    BY <1>w, <1>5 DEF OnStartCommand
  <2>2. instance' = instance /\ created' = created /\ target' = target
    BY <1>5 DEF OnStartCommand
  <2> QED
    BY <1>0, <1>c, <1>2, <1>3, <2>1, <2>2
<1>6. CASE StreamFails \/ (\E s \in Services : GrpcBinds(s) \/ GrpcStarted(s))
  BY <1>0, <1>6 DEF StreamFails, GrpcBinds, GrpcStarted, ofThreads, PlacesOK
<1>7. ASSUME NEW c \in Clients, NEW first \in Wheres, Called(c, first) PROVE PlacesOK'
  <2>1. /\ where' = [where EXCEPT ![c] = first] /\ svc' = [svc EXCEPT ![c] = instance]
        /\ instance' = instance /\ created' = created /\ target' = target
    BY <1>7 DEF Called
  <2>2. where' \in [Actors -> Wheres] /\ svc' \in [Actors -> 0 .. instance]
    BY <1>0, <1>c, <1>7, <2>1
  <2> QED
    BY <1>0, <2>1, <2>2 DEF PlacesOK
<1>8. ASSUME NEW c \in Clients, StreamoutStart(c) \/ StreamoutStop(c) PROVE PlacesOK'
  BY <1>7, <1>8, <1>w DEF StreamoutStart, StreamoutStop
<1>9. ASSUME NEW c \in Clients, TestStreamer(c) PROVE PlacesOK'
  <2>1. \E to \in Wheres : Steps(c, "test", to)
    BY <1>w, <1>9 DEF TestStreamer
  <2>2. instance' = instance /\ created' = created /\ target' = target
    BY <1>9 DEF TestStreamer
  <2> QED
    BY <1>0, <1>c, <1>2, <1>3, <2>1, <2>2
<1>10. ASSUME NEW c \in Clients, CreateStreamer(c) PROVE PlacesOK'
  <2>1. Steps(c, "create", "get") /\ "get" \in Wheres
    BY <1>w, <1>10 DEF CreateStreamer
  <2>2. /\ instance' = instance /\ target' = target
        /\ created' \in created .. MaxStreamers
    BY <1>0, <1>c, <1>10 DEF CreateStreamer
  <2> QED
    BY <1>0, <1>c, <1>2, <2>1, <2>2
<1>11. ASSUME NEW t \in Actors, NEW from, from # "idle" /\ from # "none",
              NEW to \in Wheres, Steps(t, from, to),
              target' = [target EXCEPT ![t] = Found(t)] \/ target' = [target EXCEPT ![t] = 0],
              instance' = instance /\ created' = created
       PROVE  PlacesOK'
  <2>1. where[t] = from
    BY <1>11 DEF Steps
  <2>2. svc[t] # 0
    BY <1>11, <2>1, ConstantsAreNat DEF PlacesInv, ClientsPlaced, MainPlaced, Actors
  <2>3. Found(t) \in 0 .. created
    BY <2>2, FoundIn
  <2>4. 0 \in 0 .. created
    BY <1>0
  <2>5. target' \in [Actors -> 0 .. created]
    <3> HIDE DEF Found
    <3> QED
      BY <1>0, <1>11, <2>3, <2>4
  <2> QED
    BY <1>2, <1>3, <1>11, <2>5
<1>12. ASSUME NEW c \in Clients, GetStreamer(c) \/ StartStreamer(c) PROVE PlacesOK'
  <2>1. CASE GetStreamer(c)
    <3>1. \E to \in Wheres : Steps(c, "get", to)
      BY <1>w, <2>1 DEF GetStreamer
    <3>2. target' = [target EXCEPT ![c] = Found(c)] /\ instance' = instance /\ created' = created
      BY <2>1 DEF GetStreamer
    <3> QED
      BY <1>c, <1>11, <3>1, <3>2
  <2>2. CASE StartStreamer(c)
    <3>1. Steps(c, "start", "idle") /\ "idle" \in Wheres
      BY <1>w, <2>2 DEF StartStreamer
    <3>2. target' = [target EXCEPT ![c] = 0] /\ instance' = instance /\ created' = created
      BY <2>2 DEF StartStreamer
    <3> QED
      BY <1>c, <1>11, <3>1, <3>2
  <2> QED
    BY <1>12, <2>1, <2>2
<1>13. ASSUME NEW t \in Actors, TestForStop(t) PROVE PlacesOK'
  <2>1. \E to \in Wheres : Steps(t, "stop test", to)
    BY <1>w, <1>13, GoesOnIn DEF TestForStop
  <2>2. instance' = instance /\ created' = created /\ target' = target
    BY <1>13 DEF TestForStop
  <2> QED
    BY <1>0, <1>2, <1>3, <2>1, <2>2
<1>14. ASSUME NEW t \in Actors, GetForStop(t) \/ StopStreamer(t) PROVE PlacesOK'
  <2>1. CASE GetForStop(t)
    <3>1. \E to \in Wheres : Steps(t, "stop get", to)
      BY <1>w, <2>1, GoesOnIn DEF GetForStop
    <3>2. target' = [target EXCEPT ![t] = Found(t)] /\ instance' = instance /\ created' = created
      BY <2>1 DEF GetForStop
    <3> QED
      BY <1>11, <3>1, <3>2
  <2>2. CASE StopStreamer(t)
    <3>1. \E to \in Wheres : Steps(t, "stop", to)
      BY <1>w, <2>2, GoesOnIn DEF StopStreamer
    <3>2. target' = [target EXCEPT ![t] = 0] /\ instance' = instance /\ created' = created
      BY <2>2 DEF StopStreamer
    <3> QED
      BY <1>11, <3>1, <3>2
  <2> QED
    BY <1>14, <2>1, <2>2
<1>15. CASE UNCHANGED serviceVars
  BY <1>0, <1>15 DEF serviceVars, ofThreads, PlacesOK
<1> QED
  BY <1>1, <1>4, <1>5, <1>6, <1>8, <1>9, <1>10, <1>12, <1>13, <1>14, <1>15 DEF ServiceNext

LEMMA ServersStay ==
  PlacesOK /\ ServersOK /\ ServerInv /\ [ServiceNext]_serviceVars => ServersOK'
<1> SUFFICES ASSUME PlacesOK, ServersOK, ServerInv, [ServiceNext]_serviceVars PROVE ServersOK'
  OBVIOUS
<1>0. /\ activeMode \in [Services -> {CAMERA, CAMERA2_HWENC}]
      /\ mCamera2Streamer \in [Services -> 0 .. created]
      /\ grpcServer \in [Services -> {"none", "starting", "listening", "started", "failed"}]
      /\ port \in 0 .. instance /\ up \in 0 .. created
      /\ 0 \in 0 .. instance /\ 0 \in 0 .. created
      /\ instance \in Nat /\ created \in Nat /\ target \in [Actors -> 0 .. created]
  BY DEF PlacesOK, ServersOK
<1>1. CASE OnCreate
  <2>1. /\ instance' = instance + 1 /\ UNCHANGED <<activeMode, mCamera2Streamer>>
        /\ UNCHANGED <<grpcServer, port, created, up>>
    BY <1>1 DEF OnCreate, fields
  <2> QED
    BY <1>0, <2>1 DEF ServersOK
<1>2. CASE SetMode
  <2>1. activeMode' \in [Services -> {CAMERA, CAMERA2_HWENC}]
    BY <1>0, <1>2 DEF SetMode
  <2> QED
    BY <1>0, <1>2, <2>1 DEF SetMode, ServersOK
<1>3. CASE Serve
  <2>1. grpcServer' \in [Services -> {"none", "starting", "listening", "started", "failed"}]
    BY <1>0, <1>3 DEF Serve
  <2> QED
    BY <1>0, <1>3, <2>1 DEF Serve, fields, ServersOK
<1>4. CASE OnDestroy
  BY <1>0, <1>4 DEF OnDestroy, fields, ServersOK
<1>5. CASE OnDestroyEnds
  <2>1. mCamera2Streamer' \in [Services -> 0 .. created]
    BY <1>0, <1>5 DEF OnDestroyEnds
  <2> QED
    BY <1>0, <1>5, <2>1 DEF OnDestroyEnds, ServersOK
<1>6. CASE StreamFails
  BY <1>0, <1>6 DEF StreamFails, fields, ServersOK
<1>7. ASSUME NEW s \in Services, GrpcBinds(s) \/ GrpcStarted(s) PROVE ServersOK'
  <2>1. grpcServer' \in [Services -> {"none", "starting", "listening", "started", "failed"}]
    BY <1>0, <1>7 DEF GrpcBinds, GrpcStarted
  <2>2. port' = port \/ (port' = s /\ grpcServer[s] = "starting")
    BY <1>7 DEF GrpcBinds, GrpcStarted
  <2>3. s \in Nat \ {0}
    BY ConstantsAreNat DEF Services
  <2>4. port' \in 0 .. instance
    BY <1>0, <2>2, <2>3 DEF ServerInv
  <2> QED
    BY <1>0, <1>7, <2>1, <2>4 DEF GrpcBinds, GrpcStarted, fields, ServersOK
<1>8. ASSUME NEW c \in Clients, StreamoutStart(c) \/ StreamoutStop(c) PROVE ServersOK'
  BY <1>0, <1>8 DEF StreamoutStart, StreamoutStop, Called, fields, ServersOK
<1>9. ASSUME NEW c \in Clients, TestStreamer(c) \/ GetStreamer(c) PROVE ServersOK'
  BY <1>0, <1>9 DEF TestStreamer, GetStreamer, fields, ServersOK
<1>10. ASSUME NEW c \in Clients, CreateStreamer(c) PROVE ServersOK'
  <2>1. /\ created' = created + 1
        /\ mCamera2Streamer' = [mCamera2Streamer EXCEPT ![svc[c]] = created']
        /\ UNCHANGED <<instance, activeMode, grpcServer, port, up>>
    BY <1>10 DEF CreateStreamer
  <2>2. 0 .. created \subseteq 0 .. created' /\ created' \in 0 .. created'
    BY <1>0, <2>1
  <2>3. mCamera2Streamer \in [Services -> 0 .. created']
    BY <1>0, <2>2
  <2>4. mCamera2Streamer' \in [Services -> 0 .. created']
    BY <2>1, <2>2, <2>3
  <2> QED
    BY <1>0, <2>1, <2>2, <2>4 DEF ServersOK
<1>11. ASSUME NEW c \in Clients, StartStreamer(c) PROVE ServersOK'
  <2>1. target[c] \in 0 .. created
    BY <1>0, ConstantsAreNat
  <2>2. up' \in 0 .. created
    BY <1>0, <1>11, <2>1 DEF StartStreamer
  <2> QED
    BY <1>0, <1>11, <2>2 DEF StartStreamer, fields, ServersOK
<1>12. ASSUME NEW t \in Actors, TestForStop(t) \/ GetForStop(t) \/ StopStreamer(t)
       PROVE  ServersOK'
  <2>1. up' \in 0 .. created
    BY <1>0, <1>12 DEF TestForStop, GetForStop, StopStreamer
  <2> QED
    BY <1>0, <1>12, <2>1 DEF TestForStop, GetForStop, StopStreamer, fields, ServersOK
<1>13. ASSUME NEW toCamera \in BOOLEAN, OnStartCommand(toCamera) PROVE ServersOK'
  BY <1>0, <1>13 DEF OnStartCommand, fields, ServersOK
<1>14. CASE UNCHANGED serviceVars
  BY <1>0, <1>14 DEF serviceVars, fields, ServersOK
<1> QED
  BY <1>1, <1>2, <1>3, <1>4, <1>5, <1>6, <1>7, <1>8, <1>9, <1>10, <1>11, <1>12, <1>13, <1>14
     DEF ServiceNext

-----------------------------------------------------------------------------
(* The gRPC servers and the port.                                           *)

LEMMA ServerStays ==
  PlacesOK /\ ServersOK /\ PlacesInv /\ ServerInv /\ [ServiceNext]_serviceVars => ServerInv'
<1> SUFFICES ASSUME PlacesOK, ServersOK, PlacesInv, ServerInv, [ServiceNext]_serviceVars
             PROVE  ServerInv'
  OBVIOUS
<1>0. /\ grpcServer \in [Services -> {"none", "starting", "listening", "started", "failed"}]
      /\ port \in 0 .. instance /\ instance \in 0 .. MaxServices
      /\ \A s \in Services : s \in Nat \ {0}
      /\ \A n \in 1 .. instance : n \in Services
  BY ConstantsAreNat DEF PlacesOK, ServersOK, Services
<1> USE DEF ServerInv
<1>1. CASE OnCreate
  <2>1. instance' = instance + 1 /\ UNCHANGED <<grpcServer, port>>
    BY <1>1 DEF OnCreate
  <2> QED
    BY <1>0, <2>1
<1>2. CASE Serve
  <2>1. where["main"] = "serve" /\ UNCHANGED <<instance, port>>
    BY <1>2 DEF Serve, Steps
  <2>2. instance \in Services
    BY <1>0, <2>1 DEF PlacesInv, ClientsPlaced, MainPlaced
  <2>3. \/ grpcServer' = grpcServer
        \/ /\ grpcServer[instance] = "none"
           /\ grpcServer' = [grpcServer EXCEPT ![instance] = "starting"]
    BY <1>2 DEF Serve
  <2> QED
    BY <1>0, <2>1, <2>2, <2>3
<1>3. CASE OnDestroy
  <2>1. UNCHANGED <<instance, grpcServer>>
    BY <1>3 DEF OnDestroy
  <2>2. port' = port \/ (port' = 0 /\ grpcServer[port] = "started")
    BY <1>3 DEF OnDestroy
  <2> QED
    BY <1>0, <2>1, <2>2
<1>4. ASSUME NEW s \in Services, GrpcBinds(s) PROVE ServerInv'
  <2>1. grpcServer[s] = "starting" /\ instance' = instance
    BY <1>4 DEF GrpcBinds
  <2>2. CASE /\ port = 0 /\ port' = s
             /\ grpcServer' = [grpcServer EXCEPT ![s] = "listening"]
    BY <1>0, <2>1, <2>2
  <2>3. CASE port' = port /\ grpcServer' = [grpcServer EXCEPT ![s] = "failed"]
    BY <1>0, <2>1, <2>3
  <2> QED
    BY <1>4, <2>2, <2>3 DEF GrpcBinds
<1>5. ASSUME NEW s \in Services, GrpcStarted(s) PROVE ServerInv'
  <2>1. /\ grpcServer[s] = "listening" /\ UNCHANGED <<instance, port>>
        /\ grpcServer' = [grpcServer EXCEPT ![s] = "started"]
    BY <1>5 DEF GrpcStarted
  <2> QED
    BY <1>0, <2>1
<1>6. ASSUME UNCHANGED <<instance, grpcServer, port>> PROVE ServerInv'
  BY <1>6
<1>7. CASE SetMode \/ OnDestroyEnds \/ StreamFails \/ UNCHANGED serviceVars
  BY <1>6, <1>7 DEF SetMode, OnDestroyEnds, StreamFails, serviceVars
<1>8. ASSUME NEW toCamera \in BOOLEAN, OnStartCommand(toCamera) PROVE ServerInv'
  BY <1>6, <1>8 DEF OnStartCommand
<1>9. ASSUME NEW c \in Clients,
             \/ StreamoutStart(c) \/ StreamoutStop(c) \/ TestStreamer(c) \/ CreateStreamer(c)
             \/ GetStreamer(c) \/ StartStreamer(c)
      PROVE  ServerInv'
  BY <1>6, <1>9 DEF StreamoutStart, StreamoutStop, Called, TestStreamer, CreateStreamer,
       GetStreamer, StartStreamer
<1>10. ASSUME NEW t \in Actors, TestForStop(t) \/ GetForStop(t) \/ StopStreamer(t)
       PROVE  ServerInv'
  BY <1>6, <1>10 DEF TestForStop, GetForStop, StopStreamer
<1> QED
  BY <1>1, <1>2, <1>3, <1>4, <1>5, <1>7, <1>8, <1>9, <1>10 DEF ServiceNext

\* Calls keep their service, and the main thread its own.
LEMMA ThreadsPlaced ==
  PlacesOK /\ ServersOK /\ ClientsPlaced /\ MainPlaced /\ [ServiceNext]_serviceVars
  => ClientsPlaced' /\ MainPlaced'
<1> DEFINE Goal == ClientsPlaced' /\ MainPlaced'
<1> SUFFICES ASSUME PlacesOK, ServersOK, ClientsPlaced, MainPlaced, [ServiceNext]_serviceVars
             PROVE  Goal
  OBVIOUS
<1>0. /\ where \in [Actors -> Wheres] /\ svc \in [Actors -> 0 .. instance]
      /\ instance \in Nat /\ port \in 0 .. instance
  BY DEF PlacesOK, ServersOK
<1>c. "main" \in Actors /\ \A c \in Clients : c \in Actors /\ c # "main"
  BY ConstantsAreNat
<1>w. {"none", "ready", "serve", "idle", "test", "create", "get", "start",
           "stop test", "stop get", "stop", "set mode", "clear"} \subseteq Wheres
  BY DEF Wheres
<1>1. CASE OnCreate
  <2>1. /\ instance' = instance + 1
        /\ where' = [where EXCEPT !["main"] = "ready"] /\ svc' = [svc EXCEPT !["main"] = instance']
    BY <1>1 DEF OnCreate
  <2>2. /\ where'["main"] = "ready" /\ svc'["main"] = instance'
        /\ \A c \in Clients : where'[c] = where[c] /\ svc'[c] = svc[c]
    BY <1>0, <1>c, <2>1
  <2> QED
    BY <1>0, <2>1, <2>2 DEF ClientsPlaced, MainPlaced
\* A thread goes on, the main thread not from "none" and never to "idle".
<1>2. ASSUME NEW t \in Actors, NEW from, from # "idle" /\ from # "none",
             NEW to \in Wheres, t = "main" => to # "idle", Steps(t, from, to),
             instance' = instance
      PROVE  Goal
  <2>1. /\ where[t] = from /\ where'[t] = to /\ (to # "idle" => svc'[t] = svc[t])
        /\ \A u \in Actors : u # t => where'[u] = where[u] /\ svc'[u] = svc[u]
    BY <1>2, StepsMoves
  <2>2. ClientsPlaced'
    BY <1>2, <1>c, <2>1 DEF ClientsPlaced
  <2>3. MainPlaced'
    BY <1>2, <1>c, <2>1 DEF MainPlaced
  <2> QED
    BY <2>2, <2>3
<1>3. CASE SetMode \/ Serve \/ OnDestroy \/ OnDestroyEnds
  <2>1. \E from \in Wheres \ {"idle", "none"}, to \in Wheres \ {"idle"} : Steps("main", from, to)
    BY <1>w, <1>3 DEF SetMode, Serve, OnDestroy, OnDestroyEnds
  <2>2. instance' = instance
    BY <1>3 DEF SetMode, Serve, OnDestroy, OnDestroyEnds
  <2> HIDE DEF Goal
  <2> QED
    BY <1>2, <1>c, <2>1, <2>2
<1>4. ASSUME NEW toCamera \in BOOLEAN, OnStartCommand(toCamera) PROVE Goal
  <2>1. \E to \in Wheres \ {"idle"} : Steps("main", "ready", to)
    BY <1>w, <1>4 DEF OnStartCommand
  <2>2. instance' = instance
    BY <1>4 DEF OnStartCommand
  <2> HIDE DEF Goal
  <2> QED
    BY <1>2, <1>c, <1>w, <2>1, <2>2
<1>5. CASE StreamFails \/ (\E s \in Services : GrpcBinds(s) \/ GrpcStarted(s))
  BY <1>5 DEF StreamFails, GrpcBinds, GrpcStarted, ofThreads, ClientsPlaced, MainPlaced
<1>6. ASSUME NEW c \in Clients, StreamoutStart(c) \/ StreamoutStop(c) PROVE Goal
  <2>1. \E first \in {"test", "stop test"} : where' = [where EXCEPT ![c] = first]
    BY <1>6 DEF StreamoutStart, StreamoutStop, Called
  <2>2. /\ svc' = [svc EXCEPT ![c] = instance]
        /\ instance' = instance
    BY <1>6 DEF StreamoutStart, StreamoutStop, Called
  <2>p. port # 0
    BY <1>6 DEF StreamoutStart, StreamoutStop, Called
  <2>n. instance # 0
    BY <1>0, <2>p
  <2>3. /\ svc'[c] = instance
        /\ \A u \in Actors : u # c => where'[u] = where[u] /\ svc'[u] = svc[u]
    BY <1>0, <1>c, <2>1, <2>2
  <2>4. ClientsPlaced'
    BY <1>c, <2>2, <2>3, <2>n DEF ClientsPlaced
  <2>5. MainPlaced'
    BY <1>c, <2>2, <2>3, <2>n DEF MainPlaced
  <2> QED
    BY <2>4, <2>5
<1>7. ASSUME NEW c \in Clients,
              TestStreamer(c) \/ CreateStreamer(c) \/ GetStreamer(c) \/ StartStreamer(c)
       PROVE  Goal
  <2>1. \E from \in Wheres \ {"idle", "none"}, to \in Wheres : Steps(c, from, to)
    BY <1>w, <1>7 DEF TestStreamer, CreateStreamer, GetStreamer, StartStreamer
  <2>2. instance' = instance
    BY <1>7 DEF TestStreamer, CreateStreamer, GetStreamer, StartStreamer
  <2> HIDE DEF Goal
  <2> QED
    BY <1>2, <1>c, <2>1, <2>2
<1>8. ASSUME NEW t \in Actors, TestForStop(t) \/ GetForStop(t) \/ StopStreamer(t)
       PROVE  Goal
  <2>1. PICK from \in {"stop test", "stop get", "stop"}, to \in {"stop get", "stop", GoesOn(t)} :
          Steps(t, from, to)
    BY <1>8 DEF TestForStop, GetForStop, StopStreamer
  <2>2. instance' = instance
    BY <1>8 DEF TestForStop, GetForStop, StopStreamer
  <2>3. GoesOn(t) \in Wheres /\ (t = "main" => GoesOn(t) # "idle")
    BY GoesOnIn DEF GoesOn
  <2>4. to \in Wheres /\ (t = "main" => to # "idle")
    BY <1>w, <2>1, <2>3
  <2> HIDE DEF Goal
  <2> QED
    BY <1>2, <2>1, <2>2, <2>4
<1>9. CASE UNCHANGED serviceVars
  BY <1>9 DEF serviceVars, ofThreads, ClientsPlaced, MainPlaced
<1> QED
  BY <1>1, <1>3, <1>4, <1>5, <1>6, <1>7, <1>8, <1>9 DEF ServiceNext

\* Where the main thread is by then, and whether it destroys its service: nobody else
\* moves it.
LEMMA DestroyingStaysPlaced ==
  PlacesOK /\ DestroyingPlaced /\ [ServiceNext]_serviceVars => DestroyingPlaced'
<1> SUFFICES ASSUME PlacesOK, DestroyingPlaced, [ServiceNext]_serviceVars PROVE DestroyingPlaced'
  OBVIOUS
<1>0. where \in [Actors -> Wheres] /\ "main" \in Actors
      /\ \A c \in Clients : c \in Actors /\ c # "main"
  BY ConstantsAreNat DEF PlacesOK
<1>1. ASSUME where'["main"] = where["main"], destroying' = destroying PROVE DestroyingPlaced'
  BY <1>1 DEF DestroyingPlaced
<1>2. ASSUME where["main"] \notin {"stop test", "stop get", "stop", "clear"},
             where'["main"] # "clear", destroying' = destroying
      PROVE  DestroyingPlaced'
  BY <1>2 DEF DestroyingPlaced
<1>3. CASE SetMode \/ Serve \/ OnCreate
  <2>1. /\ where["main"] \notin {"stop test", "stop get", "stop", "clear"}
        /\ where'["main"] # "clear"
    BY <1>0, <1>3 DEF SetMode, Serve, OnCreate, Steps
  <2>2. destroying' = destroying
    BY <1>3 DEF SetMode, Serve, OnCreate
  <2> QED
    BY <1>2, <2>1, <2>2
<1>4. CASE OnDestroyEnds
  <2>1. where'["main"] = "none"
    BY <1>0, <1>4 DEF OnDestroyEnds, Steps
  <2>2. destroying' = FALSE
    BY <1>4 DEF OnDestroyEnds
  <2> QED
    BY <2>1, <2>2 DEF DestroyingPlaced
<1>5. CASE OnDestroy
  <2>1. where'["main"] = "stop test"
    BY <1>0, <1>5 DEF OnDestroy, Steps
  <2> QED
    BY <2>1 DEF DestroyingPlaced
<1>6. ASSUME NEW toCamera \in BOOLEAN, OnStartCommand(toCamera) PROVE DestroyingPlaced'
  <2>1. where["main"] = "ready"
    BY <1>6 DEF OnStartCommand, Steps
  <2>2. \E to \in {"stop test", "set mode", "serve"} : where' = [where EXCEPT !["main"] = to]
    BY <1>6 DEF OnStartCommand, Steps
  <2>3. where'["main"] # "clear"
    BY <1>0, <2>2
  <2>4. destroying' = destroying
    BY <1>6 DEF OnStartCommand
  <2> QED
    BY <1>2, <2>1, <2>3, <2>4
<1>7. CASE StreamFails \/ (\E s \in Services : GrpcBinds(s) \/ GrpcStarted(s))
  <2>1. where' = where
    BY <1>7 DEF StreamFails, GrpcBinds, GrpcStarted, ofThreads
  <2>2. destroying' = destroying
    BY <1>7 DEF StreamFails, GrpcBinds, GrpcStarted
  <2> QED
    BY <1>1, <2>1, <2>2
<1>8. ASSUME NEW c \in Clients,
             \/ StreamoutStart(c) \/ StreamoutStop(c) \/ TestStreamer(c) \/ CreateStreamer(c)
             \/ GetStreamer(c) \/ StartStreamer(c)
      PROVE  DestroyingPlaced'
  <2>1. \E to : where' = [where EXCEPT ![c] = to]
    BY <1>8 DEF StreamoutStart, StreamoutStop, Called, TestStreamer, CreateStreamer,
         GetStreamer, StartStreamer, Steps
  <2>2. where'["main"] = where["main"]
    BY <1>0, <2>1
  <2>3. destroying' = destroying
    BY <1>8 DEF StreamoutStart, StreamoutStop, Called, TestStreamer, CreateStreamer,
         GetStreamer, StartStreamer
  <2> QED
    BY <1>1, <2>2, <2>3
<1>9. ASSUME NEW t \in Actors, TestForStop(t) \/ GetForStop(t) \/ StopStreamer(t)
      PROVE  DestroyingPlaced'
  <2>1. PICK to \in {"stop get", "stop", GoesOn(t)} : where' = [where EXCEPT ![t] = to]
    BY <1>9 DEF TestForStop, GetForStop, StopStreamer, Steps
  <2>2. destroying' = destroying
    BY <1>9 DEF TestForStop, GetForStop, StopStreamer
  <2>3. CASE t # "main"
    <3>1. where'["main"] = where["main"]
      BY <1>0, <2>1, <2>3
    <3> QED
      BY <1>1, <2>2, <3>1
  <2>4. CASE t = "main"
    <3>1. where'["main"] = to
      BY <1>0, <2>1, <2>4
    <3>2. CASE to \in {"stop get", "stop"}
      BY <3>1, <3>2 DEF DestroyingPlaced
    <3>3. CASE to = GoesOn("main") /\ destroying
      <4>1. to = "clear"
        BY <3>3 DEF GoesOn
      <4> QED
        BY <2>2, <3>1, <3>3, <4>1 DEF DestroyingPlaced
    <3>4. CASE to = GoesOn("main") /\ ~destroying
      <4>1. to = "set mode"
        BY <3>4 DEF GoesOn
      <4> QED
        BY <2>2, <3>1, <3>4, <4>1 DEF DestroyingPlaced
    <3> QED
      BY <2>1, <2>4, <3>2, <3>3, <3>4
  <2> QED
    BY <2>3, <2>4
<1>10. CASE UNCHANGED serviceVars
  <2>1. where' = where
    BY <1>10 DEF serviceVars, ofThreads
  <2>2. destroying' = destroying
    BY <1>10 DEF serviceVars
  <2> QED
    BY <1>1, <2>1, <2>2
<1> QED
  BY <1>3, <1>4, <1>5, <1>6, <1>7, <1>8, <1>9, <1>10 DEF ServiceNext

LEMMA PlacesInvStays ==
  PlacesOK /\ ServersOK /\ PlacesInv /\ [ServiceNext]_serviceVars => PlacesInv'
  BY ThreadsPlaced, DestroyingStaysPlaced DEF PlacesInv

\* What the environment promised stays promised.
LEMMA AssumedStay ==
  FlagsOK /\ [ServiceNext]_serviceVars => orderly' = orderly /\ tidy' = tidy
<1> SUFFICES ASSUME FlagsOK, [ServiceNext]_serviceVars
             PROVE  orderly' = orderly /\ tidy' = tidy
  OBVIOUS
<1> USE DEF assumed
<1>1. CASE OnCreate \/ SetMode \/ Serve \/ OnDestroy \/ OnDestroyEnds \/ StreamFails
  BY <1>1 DEF OnCreate, SetMode, Serve, OnDestroy, OnDestroyEnds, StreamFails
<1>2. ASSUME NEW toCamera \in BOOLEAN, OnStartCommand(toCamera)
      PROVE  orderly' = orderly /\ tidy' = tidy
  BY <1>2 DEF OnStartCommand
<1>3. ASSUME NEW s \in Services, GrpcBinds(s) \/ GrpcStarted(s)
      PROVE  orderly' = orderly /\ tidy' = tidy
  BY <1>3 DEF GrpcBinds, GrpcStarted
<1>4. ASSUME NEW c \in Clients,
             \/ StreamoutStart(c) \/ StreamoutStop(c) \/ TestStreamer(c) \/ CreateStreamer(c)
             \/ GetStreamer(c) \/ StartStreamer(c)
      PROVE  orderly' = orderly /\ tidy' = tidy
  BY <1>4 DEF StreamoutStart, StreamoutStop, Called, TestStreamer, CreateStreamer,
       GetStreamer, StartStreamer
<1>5. ASSUME NEW t \in Actors, TestForStop(t) \/ GetForStop(t) \/ StopStreamer(t)
      PROVE  orderly' = orderly /\ tidy' = tidy
  BY <1>5 DEF TestForStop, GetForStop, StopStreamer
<1>6. CASE UNCHANGED serviceVars
  BY <1>6 DEF serviceVars
<1> QED
  BY <1>1, <1>2, <1>3, <1>4, <1>5, <1>6 DEF ServiceNext

-----------------------------------------------------------------------------
(* What the gRPC servers leave for a service to be called by.               *)

\* A step that has nothing to do with the gRPC servers, nor begins or ends a service.
Quiet ==
  /\ instance' = instance /\ grpcServer' = grpcServer /\ port' = port
  /\ destroying' = destroying
  /\ where["main"] = "none" <=> where'["main"] = "none"

LEMMA QuietServiceSteps ==
  ASSUME PlacesOK, [ServiceNext]_serviceVars
  PROVE  \/ OnCreate \/ Serve \/ OnDestroy \/ OnDestroyEnds
         \/ \E s \in Services : GrpcBinds(s) \/ GrpcStarted(s)
         \/ Quiet
<1>0. /\ where \in [Actors -> Wheres] /\ "main" \in Actors
      /\ \A c \in Clients : c \in Actors /\ c # "main"
  BY ConstantsAreNat DEF PlacesOK
<1>1. CASE SetMode
  <2>1. where["main"] # "none" /\ where'["main"] # "none"
    BY <1>0, <1>1 DEF SetMode, Steps
  <2> QED
    BY <1>1, <2>1 DEF SetMode, Quiet
<1>2. CASE StreamFails \/ UNCHANGED serviceVars
  BY <1>2 DEF StreamFails, serviceVars, ofThreads, Quiet
<1>3. ASSUME NEW toCamera \in BOOLEAN, OnStartCommand(toCamera) PROVE Quiet
  <2>1. where["main"] = "ready"
    BY <1>3 DEF OnStartCommand, Steps
  <2>2. \E to \in {"stop test", "set mode", "serve"} : where' = [where EXCEPT !["main"] = to]
    BY <1>3 DEF OnStartCommand, Steps
  <2>3. where'["main"] # "none"
    BY <1>0, <2>2
  <2> QED
    BY <1>3, <2>1, <2>3 DEF OnStartCommand, Quiet
<1>4. ASSUME NEW c \in Clients,
             \/ StreamoutStart(c) \/ StreamoutStop(c) \/ TestStreamer(c) \/ CreateStreamer(c)
             \/ GetStreamer(c) \/ StartStreamer(c)
      PROVE  Quiet
  <2>1. \E to : where' = [where EXCEPT ![c] = to]
    BY <1>4 DEF StreamoutStart, StreamoutStop, Called, TestStreamer, CreateStreamer,
         GetStreamer, StartStreamer, Steps
  <2>2. where'["main"] = where["main"]
    BY <1>0, <2>1
  <2> QED
    BY <1>4, <2>2 DEF StreamoutStart, StreamoutStop, Called, TestStreamer, CreateStreamer,
         GetStreamer, StartStreamer, Quiet
<1>5. ASSUME NEW t \in Actors, TestForStop(t) \/ GetForStop(t) \/ StopStreamer(t)
      PROVE  Quiet
  <2>1. PICK to \in {"stop get", "stop", GoesOn(t)} : where' = [where EXCEPT ![t] = to]
    BY <1>5 DEF TestForStop, GetForStop, StopStreamer, Steps
  <2>2. where[t] \in {"stop test", "stop get", "stop"}
    BY <1>5 DEF TestForStop, GetForStop, StopStreamer, Steps
  <2>3. to # "none"
    BY <2>1, GoesOnIn
  <2>4. where["main"] = "none" <=> where'["main"] = "none"
    BY <1>0, <2>1, <2>2, <2>3
  <2> QED
    BY <1>5, <2>4 DEF TestForStop, GetForStop, StopStreamer, Quiet
<1> QED
  BY <1>1, <1>2, <1>3, <1>4, <1>5 DEF ServiceNext

LEMMA ServedStays ==
  /\ FlagsOK /\ PlacesOK /\ ServersOK /\ ServerInv /\ LiveServiceIsServed
  /\ [ServiceNext]_serviceVars
  => LiveServiceIsServed'
<1> SUFFICES ASSUME FlagsOK, PlacesOK, ServersOK, ServerInv, LiveServiceIsServed,
                    [ServiceNext]_serviceVars
             PROVE  LiveServiceIsServed'
  OBVIOUS
<1>0. /\ grpcServer \in [Services -> {"none", "starting", "listening", "started", "failed"}]
      /\ instance \in 0 .. MaxServices /\ port \in 0 .. instance
      /\ \A s \in Services : s \in Nat \ {0}
  BY ConstantsAreNat DEF PlacesOK, ServersOK, Services
<1>t. tidy' => tidy
  BY AssumedStay
<1>p. ASSUME port' # 0 PROVE LiveServiceIsServed'
  BY <1>p DEF LiveServiceIsServed
<1>1. CASE OnCreate
  <2>1. instance' = instance + 1 /\ grpcServer' = grpcServer /\ instance < MaxServices
    BY <1>1 DEF OnCreate
  <2>2. instance' \in Services /\ instance' > instance
    BY <1>0, <2>1, ConstantsAreNat DEF Services
  <2>3. grpcServer'[instance'] = "none"
    BY <2>1, <2>2 DEF ServerInv
  <2> QED
    BY <2>3 DEF LiveServiceIsServed
<1>2. CASE Serve
  <2>1. where["main"] # "none" /\ instance' = instance /\ port' = port
    BY <1>2 DEF Serve, Steps
  <2>2. grpcServer'[instance] \in {"started", "failed"} => grpcServer' = grpcServer
    BY <1>0, <1>2 DEF Serve
  <2>3. destroying' = destroying
    BY <1>2 DEF Serve
  <2> QED
    BY <1>t, <2>1, <2>2, <2>3 DEF LiveServiceIsServed
<1>3. CASE OnDestroy
  BY <1>3 DEF OnDestroy, LiveServiceIsServed
<1>4. CASE OnDestroyEnds
  <2>1. where'["main"] = "none"
    BY <1>4, ConstantsAreNat DEF OnDestroyEnds, Steps, PlacesOK
  <2> QED
    BY <2>1 DEF LiveServiceIsServed
<1>5. ASSUME NEW s \in Services, GrpcBinds(s) PROVE LiveServiceIsServed'
  <2>1. CASE port' = s
    BY <1>0, <1>p, <2>1
  <2>2. CASE (tidy => port # 0) /\ port' = port
    BY <1>t, <2>2 DEF LiveServiceIsServed
  <2> QED
    BY <1>5, <2>1, <2>2 DEF GrpcBinds
<1>6. ASSUME NEW s \in Services, GrpcStarted(s) PROVE LiveServiceIsServed'
  <2>1. port = s /\ port' = port
    BY <1>6 DEF GrpcStarted, ServerInv
  <2> QED
    BY <1>0, <1>p, <2>1
<1>7. CASE Quiet
  BY <1>t, <1>7 DEF Quiet, LiveServiceIsServed
<1> QED
  BY <1>1, <1>2, <1>3, <1>4, <1>5, <1>6, <1>7, QuietServiceSteps

\* Whether the service lives changes with its beginning and its end only.
LEMMA LivesStays ==
  /\ Quiet => (Lives' <=> Lives)
  /\ PlacesOK /\ Serve => (Lives' <=> Lives)
  /\ \A s \in Services : GrpcBinds(s) \/ GrpcStarted(s) => (Lives' <=> Lives)
<1>1. ASSUME PlacesOK, Serve PROVE Lives' <=> Lives
  <2>1. where["main"] # "none" /\ where'["main"] # "none"
    BY <1>1, ConstantsAreNat DEF Serve, Steps, PlacesOK
  <2>2. destroying' = destroying
    BY <1>1 DEF Serve
  <2> QED
    BY <2>1, <2>2 DEF Lives
<1>2. ASSUME NEW s \in Services, GrpcBinds(s) \/ GrpcStarted(s) PROVE Lives' <=> Lives
  <2>1. where' = where
    BY <1>2 DEF GrpcBinds, GrpcStarted, ofThreads
  <2>2. destroying' = destroying
    BY <1>2 DEF GrpcBinds, GrpcStarted
  <2> QED
    BY <2>1, <2>2 DEF Lives
<1>3. Quiet => (Lives' <=> Lives)
  BY DEF Quiet, Lives
<1> QED
  BY <1>1, <1>2, <1>3

LEMMA OrderlyServersStay ==
  /\ PlacesOK /\ ServersOK /\ PlacesInv /\ ServerInv /\ orderly /\ OrderlyServers
  /\ [ServiceNext]_serviceVars
  => OrderlyServers'
<1> SUFFICES ASSUME PlacesOK, ServersOK, PlacesInv, ServerInv, orderly, OrderlyServers,
                    [ServiceNext]_serviceVars
             PROVE  OrderlyServers'
  OBVIOUS
<1>0. /\ grpcServer \in [Services -> {"none", "starting", "listening", "started", "failed"}]
      /\ port \in 0 .. instance /\ \A s \in Services : s # 0
      /\ port # 0 => port \in Services
  BY ConstantsAreNat DEF PlacesOK, ServersOK, Services
<1>n. ASSUME ~Lives, grpcServer' = grpcServer, port' = port PROVE OrderlyServers'
  BY <1>n DEF OrderlyServers
<1>1. CASE OnCreate
  <2>1. ~Lives /\ grpcServer' = grpcServer /\ port' = port
    BY <1>1 DEF OnCreate, Lives
  <2> QED
    BY <1>n, <2>1
<1>2. CASE Serve
  <2>1. where["main"] = "serve" /\ instance' = instance /\ port' = port
    BY <1>2 DEF Serve, Steps
  <2>2. Lives
    BY <2>1 DEF Lives, PlacesInv, DestroyingPlaced
  <2>3. Lives'
    BY <1>2, <2>2, LivesStays
  <2>4. \A s \in Services : s # instance => grpcServer'[s] = grpcServer[s]
    BY <1>0, <1>2 DEF Serve
  <2> QED
    BY <2>1, <2>3, <2>4 DEF OrderlyServers
<1>3. CASE OnDestroy
  <2>1. /\ grpcServer[instance] \notin {"starting", "listening"} /\ instance' = instance
        /\ grpcServer' = grpcServer
        /\ port' = IF grpcServer[instance] = "started" /\ port = instance THEN 0 ELSE port
    BY <1>3 DEF OnDestroy
  <2>2. port' = 0
    BY <1>0, <2>1 DEF OrderlyServers, ServerInv
  <2> QED
    BY <2>1, <2>2 DEF OrderlyServers
<1>4. CASE OnDestroyEnds
  <2>1. where["main"] = "clear" /\ grpcServer' = grpcServer /\ port' = port
    BY <1>4 DEF OnDestroyEnds, Steps
  <2>2. ~Lives
    BY <2>1 DEF Lives, PlacesInv, DestroyingPlaced
  <2> QED
    BY <1>n, <2>1, <2>2
<1>5. ASSUME NEW s \in Services, GrpcBinds(s) PROVE OrderlyServers'
  <2>1. grpcServer[s] = "starting" /\ instance' = instance
    BY <1>5 DEF GrpcBinds
  <2>2. s = instance /\ Lives /\ Lives'
    BY <1>5, <2>1, LivesStays DEF OrderlyServers
  <2>3. /\ port' = s \/ port' = port
        /\ \A r \in Services : r # s => grpcServer'[r] = grpcServer[r]
    BY <1>0, <1>5 DEF GrpcBinds
  <2> QED
    BY <2>1, <2>2, <2>3 DEF OrderlyServers
<1>6. ASSUME NEW s \in Services, GrpcStarted(s) PROVE OrderlyServers'
  <2>1. instance' = instance /\ port' = port
    BY <1>6 DEF GrpcStarted
  <2>2. Lives => Lives'
    BY <1>6, LivesStays
  <2>3. \A r \in Services : grpcServer'[r] # "started" => grpcServer'[r] = grpcServer[r]
    BY <1>0, <1>6 DEF GrpcStarted
  <2> QED
    BY <2>1, <2>2, <2>3 DEF OrderlyServers
<1>7. CASE Quiet
  <2>1. Lives => Lives'
    BY <1>7, LivesStays
  <2>2. instance' = instance /\ grpcServer' = grpcServer /\ port' = port
    BY <1>7 DEF Quiet
  <2> QED
    BY <2>1, <2>2 DEF OrderlyServers
<1> QED
  BY <1>1, <1>2, <1>3, <1>4, <1>5, <1>6, <1>7, QuietServiceSteps

-----------------------------------------------------------------------------
(* Starts under way.                                                        *)

StartPlaces == {"test", "create", "get", "start"}

\* Who is in Starting, before and after a step of one thread.
LEMMA StartingIs ==
  /\ Starting = {c \in Clients : where[c] \in StartPlaces}
  /\ Starting' = {c \in Clients : where'[c] \in StartPlaces}
  BY DEF Starting, StartPlaces

LEMMA StartingStays ==
  ASSUME PlacesOK, NEW t \in Actors, NEW to, where' = [where EXCEPT ![t] = to],
         t = "main" \/ (where[t] \in StartPlaces <=> to \in StartPlaces)
  PROVE  Starting' = Starting
<1>1. /\ \A u \in Actors : u # t => where'[u] = where[u]
      /\ where'[t] = to
      /\ \A c \in Clients : c \in Actors /\ c # "main"
  BY ConstantsAreNat DEF PlacesOK
<1>2. \A c \in Clients : where'[c] \in StartPlaces <=> where[c] \in StartPlaces
  BY <1>1
<1> QED
  BY <1>2, StartingIs

\* A step of a client leaves the main thread alone.
LEMMA ClientSteps ==
  ASSUME PlacesOK, NEW c \in Clients, NEW to, where' = [where EXCEPT ![c] = to],
         destroying' = destroying
  PROVE  /\ where'["main"] = where["main"] /\ (Lives' <=> Lives)
         /\ (TakingDown' <=> TakingDown)
<1>1. where'["main"] = where["main"]
  BY ConstantsAreNat DEF PlacesOK
<1> QED
  BY <1>1 DEF Lives, TakingDown

LEMMA OrderlyStartsStay ==
  /\ PlacesOK /\ ServersOK /\ PlacesInv /\ orderly /\ OrderlyServers /\ OrderlyStarts
  /\ [ServiceNext]_serviceVars
  => OrderlyStarts'
<1> SUFFICES ASSUME PlacesOK, ServersOK, PlacesInv, orderly, OrderlyServers, OrderlyStarts,
                    [ServiceNext]_serviceVars
             PROVE  OrderlyStarts'
  OBVIOUS
<1>0. /\ where \in [Actors -> Wheres] /\ target \in [Actors -> 0 .. created]
      /\ svc \in [Actors -> 0 .. instance]
      /\ mCamera2Streamer \in [Services -> 0 .. created] /\ created \in Nat
      /\ \A c \in Clients : c \in Actors /\ c # "main"
      /\ "main" \in Actors
  BY ConstantsAreNat DEF PlacesOK, ServersOK
<1>s. \A c : c \in Starting => c \in Clients /\ where[c] \in StartPlaces
  BY StartingIs
<1>e. ASSUME Starting = {}, Starting' = Starting PROVE OrderlyStarts'
  BY <1>e DEF OrderlyStarts
\* A step in which no start under way, nor what it finds, changes.
<1>f. ASSUME Starting' = Starting,
             \A c \in Starting :
               where'[c] = where[c] /\ svc'[c] = svc[c] /\ target'[c] = target[c],
             instance' = instance, activeMode' = activeMode,
             mCamera2Streamer' = mCamera2Streamer,
             Lives => Lives', TakingDown' => TakingDown
      PROVE  OrderlyStarts'
  <2>1. SUFFICES ASSUME NEW c \in Starting PROVE StartIsOrderly(c)'
    BY <1>f DEF OrderlyStarts
  <2>2. StartIsOrderly(c) /\ where'[c] = where[c] /\ svc'[c] = svc[c] /\ target'[c] = target[c]
    BY <1>f DEF OrderlyStarts
  <2> QED
    BY <1>f, <2>2 DEF StartIsOrderly
\* A step of the main thread while a stream is taken down, or none could be started.
<1>m. ASSUME NEW to, where' = [where EXCEPT !["main"] = to], ~Lives \/ TakingDown
      PROVE  OrderlyStarts'
  <2>1. Starting = {}
    BY <1>m DEF OrderlyStarts, StartIsOrderly
  <2> QED
    BY <1>0, <1>e, <1>m, <2>1, StartingStays
<1>1. CASE OnCreate
  BY <1>1, <1>m DEF OnCreate, Lives
<1>2. CASE SetMode \/ OnDestroyEnds
  BY <1>2, <1>m DEF SetMode, OnDestroyEnds, Steps, TakingDown
<1>3. CASE Serve
  <2>1. where["main"] = "serve" /\ where' = [where EXCEPT !["main"] = "ready"] /\ svc' = svc
    BY <1>3 DEF Serve, Steps
  <2>2. Starting' = Starting /\ \A c \in Starting : where'[c] = where[c]
    BY <1>0, <1>s, <2>1, StartingStays
  <2>3. Lives' <=> Lives
    BY <1>3, LivesStays
  <2>4. ~TakingDown'
    BY <1>0, <2>1 DEF TakingDown
  <2>5. /\ instance' = instance /\ activeMode' = activeMode /\ target' = target
        /\ mCamera2Streamer' = mCamera2Streamer
    BY <1>3 DEF Serve, fields
  <2> QED
    BY <1>f, <2>1, <2>2, <2>3, <2>4, <2>5
<1>4. CASE OnDestroy
  <2>1. Starting = {} /\ where' = [where EXCEPT !["main"] = "stop test"]
    BY <1>4 DEF OnDestroy, Steps
  <2> QED
    BY <1>0, <1>e, <2>1, StartingStays
<1>5. CASE StreamFails \/ UNCHANGED serviceVars \/ (\E s \in Services : GrpcBinds(s) \/ GrpcStarted(s))
  <2>1. /\ where' = where /\ svc' = svc /\ target' = target
        /\ instance' = instance /\ activeMode' = activeMode
        /\ mCamera2Streamer' = mCamera2Streamer
    BY <1>5 DEF StreamFails, GrpcBinds, GrpcStarted, serviceVars, fields, ofThreads
  <2>2. destroying' = destroying
    BY <1>5 DEF StreamFails, GrpcBinds, GrpcStarted, serviceVars
  <2>3. Starting' = Starting
    BY <2>1, StartingIs
  <2>4. (Lives' <=> Lives) /\ (TakingDown' <=> TakingDown)
    BY <2>1, <2>2 DEF Lives, TakingDown
  <2> QED
    BY <1>f, <2>1, <2>3, <2>4
<1>6. ASSUME NEW toCamera \in BOOLEAN, OnStartCommand(toCamera) PROVE OrderlyStarts'
  <2>1. where["main"] = "ready"
    BY <1>6 DEF OnStartCommand, Steps
  <2>2. CASE toCamera
    <3>1. Starting = {} /\ \E to : where' = [where EXCEPT !["main"] = to]
      BY <1>6, <2>2 DEF OnStartCommand, Steps
    <3> QED
      BY <1>0, <1>e, <3>1, StartingStays
  <2>3. CASE ~toCamera
    <3>1. where' = [where EXCEPT !["main"] = "serve"] /\ svc' = svc
      BY <1>6, <2>3 DEF OnStartCommand, Steps
    <3>2. Starting' = Starting /\ \A c \in Starting : where'[c] = where[c]
      BY <1>0, <1>s, <3>1, StartingStays
    <3>3. where'["main"] = "serve"
      BY <1>0, <3>1
    <3>4. destroying' = destroying
      BY <1>6 DEF OnStartCommand
    <3>5. (Lives' <=> Lives) /\ ~TakingDown'
      BY <2>1, <3>3, <3>4 DEF Lives, TakingDown
    <3>6. /\ instance' = instance /\ activeMode' = activeMode /\ target' = target
          /\ mCamera2Streamer' = mCamera2Streamer
      BY <1>6 DEF OnStartCommand, fields
    <3> QED
      BY <1>f, <3>1, <3>2, <3>5, <3>6
  <2> QED
    BY <2>2, <2>3
\* A step of a client that is in no start, before it nor after it.
<1>7. ASSUME NEW c \in Clients, NEW to, where' = [where EXCEPT ![c] = to],
             where[c] \notin StartPlaces, to \notin StartPlaces,
             \A u \in Actors : u # c => svc'[u] = svc[u] /\ target'[u] = target[u],
             instance' = instance, activeMode' = activeMode,
             mCamera2Streamer' = mCamera2Streamer, destroying' = destroying
      PROVE  OrderlyStarts'
  <2>1. Starting' = Starting /\ c \notin Starting
    BY <1>0, <1>7, <1>s, StartingStays
  <2>2. \A d \in Starting :
          where'[d] = where[d] /\ svc'[d] = svc[d] /\ target'[d] = target[d]
    BY <1>0, <1>7, <1>s, <2>1
  <2>3. (Lives' <=> Lives) /\ (TakingDown' <=> TakingDown)
    BY <1>7, ClientSteps
  <2> QED
    BY <1>f, <1>7, <2>1, <2>2, <2>3
<1>8. ASSUME NEW c \in Clients, StreamoutStop(c) PROVE OrderlyStarts'
  <2>1. /\ where' = [where EXCEPT ![c] = "stop test"] /\ where[c] = "idle"
        /\ svc' = [svc EXCEPT ![c] = instance]
        /\ target' = target /\ instance' = instance
        /\ activeMode' = activeMode /\ mCamera2Streamer' = mCamera2Streamer
    BY <1>8 DEF StreamoutStop, Called, fields
  <2>2. destroying' = destroying
    BY <1>8 DEF StreamoutStop, Called
  <2>3. \A u \in Actors : u # c => svc'[u] = svc[u] /\ target'[u] = target[u]
    BY <1>0, <2>1
  <2> QED
    BY <1>7, <2>1, <2>2, <2>3 DEF StartPlaces
<1>9. ASSUME NEW c \in Clients, StreamoutStart(c) PROVE OrderlyStarts'
  <2>1. /\ where' = [where EXCEPT ![c] = "test"] /\ where[c] = "idle"
        /\ svc' = [svc EXCEPT ![c] = instance]
        /\ target' = target /\ instance' = instance
        /\ activeMode' = activeMode /\ mCamera2Streamer' = mCamera2Streamer
        /\ activeMode[instance] = CAMERA2_HWENC /\ port # 0
    BY <1>9 DEF StreamoutStart, Called, fields
  <2>2. destroying' = destroying
    BY <1>9 DEF StreamoutStart, Called
  <2>3. ~TakingDown /\ (mCamera2Streamer[instance] = 0 => Starting = {})
    BY <1>9 DEF StreamoutStart
  <2>4. Lives' /\ ~TakingDown'
    BY <2>1, <2>2, <2>3, ClientSteps DEF OrderlyServers
  <2>5. /\ where'[c] = "test" /\ svc'[c] = instance
        /\ \A d \in Clients : d # c => where'[d] = where[d] /\ svc'[d] = svc[d]
    BY <1>0, <2>1
  <2>6. /\ \A d : d \in Starting' <=> d = c \/ d \in Starting
        /\ c \notin Starting
    BY <1>s, <2>1, <2>5, StartingIs DEF StartPlaces
  <2>7. ASSUME NEW d \in Starting' PROVE StartIsOrderly(d)'
    <3>1. CASE d = c
      <4>1. mCamera2Streamer[instance] = 0 => Starting' = {c}
        BY <2>3, <2>6
      <4> QED
        BY <2>1, <2>4, <2>5, <3>1, <4>1 DEF StartIsOrderly
    <3>2. CASE d \in Starting
      <4>1. StartIsOrderly(d) /\ mCamera2Streamer[instance] # 0 /\ d # c /\ d \in Clients
        BY <1>s, <2>3, <2>6, <3>2 DEF OrderlyStarts
      <4> QED
        BY <2>1, <2>4, <2>5, <4>1 DEF StartIsOrderly
    <3> QED
      BY <2>6, <2>7, <3>1, <3>2
  <2> QED
    BY <2>7 DEF OrderlyStarts
\* A step of a start under way, to the next place of it.
<1>10. ASSUME NEW c \in Clients, NEW from \in StartPlaces, NEW to \in StartPlaces,
              Steps(c, from, to), destroying' = destroying
       PROVE  /\ c \in Starting /\ Starting' = Starting /\ StartIsOrderly(c)
              /\ where[c] = from /\ where'[c] = to /\ svc' = svc
              /\ \A d \in Clients : d # c => where'[d] = where[d]
              /\ (Lives' <=> Lives) /\ (TakingDown' <=> TakingDown)
  <2>1. where[c] = from /\ where' = [where EXCEPT ![c] = to] /\ svc' = svc
    BY <1>10 DEF Steps, StartPlaces
  <2>2. c \in Starting /\ Starting' = Starting
    BY <1>0, <1>10, <2>1, StartingIs, StartingStays
  <2>3. (Lives' <=> Lives) /\ (TakingDown' <=> TakingDown)
    BY <1>10, <2>1, ClientSteps
  <2>4. where'[c] = to /\ \A d \in Clients : d # c => where'[d] = where[d]
    BY <1>0, <2>1
  <2> QED
    BY <2>1, <2>2, <2>3, <2>4 DEF OrderlyStarts
<1>11. ASSUME NEW c \in Clients, TestStreamer(c) PROVE OrderlyStarts'
  <2>0. destroying' = destroying
    BY <1>11 DEF TestStreamer
  <2>1. /\ Steps(c, "test", IF Found(c) = 0 THEN "create" ELSE "get")
        /\ target' = target /\ instance' = instance
        /\ activeMode' = activeMode /\ mCamera2Streamer' = mCamera2Streamer
    BY <1>11 DEF TestStreamer, fields
  <2>2. PICK to \in {"create", "get"} : /\ Steps(c, "test", to)
                                        /\ to = IF Found(c) = 0 THEN "create" ELSE "get"
    BY <2>1
  <2>3. /\ Starting' = Starting /\ StartIsOrderly(c) /\ where'[c] = to /\ svc' = svc
        /\ \A d \in Clients : d # c => where'[d] = where[d]
        /\ (Lives' <=> Lives) /\ (TakingDown' <=> TakingDown)
    BY <1>10, <2>0, <2>2 DEF StartPlaces
  <2>4. to = IF mCamera2Streamer[instance] = 0 THEN "create" ELSE "get"
    BY <2>2, <2>3 DEF Found, StartIsOrderly
  <2>5. ASSUME NEW d \in Starting PROVE StartIsOrderly(d)'
    <3>1. StartIsOrderly(d) /\ d \in Clients
      BY <1>s DEF OrderlyStarts
    <3>2. CASE d = c
      BY <2>1, <2>3, <2>4, <3>1, <3>2 DEF StartIsOrderly
    <3>3. CASE d # c
      BY <2>1, <2>3, <3>1, <3>3 DEF StartIsOrderly
    <3> QED
      BY <3>2, <3>3
  <2> QED
    BY <2>3, <2>5 DEF OrderlyStarts
<1>12. ASSUME NEW c \in Clients, CreateStreamer(c) PROVE OrderlyStarts'
  <2>0. destroying' = destroying
    BY <1>12 DEF CreateStreamer
  <2>1. /\ Steps(c, "create", "get") /\ target' = target /\ instance' = instance
        /\ activeMode' = activeMode /\ created' = created + 1
        /\ mCamera2Streamer' = [mCamera2Streamer EXCEPT ![svc[c]] = created']
    BY <1>12 DEF CreateStreamer
  <2>2. /\ Starting' = Starting /\ StartIsOrderly(c) /\ where'[c] = "get" /\ svc' = svc
        /\ where[c] = "create"
        /\ (Lives' <=> Lives) /\ (TakingDown' <=> TakingDown)
    BY <1>10, <2>0, <2>1 DEF StartPlaces
  <2>3. Starting = {c} /\ svc[c] = instance
    BY <2>2 DEF StartIsOrderly
  <2>4. mCamera2Streamer'[instance] # 0
    <3>1. instance \in Services
      BY <1>0, <2>2, <2>3, FoundIn, ConstantsAreNat DEF PlacesInv, ClientsPlaced
    <3> QED
      BY <1>0, <2>1, <2>3, <3>1
  <2>5. StartIsOrderly(c)'
    BY <2>1, <2>2, <2>4 DEF StartIsOrderly
  <2> QED
    BY <2>2, <2>3, <2>5 DEF OrderlyStarts
<1>13. ASSUME NEW c \in Clients, GetStreamer(c) PROVE OrderlyStarts'
  <2>0. destroying' = destroying
    BY <1>13 DEF GetStreamer
  <2>1. /\ Steps(c, "get", IF Found(c) = 0 THEN "idle" ELSE "start")
        /\ target' = [target EXCEPT ![c] = Found(c)] /\ instance' = instance
        /\ activeMode' = activeMode /\ mCamera2Streamer' = mCamera2Streamer
    BY <1>13 DEF GetStreamer, fields
  <2>2. c \in Starting /\ where[c] = "get"
    BY <2>1, StartingIs DEF Steps, StartPlaces
  <2>3. Found(c) = mCamera2Streamer[instance] /\ Found(c) # 0
    BY <2>2 DEF OrderlyStarts, StartIsOrderly, Found
  <2>4. Steps(c, "get", "start")
    BY <2>1, <2>3
  <2>5. /\ Starting' = Starting /\ StartIsOrderly(c) /\ where'[c] = "start" /\ svc' = svc
        /\ \A d \in Clients : d # c => where'[d] = where[d]
        /\ (Lives' <=> Lives) /\ (TakingDown' <=> TakingDown)
    BY <1>10, <2>0, <2>4 DEF StartPlaces
  <2>6. /\ target'[c] = mCamera2Streamer[instance]
        /\ \A d \in Clients : d # c => target'[d] = target[d]
    BY <1>0, <2>1, <2>3
  <2>7. ASSUME NEW d \in Starting PROVE StartIsOrderly(d)'
    <3>1. StartIsOrderly(d) /\ d \in Clients
      BY <1>s DEF OrderlyStarts
    <3>2. CASE d = c
      BY <2>1, <2>3, <2>5, <2>6, <3>1, <3>2 DEF StartIsOrderly
    <3>3. CASE d # c
      BY <2>1, <2>5, <2>6, <3>1, <3>3 DEF StartIsOrderly
    <3> QED
      BY <3>2, <3>3
  <2> QED
    BY <2>5, <2>7 DEF OrderlyStarts
<1>14. ASSUME NEW c \in Clients, StartStreamer(c) PROVE OrderlyStarts'
  <2>0. destroying' = destroying
    BY <1>14 DEF StartStreamer
  <2>1. /\ where[c] = "start" /\ where' = [where EXCEPT ![c] = "idle"]
        /\ svc' = [svc EXCEPT ![c] = 0] /\ target' = [target EXCEPT ![c] = 0]
        /\ instance' = instance
        /\ activeMode' = activeMode /\ mCamera2Streamer' = mCamera2Streamer
    BY <1>14 DEF StartStreamer, Steps, fields
  <2>2. c \in Starting
    BY <2>1, StartingIs DEF StartPlaces
  <2>3. mCamera2Streamer[instance] # 0
    BY <2>1, <2>2 DEF OrderlyStarts, StartIsOrderly
  <2>4. /\ where'[c] = "idle"
        /\ \A d \in Clients : d # c => /\ where'[d] = where[d] /\ svc'[d] = svc[d]
                                       /\ target'[d] = target[d]
    BY <1>0, <2>1
  <2>5. \A d : d \in Starting' => d # c /\ d \in Starting
    BY <2>4, StartingIs DEF StartPlaces
  <2>6. (Lives' <=> Lives) /\ (TakingDown' <=> TakingDown)
    BY <2>0, <2>1, ClientSteps
  <2>7. ASSUME NEW d \in Starting' PROVE StartIsOrderly(d)'
    <3>1. StartIsOrderly(d) /\ d \in Clients /\ d # c
      BY <1>s, <2>5, <2>7 DEF OrderlyStarts
    <3> QED
      BY <2>1, <2>3, <2>4, <2>6, <3>1 DEF StartIsOrderly
  <2> QED
    BY <2>7 DEF OrderlyStarts
<1>15. ASSUME NEW t \in Actors, TestForStop(t) \/ GetForStop(t) \/ StopStreamer(t)
       PROVE  OrderlyStarts'
  <2>1. PICK from \in {"stop test", "stop get", "stop"}, to \in {"stop get", "stop", GoesOn(t)} :
          Steps(t, from, to)
    BY <1>15 DEF TestForStop, GetForStop, StopStreamer
  <2>2. where[t] = from /\ where' = [where EXCEPT ![t] = to]
    BY <2>1 DEF Steps
  <2>3. CASE t = "main"
    BY <1>m, <2>1, <2>2, <2>3 DEF TakingDown
  <2>4. CASE t \in Clients
    <3>1. to \notin StartPlaces /\ from \notin StartPlaces
      BY <2>1, GoesOnIn DEF StartPlaces
    <3>2. \E x : target' = [target EXCEPT ![t] = x] \/ target' = target
      BY <1>15 DEF TestForStop, GetForStop, StopStreamer
    <3>3. svc' = [svc EXCEPT ![t] = 0] \/ svc' = svc
      BY <2>1 DEF Steps
    <3>4. \A u \in Actors : u # t => svc'[u] = svc[u] /\ target'[u] = target[u]
      BY <1>0, <3>2, <3>3
    <3>5. /\ instance' = instance
          /\ activeMode' = activeMode /\ mCamera2Streamer' = mCamera2Streamer
      BY <1>15 DEF TestForStop, GetForStop, StopStreamer, fields
    <3>6. destroying' = destroying
      BY <1>15 DEF TestForStop, GetForStop, StopStreamer
    <3> QED
      BY <1>7, <2>2, <2>4, <3>1, <3>4, <3>5, <3>6
  <2> QED
    BY <2>3, <2>4 DEF Actors
<1> QED
  BY <1>1, <1>2, <1>3, <1>4, <1>5, <1>6, <1>8, <1>9, <1>11, <1>12, <1>13, <1>14, <1>15
     DEF ServiceNext

-----------------------------------------------------------------------------
(* The stream that is up.                                                   *)

\* What the main thread stops is the streamer of its service, and once it has, no stream
\* is up: no other call starts one then.
LEMMA OrderlyStopsStay ==
  /\ PlacesOK /\ ServersOK /\ PlacesInv /\ OrderlyStarts /\ OrderlyStops
  /\ StreamsAreReachable /\ orderly /\ [ServiceNext]_serviceVars
  => OrderlyStops'
<1> SUFFICES ASSUME PlacesOK, ServersOK, PlacesInv, OrderlyStarts, OrderlyStops,
                    StreamsAreReachable, orderly, [ServiceNext]_serviceVars
             PROVE  OrderlyStops'
  OBVIOUS
<1>0. /\ where \in [Actors -> Wheres] /\ target \in [Actors -> 0 .. created]
      /\ "main" \in Actors /\ \A c \in Clients : c \in Actors /\ c # "main"
  BY ConstantsAreNat DEF PlacesOK
\* The main thread goes somewhere else.
<1>e. ASSUME where'["main"] \notin {"stop", "set mode", "clear"} PROVE OrderlyStops'
  BY <1>e DEF OrderlyStops
\* It stays, and so does what it is to stop; a stream only ends.
<1>f. ASSUME where'["main"] = where["main"], target'["main"] = target["main"],
             up' \in {up, 0}, instance' = instance, mCamera2Streamer' = mCamera2Streamer
      PROVE  OrderlyStops'
  BY <1>f DEF OrderlyStops
\* It moves, and nothing is up.
<1>g. ASSUME where'["main"] # "stop", up' = 0 PROVE OrderlyStops'
  BY <1>g DEF OrderlyStops
<1>1. CASE OnCreate \/ SetMode \/ Serve \/ OnDestroy \/ OnDestroyEnds
  <2>1. \E to \in {"ready", "serve", "stop test", "none"} : where' = [where EXCEPT !["main"] = to]
    BY <1>1 DEF OnCreate, SetMode, Serve, OnDestroy, OnDestroyEnds, Steps
  <2> QED
    BY <1>0, <1>e, <2>1
<1>2. CASE StreamFails \/ UNCHANGED serviceVars \/ (\E s \in Services : GrpcBinds(s) \/ GrpcStarted(s))
  <2>1. /\ where' = where /\ target' = target /\ up' \in {up, 0}
        /\ instance' = instance /\ mCamera2Streamer' = mCamera2Streamer
    BY <1>2 DEF StreamFails, GrpcBinds, GrpcStarted, serviceVars, fields, ofThreads
  <2> QED
    BY <1>f, <2>1
<1>3. ASSUME NEW toCamera \in BOOLEAN, OnStartCommand(toCamera) PROVE OrderlyStops'
  <2>1. \E to \in {"stop test", "serve"} : where' = [where EXCEPT !["main"] = to]
    BY <1>3 DEF OnStartCommand, Steps
  <2> QED
    BY <1>0, <1>e, <2>1
<1>4. ASSUME NEW c \in Clients,
             StreamoutStart(c) \/ StreamoutStop(c) \/ TestStreamer(c) \/ GetStreamer(c)
      PROVE  OrderlyStops'
  <2>1. \E to : where' = [where EXCEPT ![c] = to]
    BY <1>4 DEF StreamoutStart, StreamoutStop, Called, TestStreamer, GetStreamer, Steps
  <2>2. target' = target \/ \E x : target' = [target EXCEPT ![c] = x]
    BY <1>4 DEF StreamoutStart, StreamoutStop, Called, TestStreamer, GetStreamer
  <2>3. where'["main"] = where["main"] /\ target'["main"] = target["main"]
    BY <1>0, <2>1, <2>2
  <2>4. up' = up /\ instance' = instance /\ mCamera2Streamer' = mCamera2Streamer
    BY <1>4 DEF StreamoutStart, StreamoutStop, Called, TestStreamer, GetStreamer, fields
  <2> QED
    BY <1>f, <2>3, <2>4
\* A stream begins, or gets its streamer, while the main thread takes none down.
<1>5. ASSUME NEW c \in Clients, CreateStreamer(c) \/ StartStreamer(c) PROVE OrderlyStops'
  <2>1. c \in Starting /\ \E to : where' = [where EXCEPT ![c] = to]
    BY <1>5, StartingIs DEF CreateStreamer, StartStreamer, Steps, StartPlaces
  <2>2. ~TakingDown
    BY <2>1 DEF OrderlyStarts, StartIsOrderly
  <2>3. where'["main"] = where["main"]
    BY <1>0, <2>1
  <2> QED
    BY <1>e, <2>2, <2>3 DEF TakingDown
<1>6. ASSUME NEW t \in Clients, TestForStop(t) \/ GetForStop(t) \/ StopStreamer(t)
      PROVE  OrderlyStops'
  <2>1. \E to : where' = [where EXCEPT ![t] = to]
    BY <1>6 DEF TestForStop, GetForStop, StopStreamer, Steps
  <2>2. target' = target \/ \E x : target' = [target EXCEPT ![t] = x]
    BY <1>6 DEF TestForStop, GetForStop, StopStreamer
  <2>3. where'["main"] = where["main"] /\ target'["main"] = target["main"]
    BY <1>0, <2>1, <2>2
  <2>4. /\ up' \in {up, 0} /\ instance' = instance
        /\ mCamera2Streamer' = mCamera2Streamer
    BY <1>6 DEF TestForStop, GetForStop, StopStreamer, fields
  <2> QED
    BY <1>f, <2>3, <2>4
\* What the main thread finds is the streamer of the service that lives.
<1>7. ASSUME where["main"] # "none" PROVE Found("main") = mCamera2Streamer[instance]
  BY <1>7 DEF PlacesInv, MainPlaced, Found
<1>8. GoesOn("main") \in {"clear", "set mode"}
  BY DEF GoesOn
<1>9. CASE TestForStop("main")
  <2>1. /\ where["main"] = "stop test" /\ up' = up
        /\ where' = [where EXCEPT !["main"] = IF Found("main") = 0 THEN GoesOn("main") ELSE "stop get"]
    BY <1>9 DEF TestForStop, Steps
  <2>2. where'["main"] = IF Found("main") = 0 THEN GoesOn("main") ELSE "stop get"
    BY <1>0, <2>1
  <2>3. Found("main") = 0 => up' = 0
    BY <1>7, <2>1 DEF StreamsAreReachable
  <2> QED
    BY <1>8, <1>e, <1>g, <2>2, <2>3
<1>10. CASE GetForStop("main")
  <2>1. /\ where["main"] = "stop get" /\ up' = up
        /\ where' = [where EXCEPT !["main"] = IF Found("main") = 0 THEN GoesOn("main") ELSE "stop"]
        /\ target' = [target EXCEPT !["main"] = Found("main")]
        /\ instance' = instance /\ mCamera2Streamer' = mCamera2Streamer
    BY <1>10 DEF GetForStop, Steps, fields
  <2>2. /\ where'["main"] = IF Found("main") = 0 THEN GoesOn("main") ELSE "stop"
        /\ target'["main"] = mCamera2Streamer[instance]
    BY <1>0, <1>7, <2>1
  <2>3. Found("main") = 0 => up' = 0
    BY <1>7, <2>1 DEF StreamsAreReachable
  <2>4. CASE Found("main") = 0
    BY <1>8, <1>g, <2>2, <2>3, <2>4
  <2>5. CASE Found("main") # 0
    <3>1. where'["main"] = "stop"
      BY <2>2, <2>5
    <3>2. target'["main"] = mCamera2Streamer'[instance']
      BY <2>1, <2>2
    <3> QED
      BY <3>1, <3>2 DEF OrderlyStops
  <2> QED
    BY <2>4, <2>5
<1>11. CASE StopStreamer("main")
  <2>1. /\ where["main"] = "stop" /\ where' = [where EXCEPT !["main"] = GoesOn("main")]
        /\ up' = IF up = target["main"] THEN 0 ELSE up
    BY <1>11 DEF StopStreamer, Steps
  <2>2. up' = 0
    BY <2>1 DEF OrderlyStops, StreamsAreReachable
  <2> QED
    BY <1>0, <1>8, <1>g, <2>1, <2>2
<1> QED
  BY <1>1, <1>2, <1>3, <1>4, <1>5, <1>6, <1>9, <1>10, <1>11 DEF ServiceNext, Actors

LEMMA ReachableStays ==
  /\ PlacesOK /\ ServersOK /\ PlacesInv /\ OrderlyStarts /\ OrderlyStops
  /\ StreamsAreReachable /\ orderly /\ [ServiceNext]_serviceVars
  => StreamsAreReachable'
<1> SUFFICES ASSUME PlacesOK, ServersOK, PlacesInv, OrderlyStarts, OrderlyStops,
                    StreamsAreReachable, orderly, [ServiceNext]_serviceVars
             PROVE  StreamsAreReachable'
  OBVIOUS
<1>0. /\ where \in [Actors -> Wheres] /\ "main" \in Actors
      /\ \A c \in Clients : c \in Actors /\ c # "main"
  BY ConstantsAreNat DEF PlacesOK
<1>e. ASSUME up' = 0 PROVE StreamsAreReachable'
  BY <1>e DEF StreamsAreReachable
<1>f. ASSUME up' \in {up, 0}, where["main"] # "none" => where'["main"] # "none",
             instance' = instance, activeMode' = activeMode,
             mCamera2Streamer' = mCamera2Streamer
      PROVE  StreamsAreReachable'
  BY <1>f DEF StreamsAreReachable
<1>1. CASE OnCreate
  <2>1. up' = up /\ where["main"] = "none"
    BY <1>1 DEF OnCreate
  <2> QED
    BY <1>e, <2>1 DEF StreamsAreReachable
<1>2. CASE SetMode \/ OnDestroyEnds
  <2>1. up' = up /\ where["main"] \in {"set mode", "clear"}
    BY <1>2 DEF SetMode, OnDestroyEnds, Steps
  <2> QED
    BY <1>e, <2>1 DEF OrderlyStops
<1>3. CASE Serve \/ OnDestroy \/ (\E toCamera \in BOOLEAN : OnStartCommand(toCamera))
  <2>1. \E to \in {"ready", "serve", "stop test"} : where' = [where EXCEPT !["main"] = to]
    BY <1>3 DEF Serve, OnDestroy, OnStartCommand, Steps
  <2>2. where'["main"] # "none"
    BY <1>0, <2>1
  <2>3. /\ up' = up /\ instance' = instance /\ activeMode' = activeMode
        /\ mCamera2Streamer' = mCamera2Streamer
    BY <1>3 DEF Serve, OnDestroy, OnStartCommand, fields
  <2> QED
    BY <1>f, <2>2, <2>3
<1>4. CASE StreamFails \/ UNCHANGED serviceVars \/ (\E s \in Services : GrpcBinds(s) \/ GrpcStarted(s))
  <2>1. /\ where' = where /\ up' \in {up, 0} /\ activeMode' = activeMode
        /\ instance' = instance /\ mCamera2Streamer' = mCamera2Streamer
    BY <1>4 DEF StreamFails, GrpcBinds, GrpcStarted, serviceVars, fields, ofThreads
  <2> QED
    BY <1>f, <2>1
<1>5. ASSUME NEW c \in Clients,
             StreamoutStart(c) \/ StreamoutStop(c) \/ TestStreamer(c) \/ GetStreamer(c)
      PROVE  StreamsAreReachable'
  <2>1. \E to : where' = [where EXCEPT ![c] = to]
    BY <1>5 DEF StreamoutStart, StreamoutStop, Called, TestStreamer, GetStreamer, Steps
  <2>2. where'["main"] = where["main"]
    BY <1>0, <2>1
  <2>3. /\ up' = up /\ instance' = instance /\ activeMode' = activeMode
        /\ mCamera2Streamer' = mCamera2Streamer
    BY <1>5 DEF StreamoutStart, StreamoutStop, Called, TestStreamer, GetStreamer, fields
  <2> QED
    BY <1>f, <2>2, <2>3
<1>6. ASSUME NEW c \in Clients, CreateStreamer(c) PROVE StreamsAreReachable'
  <2>1. c \in Starting /\ where[c] = "create" /\ up' = up
    BY <1>6, StartingIs DEF CreateStreamer, Steps, StartPlaces
  <2>2. mCamera2Streamer[instance] = 0
    BY <2>1 DEF OrderlyStarts, StartIsOrderly
  <2> QED
    BY <1>e, <2>1, <2>2 DEF StreamsAreReachable
<1>7. ASSUME NEW c \in Clients, StartStreamer(c) PROVE StreamsAreReachable'
  <2>1. /\ c \in Starting /\ where[c] = "start" /\ where' = [where EXCEPT ![c] = "idle"]
        /\ up' \in {up, IF up = 0 THEN target[c] ELSE up}
        /\ instance' = instance /\ activeMode' = activeMode
        /\ mCamera2Streamer' = mCamera2Streamer
    BY <1>7, StartingIs DEF StartStreamer, Steps, StartPlaces, fields
  <2>2. /\ target[c] = mCamera2Streamer[instance] /\ activeMode[instance] = CAMERA2_HWENC
        /\ Lives
    BY <2>1 DEF OrderlyStarts, StartIsOrderly
  <2>3. where'["main"] # "none"
    BY <1>0, <2>1, <2>2 DEF Lives
  <2> QED
    BY <2>1, <2>2, <2>3 DEF StreamsAreReachable
<1>8. ASSUME NEW t \in Actors, TestForStop(t) \/ GetForStop(t) \/ StopStreamer(t)
      PROVE  StreamsAreReachable'
  <2>1. \E to \in {"stop get", "stop", GoesOn(t)} : where' = [where EXCEPT ![t] = to]
    BY <1>8 DEF TestForStop, GetForStop, StopStreamer, Steps
  <2>2. where["main"] # "none" => where'["main"] # "none"
    BY <1>0, <2>1, GoesOnIn
  <2>3. /\ up' \in {up, 0} /\ instance' = instance /\ activeMode' = activeMode
        /\ mCamera2Streamer' = mCamera2Streamer
    BY <1>8 DEF TestForStop, GetForStop, StopStreamer, fields
  <2> QED
    BY <1>f, <2>2, <2>3
<1> QED
  BY <1>1, <1>2, <1>3, <1>4, <1>5, <1>6, <1>7, <1>8 DEF ServiceNext

-----------------------------------------------------------------------------
(* The theorems.                                                            *)

LEMMA ServiceInitEstablishes == ServiceInit => ServiceInv
<1> SUFFICES ASSUME ServiceInit PROVE ServiceInv
  OBVIOUS
<1>0. /\ where["main"] = "none" /\ \A c \in Clients : where[c] = "idle"
      /\ \A s \in Services : s \in Nat \ {0} /\ grpcServer[s] = "none"
      /\ port = 0 /\ up = 0 /\ instance = 0 /\ created = 0
      /\ activeMode = [s \in Services |-> CAMERA2_HWENC]
      /\ mCamera2Streamer = [s \in Services |-> 0]
      /\ grpcServer = [s \in Services |-> "none"]
  BY ConstantsAreNat DEF ServiceInit, Services
<1>1. FlagsOK
  BY Booleans DEF ServiceInit, FlagsOK
<1>2. PlacesOK
  <2>1. where \in [Actors -> Wheres]
    BY DEF ServiceInit, Wheres
  <2>2. 0 \in 0 .. instance /\ 0 \in 0 .. created
    BY <1>0
  <2>3. svc = [t \in Actors |-> 0] /\ target = [t \in Actors |-> 0]
    BY DEF ServiceInit
  <2>4. svc \in [Actors -> 0 .. instance] /\ target \in [Actors -> 0 .. created]
    BY <2>2, <2>3
  <2> QED
    BY <1>0, <2>1, <2>4, ConstantsAreNat DEF PlacesOK
<1>3. ServersOK
  BY <1>0 DEF ServersOK
<1>4. PlacesInv
  <2>1. ~destroying
    BY DEF ServiceInit
  <2> QED
    BY <1>0, <2>1 DEF PlacesInv, ClientsPlaced, MainPlaced, DestroyingPlaced
<1>5. ServerInv
  BY <1>0 DEF ServerInv
<1>6. LiveServiceIsServed
  BY <1>0 DEF LiveServiceIsServed
<1>7. OrderlyInv
  <2>1. Starting = {}
    BY <1>0 DEF Starting
  <2> QED
    BY <1>0, <2>1 DEF OrderlyInv, OrderlyServers, OrderlyStarts, OrderlyStops, StreamsAreReachable
<1> QED
  BY <1>1, <1>2, <1>3, <1>4, <1>5, <1>6, <1>7, ServiceParts DEF ServiceInv

LEMMA ServiceStepPreserves == ServiceInv /\ [ServiceNext]_serviceVars => ServiceInv'
<1> SUFFICES ASSUME ServiceInv, [ServiceNext]_serviceVars PROVE ServiceInv'
  OBVIOUS
<1>0. FlagsOK /\ PlacesOK /\ ServersOK /\ PlacesInv /\ ServerInv /\ LiveServiceIsServed
      /\ OrderlyInv
  BY Zenon, ServiceParts DEF ServiceInv
<1>1. ServiceTypeOK'
  BY Zenon, <1>0, FlagsStay, PlacesStay, ServersStay, ServicePartsPrime
<1>2. PlacesInv' /\ ServerInv' /\ LiveServiceIsServed'
  BY Zenon, <1>0, PlacesInvStays, ServerStays, ServedStays
<1>3. ASSUME orderly' PROVE OrderlyServers' /\ OrderlyStarts' /\ OrderlyStops' /\ StreamsAreReachable'
  <2>1. orderly
    BY <1>0, <1>3, AssumedStay
  <2>2. OrderlyServers /\ OrderlyStarts /\ OrderlyStops /\ StreamsAreReachable
    BY <1>0, <2>1 DEF OrderlyInv
  <2> QED
    BY Zenon, <1>0, <2>1, <2>2, OrderlyServersStay, OrderlyStartsStay, OrderlyStopsStay,
       ReachableStays
<1> QED
  BY Zenon, <1>1, <1>2, <1>3 DEF ServiceInv, OrderlyInv

\* The invariant of the service, its gRPC servers and its calls.
THEOREM ServiceInvariant == ServiceSpec => []ServiceInv
  BY ServiceInitEstablishes, ServiceStepPreserves, PTL DEF ServiceSpec

\* The types of the service's state.
THEOREM ServiceTypes == ServiceSpec => []ServiceTypeOK
<1>1. ServiceInv => ServiceTypeOK
  BY Zenon DEF ServiceInv
<1> QED
  BY <1>1, ServiceInvariant, PTL

\* With orderly callers, however starts, stops, the gRPC server's thread and the lives of
\* services interleave, a stream that is up is the one that streamoutStop, setMode and
\* onDestroy find.
THEOREM EveryStreamIsReachable == ServiceSpec => []StreamsAreReachable
<1>1. ServiceInv => StreamsAreReachable
  BY Zenon DEF ServiceInv, OrderlyInv, StreamsAreReachable
<1> QED
  BY <1>1, ServiceInvariant, PTL

\* A service that lives, and whose gRPC thread is through, can be called, be it over the
\* server of a service before it.
THEOREM EveryLiveServiceIsServed == ServiceSpec => []LiveServiceIsServed
<1>1. ServiceInv => LiveServiceIsServed
  BY Zenon DEF ServiceInv
<1> QED
  BY <1>1, ServiceInvariant, PTL

(***************************************************************************)
(* The composition.                                                        *)
(***************************************************************************)

\* A step of the composition is one of each module, or leaves its variables alone.
LEMMA EachControlSteps ==
  [ControlNext]_<<debugVars, jniVars, serviceVars, refVars, subject>> =>
    /\ [DebugNext]_debugVars /\ [JniNext]_jniVars
    /\ [ServiceNext]_serviceVars /\ [RefNext]_refVars
<1>1. ControlNext => /\ [DebugNext]_debugVars /\ [JniNext]_jniVars
                     /\ [ServiceNext]_serviceVars /\ [RefNext]_refVars
  BY Zenon DEF ControlNext, debugRests, jniRests, serviceRests, refRests
<1>2. UNCHANGED <<debugVars, jniVars, serviceVars, refVars, subject>> =>
        UNCHANGED debugVars /\ UNCHANGED jniVars /\ UNCHANGED serviceVars /\ UNCHANGED refVars
  OBVIOUS
<1> QED
  BY <1>1, <1>2, Zenon

\* MCControl adds no behaviour to the four modules: each of its behaviours is one of
\* DebugCommands, of JniBridge, of ServiceControl and of PipelineRefs.
THEOREM ControlIsEachModule ==
  ControlSpec => DebugSpec /\ JniSpec /\ ServiceSpec /\ RefSpec
<1>1. ControlInit => DebugInit /\ JniInit /\ ServiceInit /\ RefInit
  BY Zenon DEF ControlInit
<1> QED
  BY <1>1, EachControlSteps, PTL DEF ControlSpec, DebugSpec, JniSpec, ServiceSpec, RefSpec

\* Type correctness of the four modules, as MCControl's run checks it.
THEOREM ControlTypes == ControlSpec => []ControlTypeOK
<1>1. DebugTypeOK /\ JniTypeOK /\ ServiceTypeOK /\ RefTypeOK => ControlTypeOK
  BY Zenon DEF ControlTypeOK
<1>2. JniInv => JniTypeOK
  BY DEF JniInv
<1>3. RefInv => RefTypeOK
  BY DEF RefInv
<1> QED
  BY <1>1, <1>2, <1>3, ControlIsEachModule, DebugTypes, JniInvHolds, ServiceTypes,
     RefInvHolds, PTL
=============================================================================
