----------------------------- MODULE PipelineRefs -----------------------------
(***************************************************************************)
(* Who holds the pipeline of a media, in camera2_gst_streamer.cpp.         *)
(*                                                                         *)
(* A GstRTSPMedia owns its pipeline.  on_client_play_request caches it in  *)
(* s_full_pipeline with a reference of its own; on_media_unprepared and    *)
(* nativeGstPipelineDestroy release that.  Dumps of the pipeline, by the   *)
(* timer or by debug commands, take a reference under s_lock and go on     *)
(* without the lock while the media may be taken down.                     *)
(*                                                                         *)
(* on_media_prepared connects handlers to the pipeline's own bus, and each *)
(* of their closures has a reference to the pipeline that it gives up when *)
(* the bus is finalized.  But the bus is the pipeline's.                   *)
(*                                                                         *)
(* 0 stands for NULL.  The pipeline is walked and printed outside of this; *)
(* s_appsrc and s_audio_appsrc, which a dump prints too, are held likewise.*)
(***************************************************************************)
EXTENDS Integers, FiniteSets

CONSTANTS
  Dumpers,         \* the timer and the debug commands
  MaxPipelines,    \* bound: media constructed
  MaxRefs          \* bound: references to a pipeline when a client plays it

ASSUME PipelineAssumption ==
  MaxPipelines \in Nat /\ MaxRefs \in Nat /\ IsFiniteSet(Dumpers)

Pipelines == 1 .. MaxPipelines

\* The message details that on_media_prepared connects a handler for.
Handlers == 5

VARIABLES
  refs,              \* per pipeline: its reference count
  s_full_pipeline,
  made, alive,       \* pipelines so far; those that are not finalized
  owned, prepared,   \* pipelines whose media lives; and is not unprepared
  closures,          \* per pipeline: the closures on its bus
  playing, scanning, \* the pipeline that on_client_play_request holds; cached already?
  holds, inner,      \* per dumper: the pipeline it holds; in the dump inside its dump
  serial             \* external, fixed: a media is unprepared before the next is made

media   == <<made, alive, owned, prepared, closures>>
play    == <<playing, scanning>>
dumps   == <<holds, inner>>
refVars == <<refs, s_full_pipeline, media, play, dumps, serial>>

\* Reference counts after n more on p; one more, or one less; none on NULL.
Plus(p, n) == [q \in Pipelines |-> IF q = p THEN refs[q] + n ELSE refs[q]]
Ref(p)     == Plus(p, 1)
Unref(p)   == Plus(p, -1)

-----------------------------------------------------------------------------
(* The media's threads.                                                     *)

\* A media is constructed (external).
MakeMedia ==
  /\ made < MaxPipelines /\ made' = made + 1
  /\ serial => prepared = {}
  /\ refs' = [refs EXCEPT ![made'] = 1]
  /\ alive' = alive \cup {made'}
  /\ owned' = owned \cup {made'} /\ prepared' = prepared \cup {made'}
  /\ UNCHANGED <<s_full_pipeline, closures, play, dumps, serial>>

\* on_media_prepared, once for each media: the closures on its bus, with a reference each.
MediaPrepared(p) ==
  /\ p \in prepared /\ closures[p] = 0
  /\ closures' = [closures EXCEPT ![p] = Handlers] /\ refs' = Plus(p, Handlers)
  /\ UNCHANGED <<s_full_pipeline, made, alive, owned, prepared, play, dumps, serial>>

\* on_client_play_request gets the pipeline from the media, with a reference.
PlayBegins(p) ==
  /\ playing = 0 /\ p \in prepared /\ closures[p] # 0 /\ refs[p] < MaxRefs
  /\ playing' = p /\ refs' = Ref(p)
  /\ UNCHANGED <<s_full_pipeline, media, scanning, dumps, serial>>

\* Its section under s_lock takes another unless it is cached already; whatever else
\* is cached is not released.
PlayCaches ==
  /\ playing # 0 /\ ~scanning
  /\ s_full_pipeline' = playing
  /\ refs' = IF s_full_pipeline # playing THEN Ref(playing) ELSE refs
  /\ scanning' = TRUE
  /\ UNCHANGED <<media, playing, dumps, serial>>

\* It looks through the elements without the lock, and gives its own reference up.
PlayEnds ==
  /\ playing # 0 /\ scanning
  /\ refs' = Unref(playing)
  /\ playing' = 0 /\ scanning' = FALSE
  /\ UNCHANGED <<s_full_pipeline, media, dumps, serial>>

\* Release the cached pipeline.
Uncache == refs' = Unref(s_full_pipeline) /\ s_full_pipeline' = 0

\* on_media_unprepared, on the thread that serves the media's clients.
Unprepared(p) ==
  /\ p \in prepared /\ playing # p
  /\ prepared' = prepared \ {p}
  /\ Uncache
  /\ UNCHANGED <<made, alive, owned, closures, play, dumps, serial>>

\* The media gives its pipeline up (external).
MediaFreed(p) ==
  /\ p \in owned \ prepared
  /\ owned' = owned \ {p} /\ refs' = Unref(p)
  /\ UNCHANGED <<s_full_pipeline, made, alive, prepared, closures, play, dumps, serial>>

\* The last reference is gone: the pipeline is finalized, its bus with it, and with
\* that the closures (external).
PipelineFinalized(p) ==
  /\ p \in alive /\ refs[p] = 0
  /\ alive' = alive \ {p} /\ closures' = [closures EXCEPT ![p] = 0]
  /\ UNCHANGED <<refs, s_full_pipeline, made, owned, prepared, play, dumps, serial>>

\* nativeGstPipelineDestroy, whatever becomes of the media.
Destroy ==
  /\ s_full_pipeline # 0
  /\ Uncache
  /\ UNCHANGED <<media, play, dumps, serial>>

-----------------------------------------------------------------------------
(* Dumps.                                                                   *)

\* Mutant: the pointer is read, but not referenced.
SnapshotUnheld(d) ==
  /\ holds[d] = 0 /\ s_full_pipeline # 0
  /\ holds' = [holds EXCEPT ![d] = s_full_pipeline]
  /\ UNCHANGED <<refs, s_full_pipeline, media, play, inner, serial>>

\* dump_audio_video_pipeline, Cam2Streamer_RefFullPipeline, nativeDumpPipelineNow: a
\* reference taken under s_lock, when there is a pipeline.
Snapshot(d) ==
  /\ holds[d] = 0 /\ s_full_pipeline # 0
  /\ holds' = [holds EXCEPT ![d] = s_full_pipeline] /\ refs' = Ref(s_full_pipeline)
  /\ UNCHANGED <<s_full_pipeline, media, play, inner, serial>>

\* nativeDumpPipelineNow calls dump_audio_video_pipeline, which takes its own: of the
\* same pipeline or of a later one.
DumpWithin(d) ==
  /\ holds[d] # 0 /\ inner[d] = 0 /\ s_full_pipeline # 0
  /\ inner' = [inner EXCEPT ![d] = s_full_pipeline] /\ refs' = Ref(s_full_pipeline)
  /\ UNCHANGED <<s_full_pipeline, media, play, holds, serial>>

DumpWithinEnds(d) ==
  /\ inner[d] # 0
  /\ inner' = [inner EXCEPT ![d] = 0] /\ refs' = Unref(inner[d])
  /\ UNCHANGED <<s_full_pipeline, media, play, holds, serial>>

DumpEnds(d) ==
  /\ holds[d] # 0 /\ inner[d] = 0
  /\ holds' = [holds EXCEPT ![d] = 0] /\ refs' = Unref(holds[d])
  /\ UNCHANGED <<s_full_pipeline, media, play, inner, serial>>

-----------------------------------------------------------------------------
RefInit ==
  /\ refs = [p \in Pipelines |-> 0] /\ s_full_pipeline = 0
  /\ made = 0 /\ alive = {} /\ owned = {} /\ prepared = {}
  /\ closures = [p \in Pipelines |-> 0]
  /\ playing = 0 /\ scanning = FALSE
  /\ holds = [d \in Dumpers |-> 0] /\ inner = [d \in Dumpers |-> 0]
  /\ serial \in BOOLEAN

MediaStep(p) == MediaPrepared(p) \/ Unprepared(p) \/ MediaFreed(p) \/ PipelineFinalized(p)

DumpStep(d) == Snapshot(d) \/ DumpWithin(d) \/ DumpWithinEnds(d) \/ DumpEnds(d)

RefNext ==
  \/ MakeMedia \/ PlayCaches \/ PlayEnds \/ Destroy
  \/ \E p \in Pipelines : MediaStep(p) \/ PlayBegins(p)
  \/ \E d \in Dumpers : DumpStep(d)

RefSpec == RefInit /\ [][RefNext]_refVars

\* Dumps and play requests come to their ends, and what nobody holds is finalized.
RefFairness ==
  /\ WF_refVars(PlayCaches) /\ WF_refVars(PlayEnds)
  /\ \A d \in Dumpers : WF_refVars(DumpWithinEnds(d)) /\ WF_refVars(DumpEnds(d))
  /\ \A p \in Pipelines : WF_refVars(PipelineFinalized(p))

RefFairSpec == RefSpec /\ RefFairness

-----------------------------------------------------------------------------
(* Properties.                                                              *)

RefTypeOK ==
  /\ refs \in [Pipelines -> Nat] /\ made \in 0 .. MaxPipelines
  /\ s_full_pipeline \in 0 .. made /\ alive \subseteq 1 .. made
  /\ owned \subseteq 1 .. made /\ prepared \subseteq owned
  /\ closures \in [Pipelines -> {0, Handlers}]
  /\ playing \in 0 .. made /\ scanning \in BOOLEAN
  /\ holds \in [Dumpers -> 0 .. made] /\ inner \in [Dumpers -> 0 .. made]
  /\ serial \in BOOLEAN

One(b) == IF b THEN 1 ELSE 0

\* Those that hold p: its media, the cache, a play request, dumps, and the closures
\* on its own bus.
Holders(p) ==
  One(p \in owned) + One(p = s_full_pipeline) + One(p = playing)
  + Cardinality({d \in Dumpers : holds[d] = p}) + Cardinality({d \in Dumpers : inner[d] = p})
  + closures[p]

\* "dereferencing the global lock-free here would risk a NULL-deref/UAF": whenever the
\* media is taken down under a dump, each pipeline has a reference for each that holds
\* it, so none of them holds a finalized one.  With serial media no other reference is
\* left behind: those of the closures are the only ones that outlive their use.
RefsAreHeld ==
  \A p \in Pipelines :
    /\ refs[p] >= Holders(p)
    /\ p \notin alive => Holders(p) = 0
    /\ serial => refs[p] = Holders(p)

\* "this unref will not finalize under the lock", and the dump reports "'no pipeline'
\* until the next client plays": what is cached belongs to a media that lives.
CachedIsOwned ==
  serial /\ s_full_pipeline # 0 => s_full_pipeline \in prepared

\* on_media_prepared: "these handlers die with the bus, so re-connecting here each time
\* is correct and leak-free": the pipeline of a media that is gone is finalized.
HandlersDieWithTheBus ==
  \A p \in Pipelines : made >= p /\ p \notin owned ~> p \notin alive
=============================================================================
