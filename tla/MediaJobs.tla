----------------------------- MODULE MediaJobs -----------------------------
(***************************************************************************)
(* Generation of media (services/media): video jobs, which a provider      *)
(* works on while a task of the runtime polls it, and the cache images are *)
(* served from.  Each video stands for one call of generate_video, each    *)
(* image for one of generate_image.  Sizes, keys and the text of errors    *)
(* are left out.                                                           *)
(***************************************************************************)
EXTENDS Naturals, Sequences, FiniteSets, SequencesExt

CONSTANTS
    Videos, Images,
    MaxJobs,  \* video_max_concurrent_jobs
    MaxItems  \* cache_max_items

ASSUME MediaAssumption == MaxJobs \in Nat \ {0} /\ MaxItems \in Nat \ {0}

VARIABLES
    mediaUp,   \* "up", "stopping", "down"
    videoJob,  \* [Videos -> its state]
    polling,   \* [Videos -> its poll_task]
    provider,  \* [Videos -> the provider's job]
    image,     \* [Images -> "new", "asked", "stored", "failed"]
    cache      \* _entries by expiry: [id, expired]

mediaVars == <<mediaUp, videoJob, polling, provider, image, cache>>

(* active_count, _video_submissions                                        *)
ActiveJob(v) == videoJob[v] \in {"submitted", "processing"}
ActiveJobs == {v \in Videos : ActiveJob(v)}
Submitting == {v \in Videos : videoJob[v] = "submitting"}
JobEnded == {"completed", "failed", "timed out"}

-----------------------------------------------------------------------------
(* generate_video reserves, submits to the provider, and is tracked.       *)

BugMayGenerate == mediaUp = "up" /\ Cardinality(ActiveJobs) < MaxJobs   \* Mutant: no reservation.
MayGenerate == mediaUp = "up" /\ Cardinality(ActiveJobs) + Cardinality(Submitting) < MaxJobs

GenerateVideo(v) ==
    /\ videoJob[v] = "new"
    /\ videoJob' = [videoJob EXCEPT ![v] = IF MayGenerate THEN "submitting" ELSE "refused"]
    /\ UNCHANGED <<mediaUp, polling, provider, image, cache>>

(* submit_runway, submit_luma: the provider takes the job, or does not.    *)
ProviderTakes(v) ==
    /\ videoJob[v] = "submitting" /\ provider[v] = "none"
    /\ provider' = [provider EXCEPT ![v] = "working"]
    /\ UNCHANGED <<mediaUp, videoJob, polling, image, cache>>

SubmissionFails(v) ==
    /\ videoJob[v] = "submitting"
    /\ videoJob' = [videoJob EXCEPT ![v] = "refused"]
    /\ UNCHANGED <<mediaUp, polling, provider, image, cache>>

(* The answer arrives: JobTracker.submit, which checks the limit again.    *)
Submitted(v) ==
    /\ videoJob[v] = "submitting" /\ provider[v] # "none" /\ mediaUp = "up"
    /\ IF Cardinality(ActiveJobs) < MaxJobs
       THEN /\ videoJob' = [videoJob EXCEPT ![v] = "submitted"]
            /\ polling' = [polling EXCEPT ![v] = "sleeping"]
       ELSE videoJob' = [videoJob EXCEPT ![v] = "untracked"] /\ UNCHANGED polling
    /\ UNCHANGED <<mediaUp, provider, image, cache>>

ProviderEnds(v, verdict) ==
    /\ provider[v] = "working"
    /\ provider' = [provider EXCEPT ![v] = verdict]
    /\ UNCHANGED <<mediaUp, videoJob, polling, image, cache>>

-----------------------------------------------------------------------------
(* _poll_loop.  What it read is kept in "read", until it resumes.          *)

Asks(v) ==
    /\ polling[v] = "sleeping"
    /\ polling' = [polling EXCEPT ![v] = "asking"]
    /\ UNCHANGED <<mediaUp, videoJob, provider, image, cache>>

(* poll_runway, poll_luma: a job without a url counts as an error.         *)
StatusRead(v) ==
    /\ polling[v] = "asking"
    /\ \E status \in {provider[v], "failed"} :
          polling' = [polling EXCEPT ![v] = status]
    /\ UNCHANGED <<mediaUp, videoJob, provider, image, cache>>

StatusTaken(v) ==
    /\ polling[v] \in {"working", "completed", "failed"}
    /\ IF polling[v] = "working"
       THEN /\ videoJob' = [videoJob EXCEPT ![v] = "processing"]
            /\ polling' = [polling EXCEPT ![v] = "sleeping"]
       ELSE /\ videoJob' = [videoJob EXCEPT ![v] = polling[v]]
            /\ polling' = [polling EXCEPT ![v] = "done"]
    /\ UNCHANGED <<mediaUp, provider, image, cache>>

Polled(v) == polling[v] \notin {"none", "done"}

TimesOut(v) ==
    /\ Polled(v)
    /\ polling' = [polling EXCEPT ![v] = "done"]
    /\ videoJob' = [videoJob EXCEPT ![v] = "timed out"]
    /\ UNCHANGED <<mediaUp, provider, image, cache>>

(* JobTracker.cancel, which no route calls: the task is thrown at its next *)
(* step, also when it was about to resume with a status.                   *)
BugPollCancelled(v) == UNCHANGED polling      \* Mutant: only the state is set.
PollCancelled(v) == polling' = [polling EXCEPT ![v] = IF Polled(v) THEN "done" ELSE @]

CancelJob(v) ==
    /\ mediaUp = "up" /\ (ActiveJob(v) \/ videoJob[v] \in JobEnded)
    /\ PollCancelled(v)
    /\ videoJob' = [videoJob EXCEPT ![v] = IF ActiveJob(v) THEN "failed" ELSE @]
    /\ UNCHANGED <<mediaUp, provider, image, cache>>

-----------------------------------------------------------------------------
(* Images.                                                                 *)

GenerateImage(i) ==
    /\ image[i] = "new" /\ mediaUp = "up"
    /\ image' = [image EXCEPT ![i] = "asked"]
    /\ UNCHANGED <<mediaUp, videoJob, polling, provider, cache>>

(* ImageCache.store: the expired go first, then the oldest.                *)
Cleaned(c) == SelectSeq(c, LAMBDA e : ~e.expired)
Room(c) == LET left == IF Len(c) >= MaxItems THEN Cleaned(c) ELSE c
           IN IF Len(left) >= MaxItems THEN Tail(left) ELSE left

ImageGenerated(i) ==
    /\ image[i] = "asked"
    /\ \/ /\ mediaUp = "up"
          /\ cache' = Append(Room(cache), [id |-> i, expired |-> FALSE])
          /\ image' = [image EXCEPT ![i] = "stored"]
       \/ /\ image' = [image EXCEPT ![i] = "failed"]      \* the provider, or no cache any more
          /\ UNCHANGED cache
    /\ UNCHANGED <<mediaUp, videoJob, polling, provider>>

(* All entries live equally long, so the oldest expires first.             *)
Expires ==
    /\ \E n \in 1..Len(cache) :
          /\ ~cache[n].expired /\ \A m \in 1..(n - 1) : cache[m].expired
          /\ cache' = [cache EXCEPT ![n].expired = TRUE]
    /\ UNCHANGED <<mediaUp, videoJob, polling, provider, image>>

(* get_cached_image drops an expired entry it meets.                       *)
GetCachedImage(i) ==
    /\ \E n \in 1..Len(cache) : cache[n].id = i /\ cache[n].expired
    /\ cache' = SelectSeq(cache, LAMBDA e : e.id # i)
    /\ UNCHANGED <<mediaUp, videoJob, polling, provider, image>>

-----------------------------------------------------------------------------
(* stop: submissions first, then the polls, then the tracker and the cache. *)

StopMedia ==
    /\ mediaUp = "up" /\ mediaUp' = "stopping"
    /\ videoJob' = [v \in Videos |-> IF v \in Submitting THEN "cancelled" ELSE videoJob[v]]
    /\ UNCHANGED <<polling, provider, image, cache>>

MediaStopped ==
    /\ mediaUp = "stopping" /\ mediaUp' = "down"
    /\ polling' = [v \in Videos |-> IF Polled(v) THEN "done" ELSE polling[v]]
    /\ cache' = <<>>
    /\ UNCHANGED <<videoJob, provider, image>>

MediaInit ==
    /\ mediaUp = "up" /\ cache = <<>>
    /\ videoJob = [v \in Videos |-> "new"] /\ polling = [v \in Videos |-> "none"]
    /\ provider = [v \in Videos |-> "none"] /\ image = [i \in Images |-> "new"]

MediaNext ==
    \/ \E v \in Videos :
          \/ GenerateVideo(v) \/ ProviderTakes(v) \/ SubmissionFails(v) \/ Submitted(v)
          \/ \E verdict \in {"completed", "failed"} : ProviderEnds(v, verdict)
          \/ Asks(v) \/ StatusRead(v) \/ StatusTaken(v) \/ TimesOut(v) \/ CancelJob(v)
    \/ \E i \in Images : GenerateImage(i) \/ ImageGenerated(i) \/ GetCachedImage(i)
    \/ Expires \/ StopMedia \/ MediaStopped

-----------------------------------------------------------------------------

(* A slot is reserved while the provider is asked: never more jobs than    *)
(* allowed, and no job a provider took is turned away by the tracker, to   *)
(* be paid for and polled by nobody.                                       *)
SlotsKept == /\ Cardinality(ActiveJobs) + Cardinality(Submitting) <= MaxJobs
             /\ \A v \in Videos : videoJob[v] # "untracked"

(* What the status route said of a job that ended is never taken back: not *)
(* by an answer read before a cancel or a timeout; and an image that can   *)
(* still be served is dropped only for room, when no expired one is kept.  *)
VerdictStays ==
    [][/\ \A v \in Videos : videoJob[v] \in JobEnded => videoJob'[v] = videoJob[v]
       /\ mediaUp' # "down" =>
             \A n \in 1..Len(cache) :
                ~cache[n].expired /\ (\A m \in 1..Len(cache') : cache'[m].id # cache[n].id) =>
                    Len(cache') = MaxItems /\ \A m \in 1..Len(cache') : ~cache'[m].expired
      ]_mediaVars

(* A media job that was taken has one end, which is told for good.         *)
MediaHolds == []SlotsKept /\ VerdictStays
=============================================================================
