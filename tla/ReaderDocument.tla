--------------------------- MODULE ReaderDocument ---------------------------
(***************************************************************************)
(* How the PDF of a book reaches the reader.  React may mount, unmount and *)
(* mount the reader again; the mounts share one request, which is aborted  *)
(* only when nobody waits for it after a short handoff window.  The binary *)
(* download falls back to JSON.  A promise's continuations run before any  *)
(* other task, so they belong to the action that settles it.               *)
(***************************************************************************)
EXTENDS Naturals, Sequences, FiniteSets

CONSTANTS MaxMounts    \* bound: times the reader is mounted

DocumentAssumption == MaxMounts \in Nat \ {0}

VARIABLES downloads,  \* requests, in the order they were created
          sharing,    \* inFlightPDFRequests.get(url): a request or 0
          mounts      \* the readers mounted so far

documentVars == <<downloads, sharing, mounts>>

Settled(d) == d.stage \in {"received", "failed", "aborted"}
NewDownload == [stage |-> "binary", consumers |-> 0, timer |-> FALSE]

DocumentInit == downloads = <<>> /\ sharing = 0 /\ mounts = <<>>

\* the continuations of a settled request: the map forgets it and each reader
\* that still waits, and was not unmounted, opens the bytes or shows the error
Settle(d, stage, ds) ==
  /\ downloads' = [ds EXCEPT ![d].stage = stage]
  /\ sharing' = IF sharing = d THEN 0 ELSE sharing
  /\ mounts' = [m \in DOMAIN mounts |->
       IF mounts[m].request # d \/ mounts[m].stage # "waiting" THEN mounts[m]
       ELSE [mounts[m] EXCEPT !.stage = IF ~mounts[m].mounted THEN "gone"
                                        ELSE IF stage = "received" THEN "parsing"
                                        ELSE "error"]]

Acquire(d) == [d EXCEPT !.timer = FALSE, !.consumers = @ + 1]

Mount ==
  LET fresh == sharing = 0
      d == IF fresh THEN Len(downloads) + 1 ELSE sharing
      ds == IF fresh THEN Append(downloads, NewDownload) ELSE downloads
  IN /\ Len(mounts) < MaxMounts /\ \A m \in DOMAIN mounts : ~mounts[m].mounted
     /\ downloads' = [ds EXCEPT ![d] = Acquire(@)]
     /\ sharing' = d
     /\ mounts' = Append(mounts, [request |-> d, mounted |-> TRUE, stage |-> "waiting"])

Release(d) ==
  LET left == d.consumers - 1
  IN [d EXCEPT !.consumers = left, !.timer = @ \/ (left = 0 /\ ~Settled(d))]

Unmount ==
  \E m \in DOMAIN mounts :
    /\ mounts[m].mounted
    /\ mounts' = [mounts EXCEPT ![m].mounted = FALSE]
    /\ downloads' = [downloads EXCEPT ![mounts[m].request] = Release(@)]
    /\ UNCHANGED sharing

\* 180 ms after the last reader left
AbortTimer ==
  \E d \in DOMAIN downloads :
    LET fired == [downloads EXCEPT ![d].timer = FALSE]
    IN /\ downloads[d].timer
       /\ IF downloads[d].consumers = 0 /\ ~Settled(downloads[d])
          THEN Settle(d, "aborted", fired)
          ELSE downloads' = fired /\ UNCHANGED <<sharing, mounts>>

\* anything but status 200 with PDF bytes is a failure
BinaryAnswers ==
  \E d \in DOMAIN downloads, isPDF \in BOOLEAN :
    /\ downloads[d].stage = "binary"
    /\ IF isPDF THEN Settle(d, "received", downloads)
       ELSE /\ downloads' = [downloads EXCEPT ![d].stage = "json"]
            /\ UNCHANGED <<sharing, mounts>>

JSONAnswers ==
  \E d \in DOMAIN downloads, isPDF \in BOOLEAN :
    /\ downloads[d].stage = "json"
    /\ Settle(d, IF isPDF THEN "received" ELSE "failed", downloads)

\* getDocument: a reader that is gone by then destroys the document
Parsed ==
  \E m \in DOMAIN mounts, valid \in BOOLEAN :
    /\ mounts[m].stage = "parsing"
    /\ mounts' = [mounts EXCEPT ![m].stage = IF ~mounts[m].mounted THEN "gone"
                                             ELSE IF valid THEN "open" ELSE "error"]
    /\ UNCHANGED <<downloads, sharing>>

DocumentNext == \/ Mount \/ Unmount \/ AbortTimer \/ BinaryAnswers \/ JSONAnswers \/ Parsed

DocumentSpec == DocumentInit /\ [][DocumentNext]_documentVars

----------------------------------------------------------------------------
(* Requests and readers refer to each other. *)
DocumentTypeOK ==
  /\ downloads \in Seq([stage : {"binary", "json", "received", "failed", "aborted"},
                        consumers : 0 .. MaxMounts, timer : BOOLEAN])
  /\ sharing \in 0 .. Len(downloads)
  /\ mounts \in Seq([request : DOMAIN downloads, mounted : BOOLEAN,
                     stage : {"waiting", "parsing", "open", "error", "gone"}])

(* A download runs for the readers that wait for it: there is one at a time, it
   counts exactly the mounted ones, an abandoned one is about to be aborted,
   and no mounted reader ever fails because another one left. *)
DownloadsFollowReaders ==
  \A d \in DOMAIN downloads :
    LET readers == {m \in DOMAIN mounts : mounts[m].mounted /\ mounts[m].request = d}
    IN /\ ~Settled(downloads[d]) =>
            /\ sharing = d
            /\ downloads[d].consumers = Cardinality(readers)
            /\ downloads[d].timer = (readers = {})
       /\ downloads[d].stage = "aborted" => readers = {}

=============================================================================
