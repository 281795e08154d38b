------------------------------- MODULE BlobInfo -------------------------------
(***************************************************************************)
(* The first requests of an upload: getBlobInfo() of                       *)
(* lib/commands/asm/iaas/upload/blobInfo.js as pageBlob.js calls it, and   *)
(* what onGotBlobInfo() does with its answer.                              *)
(*                                                                         *)
(* The regions of the blob, its properties and the creation of its         *)
(* container are asked for in parallel and answered in any order.  A 404   *)
(* says that there is no blob yet, which is no error, and ends the inquiry *)
(* at once.  Then the blob is created, or the footer that the blob has is  *)
(* downloaded to compare it.                                               *)
(***************************************************************************)
EXTENDS CallbackAggregator

\* force:     -f, the container alone is asked for
\* telemetry: sent before the CLI exits, a failed command goes on for a while
Options == [force : BOOLEAN, telemetry : BOOLEAN]

Requests == {"listBlobRegion", "getBlobProperties", "createContainerIfNotExists"}

VARIABLES
  options,
  container,   \* the container exists (the service)
  blob,        \* the service's: "absent", "data", or "empty" when it has no
               \* regions or none as far behind as the footer's
  requests,    \* state of each request, see States
  regions,     \* listBlobRegion's answer had regions in it
  agg,
  phase,
  calls,       \* how often onGotBlobInfo() was called
  told,        \* what with
  creation     \* state of createPageBlob()

service == <<container, blob>>
vars == <<options, service, requests, regions, agg, phase, calls, told, creation>>

\* "unsent":   not asked for
\* "out":      on its way to the service
\* "ok", "notFound", "failed": served, the answer is on its way
\* "answered": its callback has been called
States == {"unsent", "out", "ok", "notFound", "failed", "answered"}
Served == {"ok", "notFound", "failed"}

\* "asking":      the requests are out
\* "downloading": getBlobToStream() is out
\* "creating":    createPageBlob() is out
\* "uploading":   onBlobCreated() was called
\* "over":        the command has failed
Phases == {"asking", "downloading", "creating", "uploading", "over"}

\* Mutation: -f asks for the blob as well.
Asked_TheBlobToo == Requests

\* The requests of getBlobInfo(): without a blob name only the container's.
Asked ==
  IF options.force THEN {"createContainerIfNotExists"} ELSE Requests

Init ==
  /\ options \in Options
  /\ container \in BOOLEAN
  /\ blob \in IF container THEN {"absent", "empty", "data"} ELSE {"absent"}
  /\ requests = [r \in Requests |-> IF r \in Asked THEN "out" ELSE "unsent"]
  /\ regions = FALSE
  /\ agg = [NewAggregator EXCEPT !.registered = Asked]
  /\ phase = "asking"
  /\ calls = 0
  /\ told = "nothing yet"
  /\ creation = "none"

-------------------------------------------------------------------------------
(* The service.                                                             *)

\* A request about the blob is served.
BlobServed(request) ==
  /\ request # "createContainerIfNotExists"
  /\ requests[request] = "out"
  /\ requests' = [requests EXCEPT
                    ![request] = IF blob = "absent" THEN "notFound" ELSE "ok"]
  /\ regions' = IF request = "listBlobRegion" THEN blob = "data" ELSE regions
  /\ UNCHANGED <<options, service, agg, phase, calls, told, creation>>

ContainerServed ==
  /\ requests["createContainerIfNotExists"] = "out"
  /\ requests' = [requests EXCEPT !["createContainerIfNotExists"] = "ok"]
  /\ container' = TRUE
  /\ UNCHANGED <<options, blob, regions, agg, phase, calls, told, creation>>

\* Timeouts, lost connections and the like.
RequestFails(request) ==
  /\ requests[request] = "out"
  /\ requests' = [requests EXCEPT ![request] = "failed"]
  /\ UNCHANGED <<options, service, regions, agg, phase, calls, told, creation>>

CreationServed ==
  /\ creation = "out"
  /\ IF container
     THEN creation' = "ok" /\ blob' = "empty"
     ELSE creation' = "notFound" /\ UNCHANGED blob
  /\ UNCHANGED <<options, container, requests, regions, agg, phase, calls, told>>

CreationFails ==
  /\ creation = "out"
  /\ creation' = "failed"
  /\ UNCHANGED <<options, service, requests, regions, agg, phase, calls, told>>

\* Another client of the storage account.
SomeoneDeletesBlob ==
  /\ phase = "asking"
  /\ blob # "absent"
  /\ blob' = "absent"
  /\ UNCHANGED <<options, container, requests, regions, agg, phase, calls, told,
                 creation>>

-------------------------------------------------------------------------------
(* The client.                                                              *)

Create == phase' = "creating" /\ creation' = "out"

\* Which blob is continued and which is created anew is UploadSession's.  An
\* error ends the process, at once or, with telemetry, after it has gone on as
\* if it did not.
OnGotBlobInfo(what) ==
  /\ calls' = calls + 1
  /\ told' = what
  /\ \/ /\ what \in {"no blob", "info"}
        /\ Create
     \/ /\ what = "info and footer"
        /\ \/ phase' = "uploading" /\ UNCHANGED creation
           \/ Create
     \/ /\ what = "error"
        /\ IF options.telemetry THEN Create
           ELSE phase' = "over" /\ UNCHANGED creation

SaysNoBlob(request) == requests[request] = "notFound"

\* The range asked for lies in a blob that has regions.
HasFooter == regions

\* The function given to callbackAndAggregator(), called for a request.
Final(request) ==
  IF requests[request] # "ok"
  THEN OnGotBlobInfo(IF SaysNoBlob(request) THEN "no blob" ELSE "error")
  ELSE IF options.force THEN OnGotBlobInfo("no blob")
  ELSE IF HasFooter
       THEN phase' = "downloading" /\ UNCHANGED <<calls, told, creation>>
       ELSE OnGotBlobInfo("info")

\* A request's callback is called.
Answered(request) ==
  /\ phase # "over"
  /\ requests[request] \in Served
  /\ requests' = [requests EXCEPT ![request] = "answered"]
  /\ agg' = Call(agg, request, requests[request] # "ok")
  /\ IF CallsFinal(agg, request, requests[request] # "ok")
     THEN Final(request)
     ELSE UNCHANGED <<phase, calls, told, creation>>
  /\ UNCHANGED <<options, service, regions>>

\* getBlobToStream() ends the stream, or answers with an error.
Downloaded ==
  /\ phase = "downloading"
  /\ OnGotBlobInfo("info and footer")
  /\ UNCHANGED <<options, service, requests, regions, agg>>

DownloadFails ==
  /\ phase = "downloading"
  /\ OnGotBlobInfo("error")
  /\ UNCHANGED <<options, service, requests, regions, agg>>

CreationAnswered ==
  /\ phase = "creating"
  /\ creation \in Served
  /\ phase' = IF creation = "ok" THEN "uploading" ELSE "over"
  /\ UNCHANGED <<options, service, requests, regions, agg, calls, told, creation>>

-------------------------------------------------------------------------------
\* Nothing is left that could call the process back, which ends it.
Terminated ==
  /\ \/ phase \in {"uploading", "over"}
     \/ /\ phase = "asking"
        /\ \A request \in Requests : requests[request] \in {"unsent", "answered"}
  /\ UNCHANGED vars

Service ==
  \/ \E request \in Requests : BlobServed(request) \/ RequestFails(request)
  \/ ContainerServed
  \/ CreationServed \/ CreationFails

Client ==
  \/ \E request \in Requests : Answered(request)
  \/ Downloaded \/ DownloadFails
  \/ CreationAnswered

Next == Service \/ Client \/ SomeoneDeletesBlob \/ Terminated

\* Every request is served, and every answer arrives.
Fairness == WF_vars(Service) /\ WF_vars(Client)

Spec == Init /\ [][Next]_vars /\ Fairness

-------------------------------------------------------------------------------
(* Properties.                                                              *)

SomethingFailed == told = "error" \/ creation = "failed"

\* However the answers are ordered, onGotBlobInfo() runs once: a second call
\* would create the blob anew under a running upload.  It is given regions and
\* properties only when both were answered, and then of a blob in a container
\* that is known to exist.
InfoIsComplete ==
  /\ calls <= 1
  /\ told \in {"info", "info and footer"}
       => \A request \in Asked : requests[request] = "answered"

\* With -f the blob is created, or the base copied, only when the container is
\* there.
ForcedCreationFindsContainer ==
  options.force /\ phase = "creating" => container \/ told = "error"

\* "blob is not there: This is not considered an error for our purpose": if
\* no request fails, a blob that is not there is created.
MissingBlobIsNoError == creation = "notFound" => SomethingFailed

===============================================================================
