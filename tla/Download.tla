------------------------------ MODULE Download ------------------------------
(* cases/curl/download.cc: the Downloader asks for the header of a file and *)
(* then fetches the file, in kConcurrent ranges if the server offers        *)
(* ranges and the file is long enough, else in one transfer.                *)
EXTENDS Curl

CONSTANTS kConcurrent,  \* number of pieces
          kMinPiece,    \* bytes a piece must at least have; 4096 in the code
          Lengths       \* values Content-Length may announce

Pieces == 0..(kConcurrent - 1)
header == kConcurrent      \* req_
single == kConcurrent + 1  \* req2_

ASSUME DownloadAssumption ==
    /\ kConcurrent \in Nat \ {0} /\ kMinPiece \in Nat \ {0}
    /\ Lengths \subseteq Nat
    /\ Requests = Pieces \cup {header, single}

VARIABLES found,        \* found_
          acceptRanges, \* acceptRanges_
          length,       \* length_
          concurrent,   \* concurrent_
          quit,         \* EventLoop::quit_
          file,         \* the bytes written to the file of each request
          failed        \* the requests whose transfer ended with an error

headerVars == <<found, acceptRanges, length>>
fileVars == <<file, failed>>
vars == <<curlVars, headerVars, concurrent, quit, fileVars>>

Init ==
    /\ CurlInit({header})
    /\ found = FALSE /\ acceptRanges = FALSE /\ length = 0
    /\ concurrent = 0 /\ quit = FALSE
    /\ file = [r \in Requests |-> {}] /\ failed = {}

-----------------------------------------------------------------------------
(* Mutant: the end of a range taken as exclusive.                           *)
PieceRangeOverlapping(i, len) ==
    LET pieceLen == len \div kConcurrent
    IN IF i < kConcurrent - 1 THEN (i * pieceLen)..((i + 1) * pieceLen)
                              ELSE (i * pieceLen)..(len - 1)

(* The bytes piece i of a file of len bytes asks for, as the Range header   *)
(* of concurrentDownload() names them.                                      *)
PieceRange(i, len) ==
    LET pieceLen == len \div kConcurrent
    IN IF i < kConcurrent - 1 THEN (i * pieceLen)..((i + 1) * pieceLen - 1)
                              ELSE (i * pieceLen)..(len - 1)

Wanted(r) == IF r = header THEN {} ELSE IF r = single THEN 0..(length - 1) ELSE PieceRange(r, length)

-----------------------------------------------------------------------------
(* The end of a transfer, with what arrived during it: the header lines, in *)
(* any selection (onHeader), or everything a request wanted (onData), or an *)
(* error after which the file is not looked at.                             *)
OnHeader ==
    /\ found' \in BOOLEAN
    /\ acceptRanges' \in BOOLEAN
    /\ length' \in Lengths \cup {0}

TransferEnds(r) ==
    /\ Complete(r)
    /\ \/ /\ easy[r] = "live"
          /\ file' = [file EXCEPT ![r] = Wanted(r)]
          /\ UNCHANGED failed
       \/ failed' = failed \cup {r} /\ UNCHANGED file
    /\ IF r = header /\ easy[r] = "live" THEN OnHeader ELSE UNCHANGED headerVars
    /\ UNCHANGED <<concurrent, quit>>

-----------------------------------------------------------------------------
(* Done callbacks. *)

(* concurrentDownload(): a piece whose file cannot be opened is skipped and *)
(* the loop told to quit; the others are started all the same.              *)
ConcurrentDownload(opened) ==
    /\ acceptRanges /\ length >= kConcurrent * kMinPiece
    /\ Done(header, {}, opened)
    /\ concurrent' = kConcurrent
    /\ quit' = (quit \/ opened # Pieces)

(* Mutant: the single transfer is not counted.                              *)
SingleDownloadUncounted ==
    /\ ~(acceptRanges /\ length >= kConcurrent * kMinPiece) /\ found
    /\ \/ Done(header, {header}, {single}) /\ UNCHANGED <<concurrent, quit>>
       \/ Done(header, {}, {}) /\ quit' = TRUE /\ UNCHANGED concurrent

SingleDownload ==
    /\ ~(acceptRanges /\ length >= kConcurrent * kMinPiece) /\ found
    /\ \/ Done(header, {header}, {single}) /\ concurrent' = 1 /\ UNCHANGED quit
       \/ Done(header, {}, {}) /\ quit' = TRUE /\ UNCHANGED concurrent

NotFound ==
    /\ ~(acceptRanges /\ length >= kConcurrent * kMinPiece) /\ ~found
    /\ Done(header, {}, {})
    /\ quit' = TRUE
    /\ UNCHANGED concurrent

OnHeaderDone ==
    /\ \/ \E opened \in SUBSET Pieces : ConcurrentDownload(opened)
       \/ SingleDownload
       \/ NotFound
    /\ UNCHANGED <<headerVars, fileVars>>

(* onDownloadDone(), for a piece after Piece::onDone() let go of its        *)
(* request; neither looks at the result of the transfer.                    *)
OnDownloadDone(r) ==
    /\ Done(r, IF r = single THEN {} ELSE {r}, {})
    /\ concurrent' = concurrent - 1
    /\ quit' = (quit \/ concurrent' <= 0)
    /\ UNCHANGED <<headerVars, fileVars>>

-----------------------------------------------------------------------------
DownloadStep ==
    \/ OnHeaderDone
    \/ \E r \in Requests \ {header} : OnDownloadDone(r)
    \/ (LoopStep \/ Prepare(quit)) /\ UNCHANGED <<headerVars, concurrent, quit, fileVars>>

Next ==
    \/ \E r \in Requests : TransferEnds(r)
    \/ LibcurlStep /\ UNCHANGED <<headerVars, concurrent, quit, fileVars>>
    \/ DownloadStep

(* The loop thread runs, and every transfer ends: the peer answers to the   *)
(* end, or closes, or the network reports an error.                         *)
Spec == /\ Init /\ [][Next]_vars
        /\ WF_vars(DownloadStep)
        /\ \A r \in Requests : SF_vars(TransferEnds(r))

-----------------------------------------------------------------------------
(* Properties. *)

(* Type invariant of Curl and of the Downloader.                            *)
TypeOK ==
    /\ CurlTypeOK
    /\ found \in BOOLEAN /\ acceptRanges \in BOOLEAN /\ length \in Lengths \cup {0}
    /\ concurrent \in 0..kConcurrent /\ quit \in BOOLEAN
    /\ file \in [Requests -> SUBSET Nat] /\ failed \subseteq Requests

(* The loop was told to quit because a piece could not open its file.       *)
Abandoned == quit /\ concurrent > 0

(* The assertions of setChannel(), socketCallback() and ~Request(): channel *)
(* and socket agree, and no request is destroyed whose channel watches a    *)
(* socket, neither by a done callback nor with the Downloader.  A download  *)
(* that is abandoned is excepted: its transfers may just have started.      *)
Assertions ==
    /\ ChannelMatchesSocket
    /\ \A r \in Requests : r \notin held => channel[r] = NULL
    /\ pc = "ended" => \A r \in Requests : channel[r] = NULL \/ Abandoned

(* When the loop ends, and no transfer failed and no file could not be      *)
(* opened, the files hold the bytes 0..length_-1, each exactly once.        *)
FileWhole ==
    pc = "ended" /\ failed = {} /\ ~Abandoned /\ (\E r \in Requests \ {header} : easy[r] # "none")
    =>  /\ UNION {file[r] : r \in Requests} = 0..(length - 1)
        /\ \A q, r \in Requests : q # r => file[q] \cap file[r] = {}

(* The program ends: no transfer is left without an event or a timer that   *)
(* drives it, none that finished is forgotten by checkFinish(), and quit()  *)
(* is reached whatever the transfers' results.                              *)
DownloadEnds == <>(pc = "destroyed")
=============================================================================
