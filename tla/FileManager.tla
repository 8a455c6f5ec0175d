---------------------------- MODULE FileManager ----------------------------
(***************************************************************************)
(* The old file manager (src/file_manager.rs): one stream on which the     *)
(* dashboard lists directories and transfers files.                        *)
(*                                                                         *)
(* A loop takes the frames one by one.  While an upload is under way each  *)
(* frame is data, whatever it was meant to be; otherwise its first byte is *)
(* a command.  Downloads are tasks of their own, which send through the    *)
(* same channel as the loop.  Writes go through tokio's File, which hands  *)
(* them to another thread: a write that fails is reported by the next one, *)
(* and by nothing when the next operation is sync_all.                     *)
(***************************************************************************)
EXTENDS Integers, Sequences, FiniteSets

CONSTANTS
    Capacity,    \* frames in the channel to the dashboard (32), and arrived
    MaxSize,     \* bound: units of data in a file
    MaxCommands  \* bound: commands of the dashboard

\* TaskRun assumes it.
FileManagerAssumption ==
    Capacity \in Nat \ {0} /\ MaxSize \in Nat /\ MaxCommands \in Nat

Commands == 1 .. MaxCommands

None == 0

VARIABLES
    inbox,      \* frames that arrived
    ending,     \* "open", "end" or "broken": the dashboard's direction
    cut,        \* the other direction is gone, too
    outbox,     \* frames on their way to the dashboard
    loop,       \* what drive_stream does
    unsent,      \* the frame it waits to send, as a sequence
    upload,     \* the upload under way
    lacking,    \* lacking[u]: units sent for upload u and not in its target
    refused,    \* uploads whose last write failed
    downloads,  \* the tasks in the join set
    issued,     \* counts the commands the dashboard has sent
    sending,    \* the dashboard's upload, and the units it has yet to send
    parser,     \* the download it receives, and the units it expects
    waiting,    \* the commands whose answer it has not received in full
    clear,      \* history: it has waited for each answer, and the files it
                \* downloaded ended where their header said
    garbled,    \* history: all that, and yet a frame arrived amid a download
                \* that it is not part of
    failed,     \* history: an upload was answered with an error
    untrue,     \* history: an upload was answered with NZUP, and its target
                \* lacked data
    misread     \* history: data were taken for a command, or a command for data

agent == <<loop, unsent, upload, lacking, refused, downloads, failed, untrue, misread>>
view == <<parser, waiting, clear>>
client == <<issued, sending, garbled, view>>
vars == <<inbox, ending, cut, outbox, agent, client>>

\* What a frame is meant to be; of is the command it is or belongs to.
Frame(kind, of, size) == [kind |-> kind, of |-> of, size |-> size]
KeepAlive == Frame("empty", None, 0)

Frames ==
    [kind: {"empty", "list", "download", "upload", "other", "data",
            "header", "chunk", "answer"},
     of: Commands \cup {None}, size: Int]

Download == [of: Commands, step: {"open", "send", "read", "failing"},
             out: Seq(Frames), left: Int]

TypeOK ==
    /\ inbox \in Seq(Frames) /\ outbox \in Seq(Frames) /\ unsent \in Seq(Frames)
    /\ Len(inbox) <= Capacity /\ Len(outbox) <= Capacity /\ Len(unsent) <= 1
    /\ ending \in {"open", "end", "broken"} /\ cut \in BOOLEAN
    /\ loop \in {"select", "sending", "lastSend", "drain", "done"}
    /\ upload \in [of: Commands \cup {None}, left: 0 .. MaxSize]
    /\ lacking \in [Commands -> Int] /\ refused \in SUBSET Commands
    /\ \A d \in downloads : d \in Download
    /\ issued \in 0 .. MaxCommands
    /\ sending \in [of: Commands \cup {None}, left: 0 .. MaxSize]
    /\ parser \in [of: Commands \cup {None}, left: 0 .. MaxSize]
    /\ waiting \in SUBSET Commands
    /\ clear \in BOOLEAN /\ garbled \in BOOLEAN /\ misread \in BOOLEAN
    /\ failed \in BOOLEAN /\ untrue \in BOOLEAN

Nothing == [of |-> None, left |-> 0]

Init ==
    /\ inbox = <<>> /\ ending = "open" /\ cut = FALSE /\ outbox = <<>>
    /\ loop = "select" /\ unsent = <<>> /\ upload = Nothing
    /\ lacking = [u \in Commands |-> 0] /\ refused = {}
    /\ downloads = {} /\ issued = 0
    /\ sending = Nothing /\ parser = Nothing
    /\ waiting = {} /\ clear = TRUE /\ garbled = FALSE
    /\ failed = FALSE /\ untrue = FALSE /\ misread = FALSE

-----------------------------------------------------------------------------
(* The dashboard *)

Arrives(frame) ==
    /\ ending = "open" /\ Len(inbox) < Capacity
    /\ inbox' = Append(inbox, frame)
    /\ UNCHANGED <<ending, cut, outbox, loop, unsent, upload, refused, downloads,
                   failed, untrue, misread, garbled>>

\* What it still expects, as long as it can tell the frames apart.
Expects(download, answers, now) ==
    /\ clear' = now
    /\ parser' = IF now THEN download ELSE Nothing
    /\ waiting' = IF now THEN answers ELSE {}

\* It may send a command before the answer to an earlier one is complete, and
\* (a bound) sends none when data were taken for a command.
Command(kind, size) ==
    /\ issued < MaxCommands /\ sending = Nothing /\ ~misread
    /\ Arrives(Frame(kind, issued + 1, size))
    /\ issued' = issued + 1
    /\ Expects(parser, IF kind = "other" THEN waiting ELSE waiting \cup {issued + 1},
               clear /\ waiting = {})
    /\ sending' = IF kind = "upload" /\ size > 0
                  THEN [of |-> issued + 1, left |-> size] ELSE sending
    /\ UNCHANGED lacking

\* Data of its upload; the last frame may be longer than what was declared.
SendData(size) ==
    /\ sending # Nothing
    /\ Arrives(Frame("data", sending.of, size))
    /\ sending' = IF size >= sending.left THEN Nothing
                  ELSE [sending EXCEPT !.left = @ - size]
    /\ lacking' = [lacking EXCEPT ![sending.of] = @ + size]
    /\ UNCHANGED <<issued, view>>

SendEmpty ==
    Arrives(KeepAlive) /\ UNCHANGED <<lacking, issued, sending, view>>

Ends ==
    /\ ending = "open"
    /\ \/ ending' = "end" /\ UNCHANGED inbox
       \/ ending' = "broken" /\ inbox' = <<>>
    /\ UNCHANGED <<cut, outbox, agent, client>>

Cuts ==
    /\ ending # "open" /\ ~cut /\ cut' = TRUE
    /\ outbox' = <<>>
    /\ UNCHANGED <<inbox, ending, agent, client>>

\* It reads a frame; a download is its header and as many units as that says.
Reads ==
    /\ outbox # <<>>
    /\ outbox' = Tail(outbox)
    /\ LET f == Head(outbox)
           part == f.kind \in {"chunk", "answer"} /\ f.of = parser.of
           left == IF f.kind = "chunk" THEN parser.left - f.size ELSE 0
           stray == f.kind = "chunk" \/ parser # Nothing
           more == f.kind \in {"header", "empty"} \/ (part /\ left > 0)
       IN  /\ garbled' = (garbled \/ (clear /\ f.kind # "empty" /\ ~part /\ stray))
           /\ Expects(CASE f.kind = "header" -> [of |-> f.of, left |-> f.size]
                        [] part -> IF left > 0 THEN [parser EXCEPT !.left = left] ELSE Nothing
                        [] OTHER -> parser,
                      IF more THEN waiting ELSE waiting \ {f.of},
                      clear)
    /\ UNCHANGED <<inbox, ending, cut, agent, issued, sending>>

Dashboard ==
    \/ Command("list", 0) \/ Command("download", 0)
    \/ Command("other", 0)
    \/ \E size \in 0 .. MaxSize : Command("upload", size)
    \/ \E size \in 1 .. MaxSize : SendData(size)
    \/ SendEmpty \/ Ends \/ Cuts \/ Reads

-----------------------------------------------------------------------------
(* The loop of drive_stream *)

StreamKept == UNCHANGED <<ending, cut, outbox, issued, sending, garbled>>

\* When something comes of it that it did not ask for, or a file turns out to
\* be of another size, the dashboard cannot tell the frames apart any more.
Misreads(wrong) ==
    misread' = (misread \/ wrong) /\ Expects(parser, waiting, clear /\ ~wrong)
Unclear(odd) == Expects(parser, waiting, clear /\ ~odd)

\* An answer is sent before the next frame is looked at.
Answer(f) == loop' = "sending" /\ unsent' = <<f>>
Goes(l) == loop' = l /\ UNCHANGED unsent

\* The answer to upload u, whose target lacks that many units, not counting
\* the last write: what befell that one sync_all does not say.
AnswerUpload(u, ok, lack) ==
    /\ failed' = (failed \/ ~ok)
    /\ untrue' = (untrue \/ (ok /\ lack # 0 /\ ~misread'))
    /\ lacking' = [lacking EXCEPT ![u] = 0] /\ refused' = refused \ {u}
    /\ Answer(Frame("answer", u, 0))

First == Head(inbox)

Taken == loop = "select" /\ inbox # <<>> /\ inbox' = Tail(inbox) /\ StreamKept

TakeEmpty ==
    Taken /\ First = KeepAlive /\ UNCHANGED <<agent, view>>

\* A command is a few bytes of data when it is written to a file.
SizeAsData(f) == IF f.kind = "data" THEN f.size ELSE 1

\* While an upload is under way, every frame is data.
TakeAsData ==
    /\ Taken /\ First # KeepAlive /\ upload # Nothing
    /\ Misreads(First.kind # "data")
    /\ UNCHANGED downloads

\* The last frame may hold more than what is left.
WriteData ==
    LET u == upload.of
        size == SizeAsData(First)
        lack == lacking[u] - size
    IN  /\ TakeAsData
        /\ IF size >= upload.left
           THEN /\ upload' = Nothing
                /\ \E ok \in BOOLEAN : AnswerUpload(u, ok, lack)
           ELSE /\ upload' = [upload EXCEPT !.left = @ - size]
                /\ \/ refused' = refused \cup {u} /\ UNCHANGED lacking
                   \/ lacking' = [lacking EXCEPT ![u] = lack] /\ UNCHANGED refused
                /\ Goes("select") /\ UNCHANGED <<untrue, failed>>

TakeDataUnchecked == WriteData

\* write_all takes the data over, and the disk may refuse them after that.
\* The last frame is followed by sync_all and the answer.
TakeData == upload.of \notin refused /\ WriteData

\* The write before this one failed, or a part of this one.
TakeDataFails ==
    /\ TakeAsData
    /\ upload' = Nothing /\ AnswerUpload(upload.of, FALSE, 0)

\* Without an upload the first byte of a frame is a command, and that of
\* data may be any.
TakeCommand(kind) ==
    /\ Taken /\ First # KeepAlive /\ upload = Nothing
    /\ First.kind \in {kind, "data"}
    /\ Misreads(First.kind = "data")

\* The directory, or else the user's home, or an error; an upload that does
\* not say its size has an error for an answer, too.
TakeList ==
    /\ TakeCommand("list")
    /\ Answer(Frame("answer", First.of, 0))
    /\ UNCHANGED <<upload, lacking, refused, downloads, failed, untrue>>

TakeDownload ==
    /\ TakeCommand("download")
    /\ downloads' = downloads \cup
          {[of |-> First.of, step |-> "open", out |-> <<>>, left |-> 0]}
    /\ Goes("select")
    /\ UNCHANGED <<upload, lacking, refused, failed, untrue>>

\* The target is created, or truncated; an upload of nothing is complete.
TakeUpload(size) ==
    /\ TakeCommand("upload")
    /\ First.kind = "upload" => size = First.size
    /\ IF size = 0
       THEN UNCHANGED upload /\ \E ok \in BOOLEAN : AnswerUpload(First.of, ok, lacking[First.of])
       ELSE /\ upload' = [of |-> First.of, left |-> size] /\ Goes("select")
            /\ UNCHANGED <<lacking, refused, failed, untrue>>
    /\ UNCHANGED downloads

\* The target cannot be created.
TakeUploadFails ==
    /\ TakeCommand("upload") /\ AnswerUpload(First.of, FALSE, 0)
    /\ UNCHANGED <<upload, downloads>>

TakeOther ==
    /\ TakeCommand("other") /\ Goes("select")
    /\ UNCHANGED <<upload, lacking, refused, downloads, failed, untrue>>

LoopKept == StreamKept /\ UNCHANGED <<inbox, lacking, refused, untrue, misread>>

\* The end of the stream fails the upload under way, whose file stays as it
\* is; the loop ends, and with it the downloads.
StreamEnds ==
    /\ loop = "select" /\ inbox = <<>> /\ ending # "open"
    /\ upload' = Nothing
    /\ IF upload = Nothing
       THEN Goes("drain") /\ UNCHANGED failed
       ELSE /\ failed' = TRUE
            /\ \/ loop' = "lastSend" /\ unsent' = <<Frame("answer", upload.of, 0)>>
               \/ ending = "end" /\ Goes("drain")   \* sync_all fails
    /\ LoopKept /\ UNCHANGED <<downloads, view>>

KeepAliveDue ==
    /\ loop = "select" /\ Answer(KeepAlive)
    /\ LoopKept /\ UNCHANGED <<upload, downloads, failed, view>>

\* What the sends of the loop and the steps of the downloads leave alone.
FilesKept ==
    UNCHANGED <<inbox, ending, cut, upload, lacking, refused, failed, untrue, misread,
                issued, sending, garbled>>

Send ==
    /\ loop \in {"sending", "lastSend"} /\ ~cut /\ Len(outbox) < Capacity
    /\ outbox' = outbox \o unsent /\ unsent' = <<>>
    /\ loop' = IF loop = "sending" THEN "select" ELSE "drain"
    /\ FilesKept /\ UNCHANGED <<downloads, view>>

SendFails ==
    /\ loop \in {"sending", "lastSend"} /\ cut
    /\ loop' = "drain" /\ unsent' = <<>>
    /\ FilesKept /\ UNCHANGED <<outbox, downloads, view>>

Finishes ==
    /\ loop = "drain" /\ Goes("done")
    /\ FilesKept /\ UNCHANGED <<outbox, downloads, view>>

DrainedAtOnce == Finishes

Drained == downloads = {} /\ Finishes

Loop ==
    \/ TakeEmpty \/ TakeData \/ TakeDataFails \/ TakeList \/ TakeDownload
    \/ (\E size \in 0 .. MaxSize : TakeUpload(size)) \/ TakeUploadFails
    \/ TakeOther \/ StreamEnds \/ Send \/ SendFails \/ Drained

-----------------------------------------------------------------------------
(* A download d *)

Becomes(d, e) == downloads' = (downloads \ {d}) \cup {e}
Leaves(d) == downloads' = downloads \ {d}
DownloadKept == FilesKept /\ UNCHANGED <<loop, unsent>>

Holding(d, frame, left, step) ==
    [d EXCEPT !.out = <<frame>>, !.left = left, !.step = step]

OpenAs(d, size, announced) ==
    /\ d.step = "open"
    /\ Becomes(d, Holding(d, Frame("header", d.of, announced), size, "send"))
    /\ DownloadKept /\ UNCHANGED <<outbox, view>>

OpenMiscounted(d) == \E size \in 1 .. MaxSize : OpenAs(d, size, size - 1)

\* The size is that of the file when it is opened; an empty one is an error.
Open(d) == \E size \in 1 .. MaxSize : OpenAs(d, size, size)

\* An open or a read fails, or the file is empty.
DownloadFails(d) ==
    /\ d.step \in {"open", "read"}
    /\ Becomes(d, Holding(d, Frame("answer", d.of, 0), d.left, "failing"))
    /\ Unclear(d.step = "read" /\ d.left <= 0)
    /\ DownloadKept /\ UNCHANGED outbox

\* The file is read to its end, which may have moved since the header.
ReadChunk(d) ==
    /\ d.step = "read" /\ d.left >= 0
    /\ Becomes(d, Holding(d, Frame("chunk", d.of, 1), d.left - 1, "send"))
    /\ Unclear(d.left = 0)
    /\ DownloadKept /\ UNCHANGED outbox

ReadEnd(d) ==
    /\ d.step = "read" /\ Leaves(d)
    /\ Unclear(d.left > 0)
    /\ DownloadKept /\ UNCHANGED outbox

DownloadSends(d) ==
    /\ d.step \in {"send", "failing"} /\ ~cut /\ Len(outbox) < Capacity
    /\ outbox' = outbox \o d.out
    /\ IF d.step = "send" THEN Becomes(d, [d EXCEPT !.out = <<>>, !.step = "read"])
       ELSE Leaves(d)
    /\ DownloadKept /\ UNCHANGED view

\* The error of the failed send cannot be sent, either.
DownloadSendFails(d) ==
    /\ d.step \in {"send", "failing"} /\ cut /\ Leaves(d)
    /\ DownloadKept /\ UNCHANGED <<outbox, view>>

DownloadAborted(d) ==
    /\ loop = "drain" /\ Leaves(d)
    /\ DownloadKept /\ UNCHANGED <<outbox, view>>

DownloadStep(d) ==
    \/ Open(d) \/ DownloadFails(d) \/ ReadChunk(d) \/ ReadEnd(d)
    \/ DownloadSends(d) \/ DownloadSendFails(d) \/ DownloadAborted(d)

Progress == Loop \/ \E d \in downloads : DownloadStep(d)

Next == Dashboard \/ Progress \/ KeepAliveDue

Spec == Init /\ [][Next]_vars

-----------------------------------------------------------------------------
(* Properties *)

\* NZUP says that the target holds what the dashboard sent for it, but for
\* a last write that the disk refused: sync_all (line 146) does not report
\* what a write before it met.  And until an upload is answered with an error
\* no command is swallowed as data and no data are taken for a command; after
\* that the rest of its data is (lines 138 to 142), and may open an upload that
\* nobody asked for.  Lines 136 to 152, and the test
\* legacy_upload_accepts_full_oversend_frame.
UploadsTrue == TypeOK /\ ~untrue /\ (misread => failed)

\* Data frames carry no name.  They tell what they belong to as long as the
\* dashboard waits for each answer, the files keep their size and no data
\* were misread: the loop and the downloads do not mix anything else into a
\* download (lines 62 to 81, 168 to 176).
TransfersApart == ~garbled

\* What the loop and the downloads wait for.
MaySend == cut \/ Len(outbox) < Capacity

Busy ==
    \/ loop = "select" /\ (inbox # <<>> \/ ending # "open")
    \/ loop \in {"sending", "lastSend"} /\ MaySend
    \/ loop = "drain"
    \/ \E d \in downloads : d.step \in {"open", "read"} \/ MaySend

\* An end of the stream ends everything, unless the dashboard keeps the
\* connection and does not read the frame that is being sent (lines 119 to
\* 134, 204 to 205).
EndDrains ==
    /\ loop = "done" => downloads = {}
    /\ ending # "open" /\ ~Busy =>
          \/ loop = "done"
          \/ loop \in {"sending", "lastSend"} /\ Len(outbox) = Capacity
=============================================================================
