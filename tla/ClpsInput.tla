------------------------------ MODULE ClpsInput ------------------------------
(***************************************************************************)
(* How clp-s (JsonParser::ingest) and log-converter (convert_files) take   *)
(* in their inputs: raw paths become input files, every file is opened     *)
(* (with retries for network inputs), its type is deduced from its first   *)
(* buffer through any zstd wrappers, and it is handed to the reader of its *)
(* type, member by member when it is an archive that libarchive opens.     *)
(*                                                                         *)
(* A job is a record: tool, raw (sequence of raw paths), hasPrefix and     *)
(* prefix (the path prefix clp-s removes from the names it stores).        *)
(* A raw path: exists, dir, listable, entries (the files below it).        *)
(* A file: path (sequence of components), dir, readable, content.          *)
(* A content: is (what it really is), wraps (zstd frames around it), head  *)
(* (the byte classes of its first buffer), members.                        *)
(* A member: regular, name, is, wraps, head.                               *)
(*                                                                         *)
(* Below it, as machines of their own, the two readers the handlers use:   *)
(* the file reader over libarchive, and the converter of log-converter.    *)
(***************************************************************************)
EXTENDS Integers, Sequences, FiniteSets, SequencesExt, FiniteSetsExt

CONSTANTS Jobs,        \* the commands a behaviour may run
          MaxDepth,    \* cMaxNestedFormatDepth
          MaxRetries,  \* max_retries of the reader factory
          LibArchives, \* archives a behaviour may read
          ReadSizes,   \* sizes asked of try_read
          Delims,      \* delimiters asked of try_read_to_delimiter
          Commands,           \* sequences of files a command converts
          DefaultBufferSize,  \* cDefaultBufferSize
          MaxBufferSizes,     \* values of --max-log-event-size
          MaxIrBufSize        \* cMaxIrBufSize, in events

VARIABLES job, st,   \* the command and its progress
          ar, la,    \* an archive and its reader
          cmd, lc    \* the files to convert and the converter

ciVars == <<job, st>>

-----------------------------------------------------------------------------
(* Type deduction. Bytes are abstracted to classes; "zstd" and "kvir" stand *)
(* for a whole magic number, "bad" for a byte no UTF-8 text contains.       *)

\* Bytes that follow a byte that may start a code point.
Trailing == [ascii |-> 0, space |-> 0, brace |-> 0, h2 |-> 1, h3 |-> 2, h4 |-> 3]

CouldBeZstd(head) == head[1] = "zstd"

CouldBeKvir(head) == head[1] = "kvir"

CouldBeJson(head) ==
    \E i \in DOMAIN head :
        /\ head[i] = "brace"
        /\ \A j \in 1 .. (i - 1) : head[j] = "space"

\* simdjson::validate_utf8.
ValidUtf8(bytes) ==
    LET n == Len(bytes)
        valid[i \in 1 .. (n + 4)] ==
            IF i > n THEN i = n + 1
            ELSE /\ bytes[i] \in DOMAIN Trailing
                 /\ \A j \in (i + 1) .. (i + Trailing[bytes[i]]) :
                        j <= n /\ bytes[j] = "cont"
                 /\ valid[i + Trailing[bytes[i]] + 1]
    IN  valid[1]

\* The end of the last complete code point met from byte 'from' on, or 0.
LastLegalByte(head, from) ==
    LET n == Len(head)
        legal[i \in 1 .. (n + 4)] ==
            IF i > n THEN 0
            ELSE IF head[i] \notin DOMAIN Trailing THEN legal[i + 1]
            ELSE LET last  == i + Trailing[head[i]]
                     later == IF last > n THEN 0 ELSE legal[last + 1]
                 IN  IF last > n THEN 0 ELSE IF later # 0 THEN later ELSE last
    IN  legal[from]

\* cMaxRunWithoutFullUtf8Codepoint
MaxPartialRun == 7

CouldBeLogtext(head) ==
    LET n    == Len(head)
        last == LastLegalByte(head, IF n < MaxPartialRun THEN 1 ELSE n - MaxPartialRun + 1)
    IN  last # 0 /\ ValidUtf8(SubSeq(head, 1, last))

PeekStartAndDeduceType(head) ==
    CASE head = <<>>          -> "EmptyFile"
      [] head # <<>> /\ CouldBeZstd(head) -> "Zstd"
      [] head # <<>> /\ CouldBeKvir(head) -> "KeyValueIr"
      [] head # <<>> /\ CouldBeJson(head) -> "Json"
      [] OTHER -> IF CouldBeLogtext(head) THEN "LogText" ELSE "Unknown"

\* try_deduce_reader_type of a content of which the first 'layers' layers
\* (outermost first, the content itself last) can be read: a layer that
\* cannot reads as an empty file. 'readers' is whether readers are returned.
NoReaders == [readers |-> FALSE, type |-> "Unknown"]

DeduceReaderType(content, layers) ==
    LET reached == IF layers <= content.wraps THEN layers ELSE content.wraps
    IN  IF reached >= MaxDepth THEN NoReaders
        ELSE [readers |-> TRUE,
              type |-> PeekStartAndDeduceType(
                           IF layers <= content.wraps THEN <<>> ELSE content.head)]

-----------------------------------------------------------------------------
(* Paths and names.                                                         *)

\* remove_path_prefix: a trailing empty component (a final slash) of the
\* prefix is ignored; the rest of the path hangs off the root.
PathWithoutPrefix(path, prefix) ==
    LET skip == IF prefix # <<>> /\ Last(prefix) = "" THEN Front(prefix) ELSE prefix
    IN  IF IsPrefix(skip, path)
        THEN [ok |-> TRUE, name |-> <<"/">> \o
                SelectSeq(SubSeq(path, Len(skip) + 1, Len(path)), LAMBDA c : c # "/")]
        ELSE [ok |-> FALSE, name |-> <<>>]

\* get_source_for_path: what does not exist is taken for a URL.
SourceOf(raw) == IF raw.exists THEN "Filesystem" ELSE "Network"

\* get_input_files_for_path, find_all_files_in_directory.
FilesOf(raw) ==
    LET files == SelectSeq(raw.entries, LAMBDA e : ~e.dir)
    IN  [i \in DOMAIN files |-> [file |-> files[i], source |-> SourceOf(raw)]]

NameOf(f) ==
    IF job.tool = "clp-s" /\ job.hasPrefix /\ f.source = "Filesystem"
    THEN PathWithoutPrefix(f.file.path, job.prefix)
    ELSE [ok |-> TRUE, name |-> f.file.path]

-----------------------------------------------------------------------------
(* Opening an input. A transfer that fails delivers some of the layers of   *)
(* the content and then some of its members before reporting end of file.   *)

Everything == 99

Complete == [created |-> TRUE, failed |-> FALSE, retryable |-> FALSE, upTo |-> Everything]

NotCreated == [created |-> FALSE, failed |-> FALSE, retryable |-> FALSE, upTo |-> 0]

Transfers(f) ==
    IF f.source = "Filesystem"
    THEN {IF f.file.readable THEN Complete ELSE NotCreated}
    ELSE LET last == f.file.content.wraps + 1 + Len(f.file.content.members)
             cut  == [created : {TRUE}, failed : {TRUE}, retryable : BOOLEAN, upTo : 0 .. last]
         IN  IF f.file.readable THEN {Complete, NotCreated} \cup cut
             ELSE {t \in cut : t.upTo = 0 /\ ~t.retryable}

Layers(t) == t.upTo

\* Whether the content, once its start is read, is read to its end.
DeliversBody(f, t) ==
    ~t.failed \/ (f.file.content.members # <<>>
                  /\ t.upTo > f.file.content.wraps + Len(f.file.content.members))

Current == st.files[st.at]

Idle == [created |-> TRUE, failed |-> FALSE, retryable |-> FALSE, upTo |-> 0]

CIInit ==
    /\ job \in Jobs
    /\ st = [pc |-> "collect", raw |-> 1, files |-> <<>>, at |-> 1, attempt |-> 0,
             transfer |-> Idle, type |-> "Unknown", readers |-> FALSE,
             member |-> 0, done |-> <<>>]

Fail == st' = [st EXCEPT !.pc = "failed"] /\ UNCHANGED job

\* The command line turns every raw path into input files and names them.
CollectPath ==
    /\ st.pc = "collect" /\ st.raw <= Len(job.raw)
    /\ LET raw == job.raw[st.raw]
       IN  IF raw.exists /\ raw.dir /\ ~raw.listable THEN Fail
           ELSE /\ st' = [st EXCEPT !.raw = @ + 1, !.files = @ \o FilesOf(raw)]
                /\ UNCHANGED job

StartInputs ==
    /\ st.pc = "collect" /\ st.raw > Len(job.raw)
    /\ IF st.files = <<>> \/ \E i \in DOMAIN st.files : ~NameOf(st.files[i]).ok
       THEN Fail
       ELSE st' = [st EXCEPT !.pc = "open"] /\ UNCHANGED job

\* One attempt of try_create_reader_and_deduce_type_with_retries. 'noticed'
\* is whether the transfer has already failed when its error is asked for;
\* it has when the type was deduced from the end of the stream.
RetriesAttempt(t, deduced, noticed) ==
    /\ st.attempt < MaxRetries
    /\ ~t.created \/ (deduced.type = "Unknown" /\ t.failed /\ t.retryable /\ noticed)

OpenInput ==
    /\ st.pc = "open"
    /\ UNCHANGED job
    /\ \E t \in Transfers(Current), noticed \in BOOLEAN :
          LET deduced == IF t.created THEN DeduceReaderType(Current.file.content, Layers(t))
                         ELSE NoReaders
          IN  st' = IF RetriesAttempt(t, deduced, noticed)
                    THEN [st EXCEPT !.attempt = @ + 1]
                    ELSE [st EXCEPT !.pc = "handle", !.transfer = t, !.type = deduced.type,
                                    !.readers = deduced.readers]

-----------------------------------------------------------------------------
(* Handling an input.                                                       *)

\* What the handler of a type may return for a content it reads in whole or
\* in part: a truncated JSON or KV-IR stream is only sometimes an error, a
\* truncated text never is.
HandlerResults(type, whole) ==
    IF job.tool = "clp-s"
    THEN CASE type \in {"Json", "KeyValueIr"} -> IF whole THEN {TRUE} ELSE BOOLEAN
           [] type = "EmptyFile" -> {TRUE}
           [] OTHER -> {FALSE}
    ELSE CASE type \in {"LogText", "EmptyFile"} -> {TRUE}
           [] OTHER -> {FALSE}

Handled(member, name, whole) ==
    [input |-> st.at, member |-> member, name |-> name, whole |-> whole]

\* The member's name goes into the archive's metadata; log-converter stores
\* the path of the input for every member.
MemberName(member) ==
    IF job.tool = "clp-s" THEN <<member.name>> ELSE Current.file.path

\* ingest() asks the network reader for an error after each input;
\* convert_files() does not. A transfer that failed once everything had been
\* read may or may not have been noticed.
EndInput(done) ==
    \/ /\ job.tool = "clp-s" /\ st.transfer.failed
       /\ st' = [st EXCEPT !.pc = "failed", !.done = done]
    \/ /\ job.tool = "clp-s" => ~st.transfer.failed \/ DeliversBody(Current, st.transfer)
       /\ st' = IF st.at = Len(st.files)
                THEN [st EXCEPT !.pc = "ok", !.done = done]
                ELSE [st EXCEPT !.pc = "open", !.at = @ + 1, !.attempt = 0,
                                !.member = 0, !.done = done]

\* A type with a handler of its own.
HandleInput ==
    /\ st.pc = "handle" /\ st.type # "Unknown"
    /\ UNCHANGED job
    /\ LET whole == ~st.transfer.failed
           done  == Append(st.done, Handled(0, NameOf(Current).name, whole))
       IN  \E result \in HandlerResults(st.type, whole) :
              IF result THEN EndInput(done) ELSE st' = [st EXCEPT !.pc = "failed"]

\* Unknown: given up without readers or with a network error, otherwise
\* opened with libarchive.
HandleUnknown ==
    /\ st.pc = "handle" /\ st.type = "Unknown"
    /\ \/ (~st.readers \/ st.transfer.failed) /\ Fail
       \/ /\ st.readers
          /\ IF Current.file.content.is = "archive"
             THEN st' = [st EXCEPT !.pc = "member", !.member = 1] /\ UNCHANGED job
             ELSE Fail

MembersDelivered ==
    IF st.transfer.failed THEN st.transfer.upTo - Current.file.content.wraps - 1
    ELSE Len(Current.file.content.members)

\* A member that is read completely; entries that are no regular files are
\* skipped.
NextMember ==
    /\ st.pc = "member"
    /\ st.member <= Len(Current.file.content.members) /\ st.member <= MembersDelivered
    /\ LET member  == Current.file.content.members[st.member]
           deduced == DeduceReaderType(member, Everything)
       IN  IF ~member.regular
           THEN st' = [st EXCEPT !.member = @ + 1] /\ UNCHANGED job
           ELSE \E result \in HandlerResults(deduced.type, TRUE) :
                  IF result
                  THEN /\ st' = [st EXCEPT !.member = @ + 1,
                              !.done = Append(@, Handled(st.member, MemberName(member), TRUE))]
                       /\ UNCHANGED job
                  ELSE Fail

\* The transfer ends inside the archive: libarchive reports an error, or
\* takes the end of the stream for the end of the archive.
CutShort ==
    /\ st.pc = "member"
    /\ st.member <= Len(Current.file.content.members) /\ st.member > MembersDelivered
    /\ \/ Fail
       \/ EndInput(st.done) /\ UNCHANGED job

EndArchive ==
    /\ st.pc = "member" /\ st.member > Len(Current.file.content.members)
    /\ EndInput(st.done)
    /\ UNCHANGED job

CINext == CollectPath \/ StartInputs \/ OpenInput \/ HandleInput \/ HandleUnknown
             \/ NextMember \/ CutShort \/ EndArchive

CISpec == CIInit /\ [][CINext]_ciVars

-----------------------------------------------------------------------------
(* Properties.                                                              *)

\* Counters stay in range: at most max_retries retries of an input.
CITypeOK ==
    /\ st.pc \in {"collect", "open", "handle", "member", "ok", "failed"}
    /\ st.attempt \in 0 .. MaxRetries
    /\ st.at \in 1 .. (Len(st.files) + 1)
    /\ st.type \in {"Json", "KeyValueIr", "LogText", "EmptyFile", "Unknown"}

\* A head of a text: whole code points, at least one, then part of another.
IsTextHead(head) ==
    \E n \in 1 .. Len(head) :
        /\ ValidUtf8(SubSeq(head, 1, n))
        /\ n = Len(head) \/ (/\ head[n + 1] \in DOMAIN Trailing
                             /\ Len(head) - n <= Trailing[head[n + 1]]
                             /\ \A j \in (n + 2) .. Len(head) : head[j] = "cont")

\* An archive whose first buffer is text is taken for a text.
LooksLikeText(c) == c.is = "archive" /\ c.head # <<>> /\ IsTextHead(c.head)

Takes(c) ==
    /\ c.wraps < MaxDepth
    /\ c.is \in (IF job.tool = "clp-s" THEN {"json", "kvir", "empty"} ELSE {"text", "empty"})
    /\ c.is = "text" => IsTextHead(c.head) /\ ~CouldBeJson(c.head)

Supported(c) ==
    \/ Takes(c)
    \/ /\ c.is = "archive" /\ c.wraps < MaxDepth /\ ~LooksLikeText(c)
       /\ \A i \in DOMAIN c.members : c.members[i].regular => Takes(c.members[i])

\* Everything the inputs hold, in order, each part read whole.
Expected(i) ==
    LET c == st.files[i].file.content
        part(m, name) == [input |-> i, member |-> m, whole |-> TRUE, name |-> name]
        name(m) == IF job.tool = "clp-s" THEN <<c.members[m].name>>
                   ELSE st.files[i].file.path
    IN  IF c.is # "archive" THEN <<part(0, NameOf(st.files[i]).name)>>
        ELSE LET regular == SelectSeq([m \in DOMAIN c.members |-> m],
                                      LAMBDA m : c.members[m].regular)
             IN  [k \in DOMAIN regular |-> part(regular[k], name(regular[k]))]

TookInEverything == st.done = FlattenSeq([i \in DOMAIN st.files |-> Expected(i)])

\* When clp-s reports success, every input and every member of every archive
\* was handed over whole, once, in order and under its own name, whatever the
\* network did. log-converter is held to it only for inputs of the file system
\* (it never asks for a network error), and unless an archive looks like text.
AcceptedIsWhole ==
    st.pc = "ok" /\ (job.tool = "log-converter" =>
                        \A i \in DOMAIN st.files :
                            /\ st.files[i].source = "Filesystem"
                            /\ ~LooksLikeText(st.files[i].file.content))
    => TookInEverything

\* A command fails only for a reason: a path that cannot be listed or lacks
\* the prefix, no input at all, a content it does not support, a file that
\* cannot be opened with no retry left, or a network error.
RefusedWithReason ==
    st.pc = "failed" =>
        \/ \E i \in DOMAIN job.raw :
              job.raw[i].exists /\ job.raw[i].dir /\ ~job.raw[i].listable
        \/ st.files = <<>>
        \/ \E i \in DOMAIN st.files :
              LET f == st.files[i].file
              IN  job.hasPrefix /\ ~IsPrefix(SelectSeq(job.prefix, LAMBDA c : c # ""), f.path)
        \/ ~Supported(Current.file.content)
        \/ ~st.transfer.created /\ st.attempt = MaxRetries
        \/ st.transfer.failed

-----------------------------------------------------------------------------
(***************************************************************************)
(* LibarchiveReader and LibarchiveFileReader: the members of an archive    *)
(* read one after the other through one file reader. libarchive hands out  *)
(* a member as data blocks at increasing positions; the gaps between them  *)
(* are holes of a sparse file, and the reader supplies their zeros.        *)
(*                                                                         *)
(* An archive is a sequence of members [regular, blocks]; a block is       *)
(* [pos, data, bad], 'bad' if libarchive reports an error in its place.    *)
(***************************************************************************)

lfVars == <<ar, la>>

Nul == "0"

Member == ar[la.at]

LFInit ==
    /\ ar \in LibArchives
    /\ la = [pc |-> "header", at |-> 0, next |-> 1, block |-> 0, inBlock |-> 0, pos |-> 0,
             eof |-> FALSE, got |-> <<>>, code |-> "none", peek |-> <<>>]

\* try_read_next_header; entries that are no regular files are passed over,
\* the others opened.
NextHeader ==
    /\ la.pc = "header"
    /\ la' = IF la.at = Len(ar) THEN [la EXCEPT !.pc = "end"]
             ELSE IF ~ar[la.at + 1].regular THEN [la EXCEPT !.at = @ + 1]
             ELSE [la EXCEPT !.pc = "open", !.at = @ + 1, !.next = 1, !.got = <<>>,
                             !.code = "none", !.peek = <<>>]
    /\ UNCHANGED ar

\* close(): the position within the block is left to the next block.
Reset(s) == [s EXCEPT !.block = 0, !.eof = FALSE, !.pos = 0]

CloseMember ==
    /\ la.pc \in {"open", "failed"}
    /\ la' = [Reset(la) EXCEPT !.pc = "header"]
    /\ UNCHANGED ar

\* read_next_data_block
FetchBlock(s) ==
    IF s.next > Len(Member.blocks) THEN [s EXCEPT !.eof = TRUE, !.code = "EndOfFile"]
    ELSE IF Member.blocks[s.next].bad THEN [s EXCEPT !.code = "Failure"]
    ELSE [s EXCEPT !.block = s.next, !.next = @ + 1, !.inBlock = 0, !.code = "Success"]

Block(s) == Member.blocks[s.block]

Zeros(n) == [i \in 1 .. n |-> Nul]

\* The zeros of a hole before the block, at most n of them.

FillHole(s, n) ==
    LET hole == Max({0, Block(s).pos - s.pos})
        k    == Min({hole, n})
    IN  [s EXCEPT !.pos = @ + k, !.got = @ \o Zeros(k)]

\* n bytes of the block from the current offset, dropping it when exhausted.
TakeFromBlock(s, n) ==
    LET data == Block(s).data
    IN  [s EXCEPT !.got = @ \o SubSeq(data, s.inBlock + 1, s.inBlock + n),
                  !.pos = @ + n, !.inBlock = @ + n,
                  !.block = IF s.inBlock + n = Len(data) THEN 0 ELSE @]

\* The loop of try_read: 'want' more bytes, 'some' if any were read.
RECURSIVE ReadLoop(_, _, _)
ReadLoop(s, want, some) ==
    LET f == IF s.block = 0 THEN FetchBlock(s) ELSE [s EXCEPT !.code = "Success"]
    IN  IF f.code # "Success"
        THEN IF f.code = "EndOfFile" /\ some THEN [f EXCEPT !.code = "Success"] ELSE f
        ELSE LET h    == FillHole(f, want)
                 left == want - (h.pos - f.pos)
             IN  IF left = 0 THEN h
                 ELSE LET n == Min({left, Len(Block(h).data) - h.inBlock})
                          t == TakeFromBlock(h, n)
                      IN  IF n = left THEN t ELSE ReadLoop(t, left - n, TRUE)

TryRead ==
    /\ la.pc = "open"
    /\ \E n \in ReadSizes :
          LET r == IF la.eof THEN [la EXCEPT !.code = "EndOfFile"] ELSE ReadLoop(la, n, FALSE)
          IN  la' = [r EXCEPT !.peek = <<>>, !.pc = IF r.code = "Failure" THEN "failed" ELSE @]
    /\ UNCHANGED ar

\* The loop of try_read_to_delimiter. The delimiter is part of what is read.
RECURSIVE DelimiterLoop(_, _, _)
DelimiterLoop(s, delim, some) ==
    LET f == IF s.block = 0 THEN FetchBlock(s) ELSE [s EXCEPT !.code = "Success"]
    IN  IF f.code # "Success"
        THEN IF f.code = "EndOfFile" /\ some THEN [f EXCEPT !.code = "Success"] ELSE f
        ELSE IF f.pos < Block(f).pos /\ delim = Nul THEN FillHole(f, 1)
        ELSE LET h    == FillHole(f, Max({0, Block(f).pos - f.pos}))
                 rest == SubSeq(Block(h).data, h.inBlock + 1, Len(Block(h).data))
                 at   == {i \in DOMAIN rest : rest[i] = delim}
             IN  IF at # {} THEN TakeFromBlock(h, Min(at))
                 ELSE DelimiterLoop(TakeFromBlock(h, Len(rest)), delim, TRUE)

TryReadToDelimiter ==
    /\ la.pc = "open"
    /\ \E delim \in Delims :
          LET r == IF la.eof THEN [la EXCEPT !.code = "EndOfFile"]
                   ELSE DelimiterLoop(la, delim, FALSE)
          IN  la' = [r EXCEPT !.peek = <<>>, !.pc = IF r.code = "Failure" THEN "failed" ELSE @]
    /\ UNCHANGED ar

\* peek_buffered_data: the start of the block whatever was read of it.
PeekBuffered(s) ==
    IF s.block = 0 THEN <<>>
    ELSE IF s.pos < Block(s).pos THEN Zeros(Block(s).pos - s.pos)
    ELSE SubSeq(Block(s).data, 1, Len(Block(s).data) - s.inBlock)

\* try_load_data_block followed by a peek.
LoadAndPeek ==
    /\ la.pc = "open"
    /\ LET r == IF la.block # 0 THEN [la EXCEPT !.code = "Success"] ELSE FetchBlock(la)
       IN  la' = [r EXCEPT !.peek = PeekBuffered(r),
                           !.pc = IF r.code = "Failure" THEN "failed" ELSE @]
    /\ UNCHANGED ar

LFNext == NextHeader \/ CloseMember \/ TryRead \/ TryReadToDelimiter \/ LoadAndPeek

LFSpec == LFInit /\ [][LFNext]_lfVars

-----------------------------------------------------------------------------
(* Properties.                                                              *)

\* The member as a file: its blocks' bytes at their positions, zeros between.
Size(m) == IF m.blocks = <<>> THEN 0 ELSE Last(m.blocks).pos + Len(Last(m.blocks).data)

ContentOf(m) ==
    [p \in 1 .. Size(m) |->
        LET in == {i \in DOMAIN m.blocks : p > m.blocks[i].pos
                                           /\ p <= m.blocks[i].pos + Len(m.blocks[i].data)}
        IN  IF in = {} THEN Nul
            ELSE LET b == m.blocks[CHOOSE i \in in : TRUE] IN b.data[p - b.pos]]

\* What try_read and try_read_to_delimiter return of a member, however the
\* calls are mixed and whatever was read of the member before it, is the
\* member's content from its start, holes included.
MemberReadInOrder ==
    la.pc = "open" => la.got = SubSeq(ContentOf(Member), 1, Len(la.got))
                      /\ Len(la.got) = la.pos

\* End of file is reported only when the whole member has been read, and the
\* reader is never used outside a member.
EndIsEnd ==
    /\ la.pc = "open" /\ la.eof => la.got = ContentOf(Member)
    /\ la.pc = "header" => la.block = 0 /\ ~la.eof

\* Before anything is read, a peek shows the start of the member (the UTF-8 and
\* IR checks of the compressor rely on it).
PeekShowsStart ==
    la.pc = "open" /\ la.got = <<>> => IsPrefix(la.peek, ContentOf(Member))

-----------------------------------------------------------------------------
(***************************************************************************)
(* LogConverter::convert_file of log-converter: unstructured text is read  *)
(* into a buffer that is compacted before every refill and doubled when it *)
(* is full, cut into log events by log_surgeon, and written as KV-IR by    *)
(* LogSerializer. One converter serves all the files of a command.         *)
(*                                                                         *)
(* A file is a sequence of events [size, stamp, look]: its bytes, the      *)
(* length of its timestamp (0 if it has none), and how many bytes of what  *)
(* follows the parser must see to know that the event has ended.           *)
(***************************************************************************)

lvVars == <<cmd, lc>>

File == cmd.files[lc.at]

Start(events, k) == FoldFunctionOnSet(LAMBDA e, s : e.size + s, 0, events, 1 .. (k - 1))

Length(events) == Start(events, Len(events) + 1)

\* Bytes are told apart by file and position.
Bytes(f, from, to) == [i \in 1 .. (to - from) |-> <<f, from + i>>]

EventBytes(f, k) ==
    LET from == Start(cmd.files[f], k) IN Bytes(f, from, from + cmd.files[f][k].size)

\* A byte of the array that was never written.
Unwritten == <<0, 0>>

NoStream == [ir |-> <<>>, written |-> <<>>, closed |-> FALSE]

LVInit ==
    /\ cmd \in [files : Commands, max : MaxBufferSizes]
    /\ lc = [pc |-> "start", at |-> 1, read |-> 0, eos |-> FALSE,
             buf |-> [i \in 1 .. Min({cmd.max, DefaultBufferSize}) |-> Unwritten],
             buffered |-> 0, offset |-> 0, stream |-> NoStream, outputs |-> <<>>]

\* The state of the last file is reset; the buffer keeps its size.
StartFile ==
    /\ lc.pc = "start" /\ lc.at <= Len(cmd.files)
    /\ lc' = [lc EXCEPT !.pc = "refill", !.read = 0, !.eos = FALSE,
                        !.buffered = 0, !.offset = 0, !.stream = NoStream]
    /\ UNCHANGED cmd

\* compact_buffer: memmove of what the parser has not consumed.
Compact(s) ==
    LET kept == s.buffered - s.offset
    IN  [s EXCEPT !.buf = [i \in DOMAIN s.buf |->
                             IF i <= kept THEN s.buf[i + s.offset] ELSE s.buf[i]],
                  !.buffered = kept, !.offset = 0]

Full(s) == Len(s.buf) = s.buffered

\* grow_buffer_if_full, when it may grow.
Grow(s) ==
    [s EXCEPT !.buf = [i \in 1 .. (2 * Len(s.buf)) |->
                         IF i <= s.buffered THEN s.buf[i] ELSE Unwritten]]

\* refill_buffer: compact, grow, read as much as fits.
RefillBuffer ==
    /\ lc.pc = "refill"
    /\ UNCHANGED cmd
    /\ LET c == Compact(lc)
       IN  IF Full(c) /\ 2 * Len(c.buf) > cmd.max
           THEN lc' = [c EXCEPT !.pc = "failed"]
           ELSE LET g == IF Full(c) THEN Grow(c) ELSE c
                    n == Min({Len(g.buf) - g.buffered, Length(File) - g.read})
                IN  lc' = [g EXCEPT !.pc = "parse", !.eos = (n = 0), !.read = @ + n,
                              !.buffered = @ + n,
                              !.buf = [i \in DOMAIN g.buf |->
                                  IF i \in (g.buffered + 1) .. (g.buffered + n)
                                  THEN <<lc.at, g.read + i - g.buffered>> ELSE g.buf[i]]]

-----------------------------------------------------------------------------
(* Parsing and serializing.                                                 *)

\* The event the parser is at, by what has been serialized so far.
EventIndex == Len(lc.stream.ir) + Len(lc.stream.written) + 1

EventEnds ==
    LET e == File[EventIndex]
        n == lc.buffered - lc.offset
    IN  lc.eos \/ n >= e.size + e.look

\* add_message, which flushes the IR buffer once it is large.
AddMessage(stream, message) ==
    LET ir == Append(stream.ir, message)
    IN  IF Len(ir) > MaxIrBufSize
        THEN [stream EXCEPT !.written = @ \o ir, !.ir = <<>>]
        ELSE [stream EXCEPT !.ir = ir]

ParseNextEvent ==
    /\ lc.pc = "parse" /\ lc.offset < lc.buffered
    /\ EventIndex <= Len(File) /\ EventEnds
    /\ LET e     == File[EventIndex]
           bytes == SubSeq(lc.buf, lc.offset + 1, lc.offset + e.size)
       IN  lc' = [lc EXCEPT !.offset = @ + e.size,
                     !.stream = AddMessage(@,
                         [timestamp |-> SubSeq(bytes, 1, e.stamp),
                          message   |-> SubSeq(bytes, e.stamp + 1, e.size)])]
    /\ UNCHANGED cmd

\* BufferOutOfBounds, or nothing left: refill, unless the stream has ended.
ParseEnds ==
    /\ lc.pc = "parse"
    /\ lc.offset < lc.buffered => EventIndex <= Len(File) /\ ~EventEnds
    /\ lc' = [lc EXCEPT !.pc = IF lc.eos THEN "close" ELSE "refill"]
    /\ UNCHANGED cmd

\* LogSerializer::close.
CloseStream ==
    /\ lc.pc = "close"
    /\ lc' = [lc EXCEPT !.pc = "start", !.at = @ + 1,
                        !.outputs = Append(@, [written |-> lc.stream.written \o lc.stream.ir,
                                               closed |-> TRUE])]
    /\ UNCHANGED cmd

LVNext == StartFile \/ RefillBuffer \/ ParseNextEvent \/ ParseEnds \/ CloseStream

LVSpec == LVInit /\ [][LVNext]_lvVars

-----------------------------------------------------------------------------
(* Properties.                                                              *)

\* The buffer holds the bytes of the file just before the reader's position,
\* within a buffer that never exceeds --max-log-event-size.
BufferIsWindow ==
    /\ lc.offset <= lc.buffered /\ lc.buffered <= Len(lc.buf) /\ Len(lc.buf) <= cmd.max
    /\ lc.pc \in {"refill", "parse"} =>
          SubSeq(lc.buf, 1, lc.buffered) = Bytes(lc.at, lc.read - lc.buffered, lc.read)

\* Every finished KV-IR stream holds the events of its file, each once and in
\* order, and its timestamp followed by its message is the original text.
EventsConverted ==
    \A f \in DOMAIN lc.outputs :
        /\ Len(lc.outputs[f].written) = Len(cmd.files[f])
        /\ \A k \in DOMAIN cmd.files[f] :
              lc.outputs[f].written[k].timestamp \o lc.outputs[f].written[k].message
                 = EventBytes(f, k)

\* The largest size the doublings reach.
Capacity ==
    IF cmd.max < DefaultBufferSize THEN cmd.max
    ELSE Max({n \in {DefaultBufferSize * 2^k : k \in 0 .. 8} : n <= cmd.max})

\* Conversion fails only when an event, with what the parser must see beyond
\* it, fills the largest buffer the doublings reach.
FailsOnlyIfLarge ==
    lc.pc = "failed" =>
        \E k \in DOMAIN File : File[k].size + File[k].look > Capacity

=============================================================================
