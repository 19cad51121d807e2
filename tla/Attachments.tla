----------------------------- MODULE Attachments -----------------------------
(***************************************************************************)
(* internal/attachments/attachments.go above internal/output/writer.go: a  *)
(* screenshot is looked up, inspected, opened and copied into the results  *)
(* directory before the result that names it is written.  The language     *)
(* runner owns the source and may replace, resize or remove it at any      *)
(* time.  Every write is one of ResultsDir, whose processes, crashes and   *)
(* cleaning stay as they are.                                              *)
(*                                                                         *)
(* A file is an identity, which a file that takes its place does not have, *)
(* what the checks tell apart, and its number of bytes.  A link and what   *)
(* it leads to are looked at in one step.                                  *)
(***************************************************************************)
EXTENDS ResultsDir

CONSTANTS
    Attaching,      \* the writes that are attachments
    Shows,          \* the write of a result -> the attachments its scenario has
    Limit,          \* cfg.MaxAttachmentBytes, also maxBytes of the writer
    Largest,        \* bound on the bytes of a source
    Strict,         \* cfg.Strict
    FollowLinks,    \* cfg.FollowSymlinks
    AllowExternal,  \* cfg.AllowExternalAttachments
    MaxChanges      \* bound on what the runner does to the source in one run

Reporting == Writers \ Attaching
Sizes == 0 .. Largest
Sources == [id : 1 .. MaxChanges, kind : {"regular", "link", "directory"},
            inside : BOOLEAN, size : Sizes]

ASSUME AttachingAssumption ==
    /\ Attaching \subseteq Writers
    /\ Shows \in [Reporting -> SUBSET Attaching]
    \* identity.UUIDGenerator: an attachment has a name of its own.
    /\ \A v \in Attaching, w \in Writers : NameOf[v] = NameOf[w] => v = w
ASSUME LimitAssumption == {Limit, Largest, MaxChanges} \subseteq Nat
ASSUME PolicyAssumption == {Strict, FollowLinks, AllowExternal} \subseteq BOOLEAN

VARIABLES
    source,     \* what is at the path of the screenshot, or None
    changes,    \* how often the runner has changed it
    stage,      \* where Copy is before it calls the writer
    expected,   \* the size found at the inspection
    handle,     \* the file Copy has opened, or None
    content,    \* the bytes in the copy, and those its file had then
    named       \* artifact -> the attachments that the result on disk names

copyVars == <<stage, expected, handle>>
attachmentVars == <<source, changes, copyVars, content, named>>
allVars == <<vars, attachmentVars>>

\* What is different in every run: the attachment names are new, the source is.
Fresh ==
    [source |-> None,
     stage |-> [w \in Attaching |-> "lookup"],
     expected |-> [w \in Attaching |-> 0],
     handle |-> [w \in Attaching |-> None],
     content |-> [w \in Attaching |-> [copied |-> 0, of |-> 0]]]

AttachmentsInit ==
    /\ Init
    /\ source = Fresh.source
    /\ changes = 0
    /\ stage = Fresh.stage
    /\ expected = Fresh.expected
    /\ handle = Fresh.handle
    /\ content = Fresh.content
    /\ named = [n \in Artifacts |-> {}]

StartRun ==
    /\ Start
    /\ source' = Fresh.source
    /\ changes' = 0
    /\ stage' = Fresh.stage
    /\ expected' = Fresh.expected
    /\ handle' = Fresh.handle
    /\ content' = Fresh.content
    /\ UNCHANGED named

-----------------------------------------------------------------------------
(* The runner.                                                             *)

\* A file takes the place of the source, or nothing does.
Replace ==
    /\ proc = "serving" /\ changes < MaxChanges
    /\ changes' = changes + 1
    /\ source' \in {s \in Sources : s.id = changes + 1} \cup {None}
    /\ UNCHANGED <<vars, copyVars, content, named>>

\* The source grows or shrinks in place, also where it is open.
Resize ==
    /\ proc = "serving" /\ changes < MaxChanges
    /\ source # None
    /\ changes' = changes + 1
    /\ \E size \in Sizes :
          /\ source' = [source EXCEPT !.size = size]
          /\ handle' = [w \in Attaching |->
                           IF handle[w] # None /\ handle[w].id = source.id
                           THEN [handle[w] EXCEPT !.size = size]
                           ELSE handle[w]]
    /\ UNCHANGED <<vars, stage, expected, content, named>>

-----------------------------------------------------------------------------
(* Manager.Copy and Manager.Bytes.                                         *)

At(w, label) == proc = "serving" /\ step[w] = "idle" /\ stage[w] = label
Reach(w, label) == stage' = [stage EXCEPT ![w] = label]

\* The checks on what Lstat, or Stat behind a link, has found.
Accepted(file) ==
    /\ file # None
    /\ file.kind = "regular" \/ (file.kind = "link" /\ FollowLinks)
    /\ file.inside \/ AllowExternal
    /\ file.size <= Limit

Inspected(w) ==
    /\ At(w, "lookup")
    /\ Accepted(source)
    /\ expected' = [expected EXCEPT ![w] = source.size]
    /\ Reach(w, "inspected")
    /\ UNCHANGED <<vars, source, changes, handle, content, named>>

\* sniff reads the header, which a directory does not allow, and goes back to the
\* start; the type and the extension that it finds are left out.
Sniffed(file) == file.kind # "directory"

\* os.Open takes what is at the path now, unchecked.
Opened(w) ==
    /\ At(w, "inspected")
    /\ source # None /\ Sniffed(source)
    /\ handle' = [handle EXCEPT ![w] = [id |-> source.id, size |-> source.size]]
    /\ Reach(w, "opened")
    /\ UNCHANGED <<vars, source, changes, expected, content, named>>

\* Manager.Bytes, and Messages through it: the content is in memory, where the runner
\* does not reach it, and of its own size.
Buffered(w) ==
    /\ At(w, "lookup")
    /\ \E size \in 0 .. Limit :
          /\ expected' = [expected EXCEPT ![w] = size]
          /\ handle' = [handle EXCEPT ![w] = [id |-> 0, size |-> size]]
    /\ Reach(w, "opened")
    /\ UNCHANGED <<vars, source, changes, content, named>>

\* Copy or Bytes returns an error before it has called the writer: what is to be
\* attached is refused or too large, or a call of the operating system or the UUID
\* generator fails.
NotCopied(w) ==
    /\ w \in Attaching
    /\ WriteRejected(w)
    /\ UNCHANGED attachmentVars

-----------------------------------------------------------------------------
(* SafeWriter.WriteAttachment.                                             *)

CreateCopy(w) ==
    /\ At(w, "opened")
    /\ expected[w] <= Limit
    /\ CreateTemp(w)
    /\ UNCHANGED attachmentVars

Least(m, n) == IF m < n THEN m ELSE n

\* Mutated: the copy ends at the size expected.
BytesExpected(w) == Least(handle[w].size, expected[w])

\* io.LimitReader lets one byte more than the limit through.
Bytes(w) == Least(handle[w].size, Limit + 1)

\* The two comparisons after io.Copy decide whether the copy is published.
CopiedBytes(w) ==
    /\ Copied(w)
    /\ dir'[Temp(w)].whole = (Bytes(w) <= Limit /\ Bytes(w) = expected[w])
    /\ content' = [content EXCEPT ![w] = [copied |-> Bytes(w), of |-> handle[w].size]]
    /\ UNCHANGED <<source, changes, copyVars, named>>

\* Copy returns and closes the file.
EndCopy(w) ==
    /\ Publish(w) \/ Discard(w)
    /\ handle' = [handle EXCEPT ![w] = None]
    /\ UNCHANGED <<source, changes, stage, expected, content, named>>

CopyFails(w) ==
    /\ WriteFails(w)
    /\ UNCHANGED attachmentVars

Attach(w) ==
    \/ Inspected(w)
    \/ Opened(w)
    \/ Buffered(w)
    \/ NotCopied(w)
    \/ CreateCopy(w)
    \/ CopiedBytes(w)
    \/ CopyFails(w)
    \/ EndCopy(w)

-----------------------------------------------------------------------------
(* The result that names the attachments.                                  *)

\* Mutated: an attachment is appended to the step whether or not it was copied.
ReferencesAll(w) == {NameOf[a] : a \in Shows[w]}

\* attachStep and fixture append an attachment that was copied.
References(w) == {NameOf[a] : a \in {b \in Shows[w] : step[b] = "published"}}

\* The result is written when all its attachments have returned; in strict mode a
\* failed one is an error of the mapper, and the result is not written.
CreateResult(w) ==
    /\ \A a \in Shows[w] : step[a] \in {"published"} \cup (IF Strict THEN {} ELSE {"failed"})
    /\ CreateTemp(w)
    /\ UNCHANGED attachmentVars

\* What is marshalled in memory does not change size.
CopiedResult(w) ==
    /\ Copied(w)
    /\ dir'[Temp(w)].whole
    /\ UNCHANGED attachmentVars

PublishResult(w) ==
    /\ Publish(w)
    /\ named' = [named EXCEPT ![NameOf[w]] = References(w)]
    /\ UNCHANGED <<source, changes, copyVars, content>>

ResultFails(w) ==
    /\ WriteRejected(w) \/ WriteFails(w) \/ Discard(w)
    /\ UNCHANGED attachmentVars

Report(w) ==
    \/ CreateResult(w)
    \/ CopiedResult(w)
    \/ PublishResult(w)
    \/ ResultFails(w)

-----------------------------------------------------------------------------
Around ==
    /\ Prepare \/ Exit \/ Crash \/ (\E n \in Names : UserWrites(n)) \/ RunsOver
    /\ UNCHANGED attachmentVars

AttachmentsNext ==
    \/ StartRun
    \/ Replace
    \/ Resize
    \/ \E w \in Attaching : Attach(w)
    \/ \E w \in Reporting : Report(w)
    \/ Around

AttachmentsSpec == AttachmentsInit /\ [][AttachmentsNext]_allVars

-----------------------------------------------------------------------------
(* Properties.                                                             *)

OfThisRun(n) == run > 0 /\ dir[n] # None /\ dir[n].run = run

\* Whatever becomes of the source between its inspection and the end of the copy,
\* an attachment on disk is all of one file and within the limit, and no temporary
\* file ever exceeds the limit by more than one byte.
AttachmentsComplete ==
    \A w \in Attaching :
        /\ OfThisRun(NameOf[w]) =>
              content[w].copied = content[w].of /\ content[w].copied <= Limit
        /\ OfThisRun(Temp(w)) => content[w].copied <= Limit + 1

\* A result names only attachments that are there, whole and of its own run: while
\* others are written, when some fail, and after the process died at any point.
ReferencesOnDisk ==
    \A n \in Artifacts : OfThisRun(n) =>
        \A a \in named[n] : OfThisRun(a) /\ dir[a].whole
=============================================================================
