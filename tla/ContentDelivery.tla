--------------------------- MODULE ContentDelivery ---------------------------
(***************************************************************************)
(* The content handler (src/src/server.rs, content) from its authorization *)
(* to the last byte, while the owner of the share rewrites, replaces and   *)
(* removes the file and changes what the share permits.                    *)
(*                                                                         *)
(* The handler looks at the file three times, with awaits in between: for  *)
(* its entry, for its metadata and to open it.  Then it reads the opened   *)
(* file, byte by byte here, at whatever the file has become.  Admission is *)
(* the quota that StreamAdmission implements.                              *)
(***************************************************************************)
EXTENDS ByteRange, FiniteSets, Sequences

CONSTANTS
    Downloads,     \* content requests in progress
    Clients, Peer, GlobalStreams, ClientStreams, ClientRequests,  \* the quota
    Ranges,        \* Range headers that clients send
    Media,         \* whether the file is an image, audio or video
    MaxSize,       \* bound on the length of the file
    MaxWrites,     \* bound on its versions
    Second,        \* ticks of the clock in a second
    MaxTime,       \* bound on the clock
    Policies,      \* what a share may permit
    MaxPolicies,   \* bound on the changes of it
    MaxRequests    \* bound on the requests that arrive

ASSUME RangesType == Ranges \subseteq RangeHeaders
ASSUME PoliciesType == Policies \subseteq [allow_preview : BOOLEAN, allow_download : BOOLEAN]
ASSUME DeliveryBounds ==
    /\ MaxSize \in Nat /\ MaxWrites \in Nat /\ MaxTime \in Nat
    /\ MaxPolicies \in Nat /\ MaxRequests \in Nat
    /\ Second \in Nat \ {0} /\ Media \in BOOLEAN
ASSUME QuotaType ==
    GlobalStreams \in Nat /\ ClientStreams \in Nat /\ ClientRequests \in Nat

VARIABLES
    clock,      \* the time of the last write
    written,    \* the length and modification time of every version so far
    inode,      \* the version each inode holds; an inode is named by its first
    path,       \* the inode the path names, or NoFile
    policy,     \* allow_preview and allow_download of the share
    policies,   \* how often they were changed
    arrived,    \* how many requests have arrived
    announced,  \* history: the versions announced by requests they did not change in
    stage,      \* ClientQuota
    req         \* each request

NoFile == 0
fileVars == <<written, inode, path>>
ownerVars == <<fileVars, policy, policies>>
vars == <<clock, ownerVars, arrived, announced, stage, req>>

Quota == INSTANCE ClientQuota WITH Requests <- Downloads

Versions == 1..Len(written)
Idle == [pc |-> "idle"]

Init ==
    /\ clock = 0
    /\ \E size \in 0..MaxSize : written = <<[size |-> size, mtime |-> 0]>>
    /\ inode = <<1>>
    /\ path = 1
    /\ policy \in Policies
    /\ policies = 0
    /\ arrived = 0
    /\ announced = {}
    /\ Quota!Init
    /\ req = [d \in Downloads |-> Idle]

-----------------------------------------------------------------------------
(* The owner.  Time is looked at only when the file is written.            *)

(* Requests that are past their first look at the file have met a change.  *)
Changed == req' = [d \in Downloads |->
                      IF req[d] = Idle THEN Idle ELSE [req[d] EXCEPT !.changed = TRUE]]

NewVersion(size, time) ==
    /\ Len(written) < MaxWrites
    /\ time >= clock
    /\ clock' = time
    /\ written' = Append(written, [size |-> size, mtime |-> time])
    /\ Changed
    /\ UNCHANGED <<policy, policies, arrived, announced, stage>>

(* The file is rewritten in place: whoever has it open reads the new bytes.*)
Rewrite(size, time) ==
    /\ path # NoFile
    /\ NewVersion(size, time)
    /\ inode' = [Append(inode, 0) EXCEPT ![path] = Len(written')]
    /\ UNCHANGED path

(* Another file takes its name: whoever has it open keeps the old bytes.   *)
Replace(size, time) ==
    /\ NewVersion(size, time)
    /\ inode' = Append(inode, Len(written'))
    /\ path' = Len(written')

Remove ==
    /\ path # NoFile
    /\ path' = NoFile
    /\ Changed
    /\ UNCHANGED <<clock, written, inode, policy, policies, arrived, announced, stage>>

SetPolicy(p) ==
    /\ policies < MaxPolicies /\ p # policy
    /\ policy' = p
    /\ policies' = policies + 1
    /\ UNCHANGED <<clock, fileVars, arrived, announced, stage, req>>

-----------------------------------------------------------------------------
(* Preconditions that clients send: the tag or the date of a version they  *)
(* were told of, or something that is neither.                             *)

TagOf(v) == Etag(written[v].size, written[v].mtime)
DateOf(v) == written[v].mtime \div Second

NoPrecondition == [kind |-> "none"]
Preconditions ==
    {NoPrecondition, [kind |-> "other"]}
    \cup [kind : {"tag", "date"}, version : announced]

IfRangeMatches(condition, tag, modified) ==
    \/ condition.kind = "none"
    \/ condition.kind = "tag" /\ TagOf(condition.version) = tag
    \/ condition.kind = "date" /\ DateMatches(DateOf(condition.version), modified, Second)

-----------------------------------------------------------------------------
(* The handler.                                                            *)

Done(d) == req' = [req EXCEPT ![d] = Idle]
Goto(d, pc) == req' = [req EXCEPT ![d].pc = pc]

(* authorized_share returns the share as it is now; the handler uses this  *)
(* snapshot until its end.                                                 *)
Arrive(d, head, download, range, condition) ==
    /\ arrived < MaxRequests
    /\ arrived' = arrived + 1
    /\ req' = [req EXCEPT ![d] =
                 [pc |-> "prepare", head |-> head, download |-> download,
                  range |-> range, condition |-> condition, share |-> policy,
                  mtime |-> 0, tag |-> Etag(0, 0), total |-> 0, partial |-> FALSE,
                  start |-> 0, length |-> 0, opened |-> NoFile, offset |-> 0,
                  body |-> <<>>, changed |-> FALSE]]
    /\ UNCHANGED <<clock, ownerVars, announced, stage>>

Inline(d) == req[d].share.allow_preview /\ Media

(* Mutant of Forbidden: what is shown inline is never refused.             *)
ForbiddenUnlessInline(d) == ~Inline(d) /\ ~req[d].share.allow_download

(* A download, or what cannot be shown inline, needs allow_download.       *)
Forbidden(d) ==
    (req[d].download \/ ~Inline(d)) /\ ~req[d].share.allow_download

(* Mutant of Prepare: the entry comes from an earlier look at the file.    *)
PrepareFromCache(d) ==
    /\ req[d].pc = "prepare"
    /\ IF path = NoFile \/ Forbidden(d)
       THEN Done(d)
       ELSE req' = [req EXCEPT ![d] = [@ EXCEPT
                       !.pc = "metadata", !.changed = FALSE,
                       !.mtime = written[1].mtime]]
    /\ UNCHANGED <<clock, ownerVars, arrived, announced, stage>>

(* prepare_file returns the entry with the modification time of now.       *)
Prepare(d) ==
    /\ req[d].pc = "prepare"
    /\ IF path = NoFile \/ Forbidden(d)
       THEN Done(d)
       ELSE req' = [req EXCEPT ![d] = [@ EXCEPT
                       !.pc = "metadata", !.changed = FALSE,
                       !.mtime = written[inode[path]].mtime]]
    /\ UNCHANGED <<clock, ownerVars, arrived, announced, stage>>

(* The part of the file to send, from the Range header if it applies.      *)
Selected(d, file) ==
    IF IfRangeMatches(req[d].condition, Etag(file.size, req[d].mtime), file.mtime)
    THEN ParseRange(req[d].range, file.size) ELSE AllBytes

(* The headers go out: the client learns the tag and the date of the file, *)
(* and of one version of it if nothing has changed since the entry.        *)
Announce(d) ==
    IF req[d].changed THEN announced ELSE announced \cup {inode[path]}

(* The length is that of now, the tag joins it with the entry's time.      *)
Described(r, file, part) ==
    LET partial == part.kind = "part"
    IN  [r EXCEPT !.pc = IF r.head THEN "sent" ELSE "acquire",
                  !.tag = Etag(file.size, r.mtime),
                  !.total = file.size,
                  !.partial = partial,
                  !.start = IF partial THEN part.start ELSE 0,
                  !.length = IF partial THEN part.end - part.start + 1 ELSE file.size]

ReadMetadata(d) ==
    /\ req[d].pc = "metadata"
    /\ IF path = NoFile
       THEN Done(d)
       ELSE LET file == written[inode[path]]
                part == Selected(d, file)
            IN  IF part.kind = "error"
                THEN Done(d)
                ELSE req' = [req EXCEPT ![d] = Described(req[d], file, part)]
    /\ announced' = IF req'[d].pc = "sent" THEN Announce(d) ELSE announced
    /\ UNCHANGED <<clock, ownerVars, arrived, stage>>

(* StreamAdmission::acquire, or its errors.                                *)
Queue(d) ==
    /\ req[d].pc = "acquire"
    /\ \/ Quota!Join(d) /\ Goto(d, "waiting")
       \/ UNCHANGED stage /\ Done(d)
    /\ UNCHANGED <<clock, ownerVars, arrived, announced>>

Admit(d) ==
    /\ req[d].pc = "waiting"
    /\ Quota!Admit(d)
    /\ Goto(d, "open")
    /\ UNCHANGED <<clock, ownerVars, arrived, announced>>

(* Mutant of Open: the file is not sought to the start of the range.       *)
OpenUnsought(d) ==
    /\ req[d].pc = "open"
    /\ IF path = NoFile
       THEN Quota!Leave(d) /\ Done(d) /\ UNCHANGED announced
       ELSE /\ req' = [req EXCEPT ![d] = [@ EXCEPT !.pc = "stream", !.opened = path]]
            /\ announced' = Announce(d)
            /\ UNCHANGED stage
    /\ UNCHANGED <<clock, ownerVars, arrived>>

(* open_no_follow and seek; then the headers go out.                       *)
Open(d) ==
    /\ req[d].pc = "open"
    /\ IF path = NoFile
       THEN Quota!Leave(d) /\ Done(d) /\ UNCHANGED announced
       ELSE /\ req' = [req EXCEPT ![d] = [@ EXCEPT
                          !.pc = "stream", !.opened = path, !.offset = req[d].start]]
            /\ announced' = Announce(d)
            /\ UNCHANGED stage
    /\ UNCHANGED <<clock, ownerVars, arrived>>

(* What is left to read, now, in the file that was opened.                 *)
AtEnd(d) == req[d].offset >= written[inode[req[d].opened]].size

(* file.take(content_length)                                               *)
Complete(d) == Len(req[d].body) = req[d].length

ReadByte(d) ==
    /\ req[d].pc = "stream" /\ ~Complete(d) /\ ~AtEnd(d)
    /\ req' = [req EXCEPT ![d] = [@ EXCEPT
                 !.offset = req[d].offset + 1,
                 !.body = Append(req[d].body, [version |-> inode[req[d].opened],
                                               position |-> req[d].offset])]]
    /\ UNCHANGED <<clock, ownerVars, arrived, announced, stage>>

(* The stream ends and its permit is dropped; if the body is shorter than  *)
(* its content length the connection is cut.                               *)
EndBody(d) ==
    /\ req[d].pc = "stream" /\ (Complete(d) \/ AtEnd(d))
    /\ Quota!Leave(d)
    /\ Goto(d, IF Len(req[d].body) = req[d].length THEN "sent" ELSE "cut")
    /\ UNCHANGED <<clock, ownerVars, arrived, announced>>

Close(d) ==
    /\ req[d].pc \in {"sent", "cut"}
    /\ Done(d)
    /\ UNCHANGED <<clock, ownerVars, arrived, announced, stage>>

(* A timeout of the queue, a failed read, or a client that disconnects.    *)
Drop(d) ==
    /\ req[d].pc \in {"prepare", "metadata", "waiting", "open", "stream"}
    /\ IF stage[d] = "out" THEN UNCHANGED stage ELSE Quota!Leave(d)
    /\ Done(d)
    /\ UNCHANGED <<clock, ownerVars, arrived, announced>>

-----------------------------------------------------------------------------
Owner ==
    \/ \E size \in 0..MaxSize, time \in 0..MaxTime :
          Rewrite(size, time) \/ Replace(size, time)
    \/ Remove
    \/ \E p \in Policies : SetPolicy(p)

Handle(d) ==
    \/ /\ req[d] = Idle
       /\ \E head, download \in BOOLEAN, range \in Ranges, condition \in Preconditions :
             Arrive(d, head, download, range, condition)
    \/ Prepare(d) \/ ReadMetadata(d) \/ Queue(d) \/ Admit(d) \/ Open(d)
    \/ ReadByte(d) \/ EndBody(d) \/ Close(d) \/ Drop(d)

Next == Owner \/ \E d \in Downloads : Handle(d)

Spec == Init /\ [][Next]_vars

-----------------------------------------------------------------------------
(* Properties.                                                             *)

Phases == {"prepare", "metadata", "acquire", "waiting", "open", "stream", "sent", "cut"}

Requests ==
    [pc : Phases, head : BOOLEAN, download : BOOLEAN, range : Ranges,
     condition : Preconditions, share : Policies, mtime : 0..clock,
     tag : (0..MaxSize) \X (0..clock), total : 0..MaxSize, partial : BOOLEAN,
     start : 0..MaxSize, length : 0..MaxSize, opened : {NoFile} \cup DOMAIN inode,
     offset : 0..MaxSize,
     body : Seq([version : Versions, position : 0..(MaxSize - 1)]), changed : BOOLEAN]

StageOf(pc) ==
    IF pc = "waiting" THEN "waiting"
    ELSE IF pc \in {"open", "stream"} THEN "streaming" ELSE "out"

(* Every request is in a known phase with the snapshot that phase has, a   *)
(* permit is out exactly while a file is being opened or read, and the     *)
(* path names an inode that holds a version.                               *)
TypeOK ==
    /\ clock \in 0..MaxTime
    /\ written \in Seq([size : 0..MaxSize, mtime : 0..clock])
    /\ inode \in Seq(0..Len(written)) /\ Len(inode) = Len(written)
    /\ path # NoFile => path \in DOMAIN inode /\ inode[path] \in Versions
    /\ policy \in Policies /\ policies \in 0..MaxPolicies /\ arrived \in 0..MaxRequests
    /\ announced \subseteq Versions
    /\ req \in [Downloads -> {Idle} \cup Requests]
    /\ stage = [d \in Downloads |-> StageOf(req[d].pc)]

Bodies == {d \in Downloads : req[d].pc \in {"stream", "sent", "cut"} /\ ~req[d].head}

(* The positions the headers promise, computed from the header itself.     *)
Promised(d) ==
    IF req[d].partial THEN Requested(req[d].range, req[d].total)
    ELSE {p \in 0..MaxSize : p < req[d].total}

(* Whatever happens to the file, a body is the positions its headers       *)
(* promise, in order and without a gap, and it is all of them unless the   *)
(* connection is cut: Content-Range, Content-Length, seek and take agree.  *)
BodyIsRange ==
    \A d \in Bodies :
        LET body == req[d].body
        IN  /\ \A i \in DOMAIN body :
                  /\ body[i].position \in Promised(d)
                  /\ i > 1 => body[i].position = body[i - 1].position + 1
            /\ body # <<>> => body[1].position - 1 \notin Promised(d)
            /\ req[d].pc = "sent" =>
                  \A p \in Promised(d) : \E i \in DOMAIN body : body[i].position = p

(* A connection is cut short only if the file changed under the request.   *)
CutOnlyByChange == \A d \in Bodies : req[d].pc = "cut" => req[d].changed

(* If the file does not change from the entry to the last byte, every byte *)
(* is of the one version that the tag names, though tag, length and bytes  *)
(* come from three looks at the file.                                      *)
QuietDelivery ==
    \A d \in Bodies :
        ~req[d].changed =>
            /\ TagOf(inode[req[d].opened]) = req[d].tag
            /\ \A i \in DOMAIN req[d].body :
                  req[d].body[i].version = inode[req[d].opened]

(* Resuming a download: the part sent under If-Range is of the version the *)
(* client has the rest of, as far as its validator can tell (a tag: one of *)
(* the same length and time; a date: none more than a second newer), if    *)
(* the file does not change during either of the two requests.             *)
ResumeConsistent ==
    \A d \in Bodies :
        LET condition == req[d].condition IN
        req[d].partial /\ ~req[d].changed /\ condition.kind \in {"tag", "date"} =>
            \A i \in DOMAIN req[d].body :
                LET sent == written[req[d].body[i].version]
                    had == written[condition.version]
                IN  IF condition.kind = "tag" THEN sent = had
                    ELSE sent.mtime <= had.mtime + Second

(* What a share allows: an attachment with allow_download, and media shown *)
(* inline with either permission.                                          *)
Allows(share, download) ==
    \/ share.allow_download
    \/ share.allow_preview /\ Media /\ ~download

(* The handler decides on a snapshot of the share, so content may leave    *)
(* after the owner has withdrawn it; but only to requests that arrived     *)
(* before the owner changed the share.                                     *)
WithdrawnOnlyMidRequest ==
    \A d \in Bodies :
        ~Allows(policy, req[d].download) =>
            req[d].share # policy /\ Allows(req[d].share, req[d].download)

(* A file is open only for a request that admission has let in, so that    *)
(* the files the gateway reads at once, in all and for one client, are as  *)
(* few as admission promises, whichever way each request ends.             *)
FilesWithinQuota ==
    LET Reading(ds) == {d \in ds : req[d].pc \in {"open", "stream"}}
    IN  /\ Cardinality(Reading(Downloads)) <= GlobalStreams
        /\ \A c \in Clients :
              Cardinality(Reading({d \in Downloads : Peer[d] = c})) <= ClientStreams
=============================================================================
