------------------------ MODULE ContentDeliveryProofs ------------------------
(***************************************************************************)
(* Proofs about ContentDelivery, for any number of downloads, versions and *)
(* policies and files of any length.                                       *)
(*                                                                         *)
(* The argument.  Every fact is about one request and the file, so the     *)
(* invariant (Good) is a predicate on one request's record.  A step of a   *)
(* handler replaces one record and leaves the file alone; a step of the    *)
(* owner changes the file and marks every request as changed.              *)
(***************************************************************************)
EXTENDS ContentDelivery, FiniteSetTheorems, TLAPS

-----------------------------------------------------------------------------
(* What parse_range selects, for every length.                             *)

(* parse_range selects exactly the positions the header names in a file of *)
(* that length, in one non-empty interval inside the file, and refuses     *)
(* exactly the headers that name none: for all lengths and all numbers.    *)
THEOREM RangeIsRequested ==
    ASSUME NEW header \in RangeHeaders, header.kind # "none",
           NEW total \in Nat
    PROVE  LET part == ParseRange(header, total)
           IN  \/ part = RangeError /\ Requested(header, total) = {}
               \/ /\ part.kind = "part"
                  /\ part.start \in Nat /\ part.end \in Nat
                  /\ part.start <= part.end /\ part.end < total
                  /\ part.start..part.end = Requested(header, total)
  <1> DEFINE R(start, end) ==
                LET part == Checked(start, end, total)
                IN  \/ part = RangeError
                       /\ {p \in 0..(total - 1) : start <= p /\ p <= end} = {}
                    \/ /\ part.kind = "part"
                       /\ part.start \in Nat /\ part.end \in Nat
                       /\ part.start <= part.end /\ part.end < total
                       /\ part.start..part.end =
                             {p \in 0..(total - 1) : start <= p /\ p <= end}
  <1>0. ASSUME NEW start \in Nat, NEW end \in Nat, end < total
        PROVE  R(start, end)
    <2>1. CASE start > end
      BY <1>0, <2>1 DEF Checked, RangeError
    <2>2. CASE start <= end
      <3>1. Checked(start, end, total) = [kind |-> "part", start |-> start, end |-> end]
        BY <1>0, <2>2 DEF Checked, Part
      <3>2. start..end = {p \in 0..(total - 1) : start <= p /\ p <= end}
        BY <1>0, <2>2
      <3> QED BY <3>1, <3>2, <1>0, <2>2
    <2> QED BY <2>1, <2>2
  <1>1. CASE header.kind = "other" \/ total = 0
    <2>1. ParseRange(header, total) = RangeError
      BY <1>1 DEF ParseRange, Refused
    <2>2. Requested(header, total) = {}
      BY <1>1 DEF Requested, Named
    <2> QED BY <2>1, <2>2
  <1>2. CASE header.kind = "suffix" /\ total > 0
    <2>1. header.count \in Nat
      BY <1>2 DEF RangeHeaders
    <2>2. CASE header.count = 0
      <3>1. ParseRange(header, total) = RangeError
        BY <1>2, <2>2 DEF ParseRange, Refused
      <3>2. Requested(header, total) = {}
        BY <1>2, <2>2 DEF Requested, Named
      <3> QED BY <3>1, <3>2
    <2>3. CASE header.count > 0
      <3> DEFINE s == SaturatingSub(total, header.count)
      <3>1. s \in Nat /\ \A p \in 0..(total - 1) :
               (s <= p /\ p <= total - 1) <=> total <= p + header.count
        BY <2>1 DEF SaturatingSub
      <3>2. ParseRange(header, total) = Checked(s, total - 1, total)
        BY <1>2, <2>1, <2>3 DEF ParseRange, Refused
      <3>3. Requested(header, total) =
               {p \in 0..(total - 1) : s <= p /\ p <= total - 1}
        BY <1>2, <3>1 DEF Requested, Named
      <3>4. R(s, total - 1)
        BY <1>0, <1>2, <3>1
      <3> QED BY <3>2, <3>3, <3>4
    <2> QED BY <2>1, <2>2, <2>3
  <1>3. CASE header.kind = "from" /\ total > 0
    <2>1. header.first \in Nat
      BY <1>3 DEF RangeHeaders
    <2>2. ParseRange(header, total) = Checked(header.first, total - 1, total)
      BY <1>3 DEF ParseRange, Refused
    <2>3. Requested(header, total) =
             {p \in 0..(total - 1) : header.first <= p /\ p <= total - 1}
      BY <1>3, <2>1 DEF Requested, Named
    <2>4. R(header.first, total - 1)
      BY <1>0, <1>3, <2>1
    <2> QED BY <2>2, <2>3, <2>4
  <1>4. CASE header.kind = "span" /\ total > 0
    <2> DEFINE e == Smaller(header.last, total - 1)
    <2>1. header.first \in Nat /\ header.last \in Nat
      BY <1>4 DEF RangeHeaders
    <2>2. e \in Nat /\ e < total /\ \A p \in 0..(total - 1) : p <= e <=> p <= header.last
      BY <1>4, <2>1 DEF Smaller
    <2>3. ParseRange(header, total) = Checked(header.first, e, total)
      BY <1>4 DEF ParseRange, Refused
    <2>4. Requested(header, total) =
             {p \in 0..(total - 1) : header.first <= p /\ p <= e}
      BY <1>4, <2>1, <2>2 DEF Requested, Named
    <2>5. R(header.first, e)
      BY <1>0, <2>1, <2>2
    <2> QED BY <2>3, <2>4, <2>5
  <1>5. header.kind \in {"other", "suffix", "from", "span"}
    BY DEF RangeHeaders
  <1> QED BY <1>1, <1>2, <1>3, <1>4, <1>5

-----------------------------------------------------------------------------
(* The inductive invariant.                                                *)

Sending == {"stream", "sent", "cut"}
Going == {"acquire", "waiting", "open"} \cup Sending

(* The interval chosen from the headers is what they name.                 *)
Promise(r) ==
    r.pc \in Going =>
        /\ r.partial =>
              /\ r.length > 0
              /\ r.start..(r.start + r.length - 1) = Requested(r.range, r.total)
        /\ ~r.partial => r.start = 0 /\ r.length = r.total
        /\ r.start + r.length <= r.total
        /\ r.pc # "sent" => ~r.head

(* An open file is a file.                                                 *)
Opened(r) ==
    r.pc = "stream" => r.opened \in DOMAIN inode /\ inode[r.opened] \in Versions

(* The body is an initial part of the interval.                            *)
Progress(r) ==
    /\ r.pc \in {"prepare", "metadata", "acquire", "waiting", "open"} => r.body = <<>>
    /\ r.pc \in Sending /\ ~r.head =>
          /\ r.offset = r.start + Len(r.body)
          /\ Len(r.body) <= r.length
          /\ \A i \in 1..Len(r.body) : r.body[i].position = r.start + i - 1
          /\ r.pc = "sent" => Len(r.body) = r.length

(* The request passed the checks of permissions.                           *)
Allowed(r) ==
    r.pc \in {"metadata"} \cup Going => Allows(r.share, r.download)

(* While the file has not changed, all that was seen of it is still so.    *)
Quiet(r) ==
    ~r.changed /\ r.pc \in {"metadata"} \cup Going =>
        /\ path # NoFile
        /\ r.mtime = written[inode[path]].mtime
        /\ r.pc # "metadata" =>
              r.total = written[inode[path]].size /\ r.tag = Etag(r.total, r.mtime)
        /\ r.pc \in Sending /\ ~r.head =>
              /\ r.opened = path
              /\ \A i \in 1..Len(r.body) : r.body[i].version = inode[path]
        /\ r.pc # "cut"

(* A part is sent only under a precondition that held: a tag equal to that *)
(* of the version it names, a date not older than the file by a second.    *)
Resumed(r) ==
    r.partial /\ r.pc \in Going =>
        /\ r.condition.kind = "tag" => TagOf(r.condition.version) = r.tag
        /\ r.condition.kind = "date" /\ ~r.changed =>
              written[inode[path]].mtime <= (DateOf(r.condition.version) + 1) * Second

Good(r) ==
    /\ Promise(r) /\ Opened(r) /\ Progress(r) /\ Allowed(r)
    /\ Quiet(r) /\ Resumed(r)

IInv == TypeOK /\ \A d \in Downloads : Good(req[d])

-----------------------------------------------------------------------------
(* Sequences over a larger set.                                            *)
LEMMA SeqMonotone ==
    ASSUME NEW S, NEW T, S \subseteq T
    PROVE  Seq(S) \subseteq Seq(T)
  OBVIOUS

LEMMA SeqElement ==
    ASSUME NEW S, NEW s \in Seq(S), NEW i \in 1..Len(s)
    PROVE  s[i] \in S
  OBVIOUS

LEMMA SeqAppend ==
    ASSUME NEW S, NEW s \in Seq(S), NEW x \in S
    PROVE  /\ Append(s, x) \in Seq(S) /\ Len(s) \in Nat
           /\ Len(Append(s, x)) = Len(s) + 1
           /\ Append(s, x)[Len(s) + 1] = x
           /\ DOMAIN s = 1..Len(s) /\ DOMAIN Append(s, x) = 1..(Len(s) + 1)
           /\ \A i \in 1..Len(s) : Append(s, x)[i] = s[i]
  OBVIOUS

LEMMA SeqExcept ==
    ASSUME NEW S, NEW s \in Seq(S), NEW k \in 1..Len(s), NEW x \in S
    PROVE  LET t == [s EXCEPT ![k] = x]
           IN  /\ t \in Seq(S) /\ Len(t) = Len(s) /\ DOMAIN t = DOMAIN s
               /\ \A i \in 1..Len(s) : t[i] = IF i = k THEN x ELSE s[i]
  OBVIOUS

(* As time passes and versions are added, a request remains a request.     *)
LEMMA RequestsGrow ==
    ASSUME clock \in Nat, clock' \in Nat, clock <= clock',
           Len(written) \in Nat, Len(written') \in Nat, Len(written) <= Len(written'),
           DOMAIN inode \subseteq DOMAIN inode', announced \subseteq announced'
    PROVE  Requests \subseteq Requests'
  <1>1. Versions \subseteq Versions'
    BY DEF Versions
  <1>2. Seq([version : Versions, position : 0..(MaxSize - 1)])
           \subseteq Seq([version : Versions', position : 0..(MaxSize - 1)])
    <2>1. [version : Versions, position : 0..(MaxSize - 1)]
             \subseteq [version : Versions', position : 0..(MaxSize - 1)]
      BY <1>1
    <2> QED BY <2>1, SeqMonotone
  <1>3. Preconditions \subseteq Preconditions'
    BY DEF Preconditions, NoPrecondition
  <1>4. 0..clock \subseteq 0..clock'
    OBVIOUS
  <1> DEFINE Body == Seq([version : Versions, position : 0..(MaxSize - 1)])
             Body1 == Seq([version : Versions', position : 0..(MaxSize - 1)])
             Records(Conditions, Times, Inodes, B) ==
                [pc : Phases, head : BOOLEAN, download : BOOLEAN, range : Ranges,
                 condition : Conditions, share : Policies, mtime : Times,
                 tag : (0..MaxSize) \X Times, total : 0..MaxSize, partial : BOOLEAN,
                 start : 0..MaxSize, length : 0..MaxSize,
                 opened : {NoFile} \cup Inodes, offset : 0..MaxSize,
                 body : B, changed : BOOLEAN]
  <1>5. /\ Requests = Records(Preconditions, 0..clock, DOMAIN inode, Body)
        /\ Requests' = Records(Preconditions', 0..clock', DOMAIN inode', Body1)
    BY DEF Requests
  <1>6. Body \subseteq Body1
    BY <1>2
  <1> HIDE DEF Body, Body1
  <1>7. Records(Preconditions, 0..clock, DOMAIN inode, Body)
           \subseteq Records(Preconditions', 0..clock', DOMAIN inode', Body1)
    BY <1>3, <1>4, <1>6
  <1> QED BY <1>5, <1>7

(* A handler's step: one request becomes v, the file stays.                *)
LEMMA HandlerStep ==
    ASSUME IInv, NEW d \in Downloads, NEW v \in {Idle} \cup Requests, Good(v),
           UNCHANGED <<clock, ownerVars>>,
           arrived' \in 0..MaxRequests,
           announced \subseteq announced', announced' \subseteq Versions,
           req' = [req EXCEPT ![d] = v],
           stage' = [stage EXCEPT ![d] = StageOf(v.pc)]
    PROVE  IInv'
  <1>1. Requests \subseteq Requests'
    BY RequestsGrow, DeliveryBounds DEF IInv, TypeOK, ownerVars, fileVars
  <1>2. req' \in [Downloads -> {Idle} \cup Requests']
    BY <1>1 DEF IInv, TypeOK
  <1>3. stage' = [e \in Downloads |-> StageOf(req'[e].pc)]
    BY DEF IInv, TypeOK
  <1>4. TypeOK'
    BY <1>2, <1>3 DEF IInv, TypeOK, ownerVars, fileVars, Idle, Versions
  <1>5. \A e \in Downloads : Good(req'[e])
    BY DEF IInv, TypeOK
  <1>6. (\A e \in Downloads : Good(req[e]))'
    BY <1>5 DEF Good, Promise, Opened, Progress, Allowed, Quiet, Resumed, TagOf, DateOf,
       ownerVars, fileVars, Versions
  <1> QED BY <1>4, <1>6 DEF IInv

(* The facts of a request that every handler step starts from.             *)
LEMMA RequestFacts ==
    ASSUME IInv, NEW d \in Downloads
    PROVE  /\ req[d] \in {Idle} \cup Requests
           /\ req[d].pc # "idle" => req[d] \in Requests
           /\ Good(req[d])
           /\ stage[d] = StageOf(req[d].pc)
           /\ clock \in Nat
           /\ path # NoFile => /\ inode[path] \in Versions
                              /\ written[inode[path]].size \in 0..MaxSize
                              /\ written[inode[path]].mtime \in 0..clock
  <1>1. \A v \in Versions : written[v] \in [size : 0..MaxSize, mtime : 0..clock]
    <2>1. written \in Seq([size : 0..MaxSize, mtime : 0..clock])
      BY DEF IInv, TypeOK
    <2> QED BY <2>1, SeqElement DEF Versions
  <1> QED BY <1>1, DeliveryBounds DEF IInv, TypeOK, Idle

LEMMA InitInv == Init => IInv
  <1> SUFFICES ASSUME Init PROVE IInv
    OBVIOUS
  <1>1. Len(written) = 1 /\ written \in Seq([size : 0..MaxSize, mtime : 0..clock])
    BY DEF Init
  <1>2. TypeOK
    BY <1>1, DeliveryBounds DEF Init, TypeOK, Quota!Init, StageOf, Idle, Versions, NoFile
  <1>3. Good(Idle)
    BY DEF Good, Promise, Opened, Progress, Allowed, Quiet, Resumed, Idle, Going, Sending
  <1> QED BY <1>2, <1>3 DEF IInv, Init

-----------------------------------------------------------------------------
(* The owner's steps.                                                      *)

(* A request that is marked as changed keeps what does not depend on the   *)
(* file having stayed the same.                                            *)
LEMMA ChangedStep ==
    ASSUME IInv, Changed, NEW d \in Downloads,
           UNCHANGED stage,
           Requests \subseteq Requests',
           \A v \in Versions : written'[v] = written[v],
           \A i \in DOMAIN inode : inode[i] \in Versions =>
               i \in DOMAIN inode' /\ inode'[i] \in Versions'
    PROVE  /\ req'[d] \in {Idle} \cup Requests'
           /\ Good(req[d])'
           /\ stage'[d] = StageOf(req'[d].pc)
  <1>1. CASE req[d] = Idle
    <2>1. req'[d] = Idle
      BY <1>1 DEF Changed
    <2> QED BY <1>1, <2>1, RequestFacts DEF Good, Promise, Opened, Progress, Allowed, Quiet, Resumed,
               Idle, Going, Sending
  <1>2. CASE req[d] # Idle
    <2>1. PICK r : r = req[d]
      OBVIOUS
    <2>2. PICK v : v = [r EXCEPT !.changed = TRUE]
      OBVIOUS
    <2>3. req'[d] = v /\ r \in Requests /\ Good(r) /\ stage[d] = StageOf(r.pc)
      BY <1>2, <2>1, <2>2, RequestFacts DEF Changed
    <2>4. /\ v \in Requests
          /\ v.pc = r.pc /\ v.head = r.head /\ v.download = r.download
          /\ v.range = r.range /\ v.share = r.share /\ v.total = r.total
          /\ v.partial = r.partial /\ v.start = r.start /\ v.length = r.length
          /\ v.opened = r.opened /\ v.offset = r.offset /\ v.body = r.body
          /\ v.changed /\ v.condition = r.condition /\ v.tag = r.tag
      BY <2>2, <2>3 DEF Requests
    <2>5. r.condition.kind = "tag" => r.condition.version \in Versions
      BY <2>3 DEF Requests, Preconditions, NoPrecondition, IInv, TypeOK
    <2>6. Resumed(v)'
      <3> SUFFICES ASSUME v.partial, v.pc \in Going, v.condition.kind = "tag"
                   PROVE  TagOf(v.condition.version)' = v.tag
        BY <2>4 DEF Resumed
      <3>1. TagOf(r.condition.version) = r.tag /\ r.condition.version \in Versions
        BY <2>3, <2>4, <2>5 DEF Good, Resumed
      <3> QED BY <2>4, <3>1 DEF TagOf
    <2>7. Good(v)'
      BY <2>3, <2>4, <2>6 DEF Good, Promise, Opened, Progress, Allowed, Quiet
    <2> QED BY <2>3, <2>4, <2>7
         DEF Good, Promise, Opened, Progress, Allowed, Quiet, Resumed, TagOf, DateOf
  <1> QED BY <1>1, <1>2

(* Every version has a longer list of versions after it.                   *)
LEMMA VersionAdded ==
    ASSUME IInv, NEW size \in 0..MaxSize, NEW time \in 0..MaxTime, NewVersion(size, time)
    PROVE  /\ clock \in Nat /\ clock' \in 0..MaxTime /\ clock <= clock'
           /\ Len(written) \in Nat /\ Len(written') = Len(written) + 1
           /\ written' \in Seq([size : 0..MaxSize, mtime : 0..clock'])
           /\ Versions \subseteq Versions'
           /\ Len(written') \in Versions'
           /\ \A v \in Versions : written'[v] = written[v]
  <1>1. clock \in Nat /\ clock' = time /\ clock <= time
    BY DeliveryBounds DEF IInv, TypeOK, NewVersion
  <1>2. written \in Seq([size : 0..MaxSize, mtime : 0..time])
    <2>1. [size : 0..MaxSize, mtime : 0..clock] \subseteq [size : 0..MaxSize, mtime : 0..time]
      BY <1>1, DeliveryBounds
    <2> QED BY <2>1, SeqMonotone DEF IInv, TypeOK
  <1>3. [size |-> size, mtime |-> time] \in [size : 0..MaxSize, mtime : 0..time]
    BY DeliveryBounds
  <1>4. written' = Append(written, [size |-> size, mtime |-> time])
    BY DEF NewVersion
  <1> QED BY <1>1, <1>2, <1>3, <1>4, DeliveryBounds DEF Versions

(* A step of the owner that adds a version or takes the path away.         *)
LEMMA FileStep ==
    ASSUME IInv, Changed,
           UNCHANGED <<policy, policies, arrived, announced, stage>>,
           clock' \in 0..MaxTime, clock <= clock',
           Len(written') \in Nat, Len(written) <= Len(written'),
           written' \in Seq([size : 0..MaxSize, mtime : 0..clock']),
           \A v \in Versions : written'[v] = written[v],
           inode' \in Seq(0..Len(written')), Len(inode') = Len(written'),
           path' # NoFile => path' \in DOMAIN inode' /\ inode'[path'] \in Versions',
           \A i \in DOMAIN inode : inode[i] \in Versions =>
               i \in DOMAIN inode' /\ inode'[i] \in Versions'
    PROVE  IInv'
  <1>1. DOMAIN inode \subseteq DOMAIN inode' /\ Versions \subseteq Versions'
    <2>1. DOMAIN inode = 1..Len(written) /\ DOMAIN inode' = 1..Len(written')
      BY DEF IInv, TypeOK
    <2>2. Len(written) \in Nat
      BY DEF IInv, TypeOK
    <2>3. 1..Len(written) \subseteq 1..Len(written')
      BY <2>2
    <2> QED BY <2>1, <2>3 DEF Versions
  <1>2. Requests \subseteq Requests'
    BY <1>1, RequestsGrow, DeliveryBounds DEF IInv, TypeOK
  <1>3. \A d \in Downloads :
           /\ req'[d] \in {Idle} \cup Requests'
           /\ Good(req[d])'
           /\ stage'[d] = StageOf(req'[d].pc)
    BY <1>2, ChangedStep
  <1>4. req' \in [Downloads -> {Idle} \cup Requests']
    BY <1>3 DEF Changed
  <1>5. stage' = [d \in Downloads |-> StageOf(req'[d].pc)]
    BY <1>3 DEF IInv, TypeOK
  <1>6. announced' \subseteq Versions'
    BY <1>1 DEF IInv, TypeOK
  <1>7. TypeOK'
    BY <1>4, <1>5, <1>6 DEF IInv, TypeOK, Idle
  <1> QED BY <1>3, <1>7 DEF IInv

LEMMA RewriteStep ==
    ASSUME IInv, NEW size \in 0..MaxSize, NEW time \in 0..MaxTime, Rewrite(size, time)
    PROVE  IInv'
  <1>1. NewVersion(size, time)
    BY DEF Rewrite
  <1>2. /\ inode \in Seq(0..Len(written)) /\ Len(inode) = Len(written)
        /\ DOMAIN inode = 1..Len(inode)
        /\ path \in DOMAIN inode /\ path' = path
    BY DEF Rewrite, IInv, TypeOK
  <1> DEFINE longer == Append(inode, 0)
  <1>3. inode' = [longer EXCEPT ![path] = Len(written')]
    BY DEF Rewrite
  <1>4. /\ longer \in Seq(0..Len(written')) /\ Len(longer) = Len(written')
        /\ \A i \in DOMAIN inode : i \in DOMAIN longer /\ longer[i] = inode[i]
    <2>1. inode \in Seq(0..Len(written'))
      <3>1. 0..Len(written) \subseteq 0..Len(written')
        BY <1>1, VersionAdded
      <3> QED BY <1>2, <3>1, SeqMonotone
    <2>2. 0 \in 0..Len(written')
      BY <1>1, VersionAdded
    <2>3. Len(written') = Len(written) + 1
      BY <1>1, VersionAdded
    <2> QED BY <1>2, <2>1, <2>2, <2>3, SeqAppend
  <1> HIDE DEF longer
  <1>5. /\ inode' \in Seq(0..Len(written')) /\ Len(inode') = Len(written')
        /\ \A i \in DOMAIN inode :
              i \in DOMAIN inode' /\ inode'[i] = (IF i = path THEN Len(written') ELSE inode[i])
    <2>1. Len(written') \in 0..Len(written')
      BY <1>1, VersionAdded
    <2>2. path \in 1..Len(longer) /\ DOMAIN longer = 1..Len(longer)
      BY <1>2, <1>4
    <2> DEFINE S == 0..Len(written')
    <2>3. longer \in Seq(S) /\ Len(written') \in S
      BY <1>4, <2>1
    <2> HIDE DEF S
    <2>4. /\ inode' \in Seq(S) /\ Len(inode') = Len(longer) /\ DOMAIN inode' = DOMAIN longer
          /\ \A i \in 1..Len(longer) :
                inode'[i] = IF i = path THEN Len(written') ELSE longer[i]
      BY <1>3, <2>2, <2>3, SeqExcept
    <2> QED BY <1>4, <2>2, <2>4 DEF S
  <1>6. Changed /\ UNCHANGED <<policy, policies, arrived, announced, stage>>
    BY <1>1 DEF NewVersion
  <1>7. \A i \in DOMAIN inode : inode[i] \in Versions =>
           i \in DOMAIN inode' /\ inode'[i] \in Versions'
    <2>1. Versions \subseteq Versions' /\ Len(written') \in Versions'
      BY <1>1, VersionAdded
    <2> SUFFICES ASSUME NEW i \in DOMAIN inode, inode[i] \in Versions
                 PROVE  i \in DOMAIN inode' /\ inode'[i] \in Versions'
      OBVIOUS
    <2> QED BY <1>5, <2>1
  <1>8. path' \in DOMAIN inode' /\ inode'[path'] \in Versions'
    <2>1. Len(written') \in Versions'
      BY <1>1, VersionAdded
    <2>2. inode'[path] = Len(written')
      BY <1>2, <1>5
    <2> QED BY <1>2, <1>5, <2>1, <2>2
  <1>9. /\ clock' \in 0..MaxTime /\ clock <= clock'
        /\ Len(written') \in Nat /\ Len(written) <= Len(written')
        /\ written' \in Seq([size : 0..MaxSize, mtime : 0..clock'])
    <2>1. Len(written) \in Nat /\ Len(written') = Len(written) + 1
      BY <1>1, VersionAdded
    <2>2. /\ clock' \in 0..MaxTime /\ clock <= clock'
          /\ written' \in Seq([size : 0..MaxSize, mtime : 0..clock'])
      BY <1>1, VersionAdded
    <2> QED BY <2>1, <2>2
  <1>10. \A v \in Versions : written'[v] = written[v]
    BY <1>1, VersionAdded
  <1> QED BY <1>5, <1>6, <1>7, <1>8, <1>9, <1>10, FileStep

LEMMA ReplaceStep ==
    ASSUME IInv, NEW size \in 0..MaxSize, NEW time \in 0..MaxTime, Replace(size, time)
    PROVE  IInv'
  <1>1. /\ NewVersion(size, time) /\ path' = Len(written')
        /\ inode' = Append(inode, Len(written'))
    BY DEF Replace
  <1>2. inode \in Seq(0..Len(written)) /\ Len(inode) = Len(written)
    BY DEF IInv, TypeOK
  <1>3. /\ inode' \in Seq(0..Len(written')) /\ Len(inode') = Len(written')
        /\ inode'[Len(written')] = Len(written')
        /\ \A i \in DOMAIN inode : i \in DOMAIN inode' /\ inode'[i] = inode[i]
    <2>1. inode \in Seq(0..Len(written'))
      <3>1. 0..Len(written) \subseteq 0..Len(written')
        BY <1>1, VersionAdded
      <3> QED BY <1>2, <3>1, SeqMonotone
    <2>2. Len(written') \in 0..Len(written')
      BY <1>1, VersionAdded
    <2>3. Len(written') = Len(written) + 1
      BY <1>1, VersionAdded
    <2> QED BY <1>1, <1>2, <2>1, <2>2, <2>3, SeqAppend
  <1>4. Changed /\ UNCHANGED <<policy, policies, arrived, announced, stage>>
    BY <1>1 DEF NewVersion
  <1>5. path' \in DOMAIN inode'
    BY <1>1, <1>3, VersionAdded
  <1> QED BY <1>1, <1>3, <1>4, <1>5, VersionAdded, FileStep

LEMMA OwnerStep == IInv /\ Owner => IInv'
  <1> SUFFICES ASSUME IInv, Owner PROVE IInv'
    OBVIOUS
  <1>1. ASSUME NEW size \in 0..MaxSize, NEW time \in 0..MaxTime,
               Rewrite(size, time) \/ Replace(size, time)
        PROVE  IInv'
    BY <1>1, RewriteStep, ReplaceStep
  <1>2. CASE Remove
    <2>1. /\ Changed /\ UNCHANGED <<policy, policies, arrived, announced, stage>>
          /\ UNCHANGED <<clock, written, inode>> /\ path' = NoFile
      BY <1>2 DEF Remove
    <2>2. clock \in Nat /\ Len(written) \in Nat /\ Versions' = Versions
      BY <2>1, DeliveryBounds DEF IInv, TypeOK, Versions
    <2> QED BY <2>1, <2>2, FileStep DEF IInv, TypeOK
  <1>3. ASSUME NEW p \in Policies, SetPolicy(p)
        PROVE  IInv'
    <2>1. /\ UNCHANGED <<clock, written, inode, path, arrived, announced, stage, req>>
          /\ policy' \in Policies /\ policies' \in 0..MaxPolicies
      BY <1>3, DeliveryBounds DEF SetPolicy, fileVars, IInv, TypeOK
    <2>2. TypeOK'
      BY <2>1 DEF IInv, TypeOK, Requests, Preconditions, Versions
    <2> QED BY <2>1, <2>2 DEF IInv, Good, Promise, Opened, Progress, Allowed, Quiet,
               Resumed, TagOf, DateOf, Versions
  <1> QED BY <1>1, <1>2, <1>3 DEF Owner

-----------------------------------------------------------------------------
(* The handler's steps.                                                    *)

LEMMA SameStage ==
    ASSUME IInv, NEW d \in Downloads, NEW v, UNCHANGED stage,
           StageOf(v.pc) = StageOf(req[d].pc)
    PROVE  stage' = [stage EXCEPT ![d] = StageOf(v.pc)]
  BY DEF IInv, TypeOK

(* A request that is over has nothing to keep.                             *)
LEMMA DoneStep ==
    ASSUME IInv, NEW d \in Downloads, Done(d),
           UNCHANGED <<clock, ownerVars, arrived, announced>>,
           \/ stage' = [stage EXCEPT ![d] = "out"]
           \/ UNCHANGED stage /\ StageOf(req[d].pc) = "out"
    PROVE  IInv'
  <1>1. PICK v : v = Idle
    OBVIOUS
  <1>2. v.pc = "idle" /\ StageOf(v.pc) = "out"
    BY <1>1 DEF Idle, StageOf
  <1>3. Good(v)
    BY <1>2 DEF Good, Promise, Opened, Progress, Allowed, Quiet, Resumed, Going, Sending
  <1>4. stage' = [stage EXCEPT ![d] = StageOf(v.pc)]
    BY <1>2, SameStage
  <1>5. req' = [req EXCEPT ![d] = v]
    BY <1>1 DEF Done
  <1>6. arrived' \in 0..MaxRequests /\ announced' = announced /\ announced \subseteq Versions
    BY DEF IInv, TypeOK
  <1> QED BY <1>1, <1>3, <1>4, <1>5, <1>6, HandlerStep

LEMMA ArriveStep ==
    ASSUME IInv, NEW d \in Downloads, req[d] = Idle,
           NEW head \in BOOLEAN, NEW download \in BOOLEAN,
           NEW range \in Ranges, NEW condition \in Preconditions,
           Arrive(d, head, download, range, condition)
    PROVE  IInv'
  <1>1. PICK v : v = [pc |-> "prepare", head |-> head, download |-> download,
                  range |-> range, condition |-> condition, share |-> policy,
                  mtime |-> 0, tag |-> Etag(0, 0), total |-> 0, partial |-> FALSE,
                  start |-> 0, length |-> 0, opened |-> NoFile, offset |-> 0,
                  body |-> <<>>, changed |-> FALSE]
    OBVIOUS
  <1>2. v \in Requests
    <2>1. clock \in Nat /\ policy \in Policies
      BY DeliveryBounds DEF IInv, TypeOK
    <2> DEFINE Body == Seq([version : Versions, position : 0..(MaxSize - 1)])
    <2>2. <<>> \in Body
      OBVIOUS
    <2> HIDE DEF Body
    <2>3. Requests = [pc : Phases, head : BOOLEAN, download : BOOLEAN, range : Ranges,
                 condition : Preconditions, share : Policies, mtime : 0..clock,
                 tag : (0..MaxSize) \X (0..clock), total : 0..MaxSize, partial : BOOLEAN,
                 start : 0..MaxSize, length : 0..MaxSize,
                 opened : {NoFile} \cup DOMAIN inode, offset : 0..MaxSize,
                 body : Body, changed : BOOLEAN]
      BY DEF Requests, Body
    <2> QED BY <1>1, <2>1, <2>2, <2>3, DeliveryBounds DEF Etag, Phases
  <1>3. v.pc = "prepare" /\ v.body = <<>>
    BY <1>1
  <1>4. Good(v)
    BY <1>3 DEF Good, Promise, Opened, Progress, Allowed, Quiet, Resumed, Going, Sending
  <1>5. stage' = [stage EXCEPT ![d] = StageOf(v.pc)]
    BY <1>3, SameStage DEF Arrive, Idle, StageOf
  <1>6. /\ UNCHANGED <<clock, ownerVars>> /\ arrived' \in 0..MaxRequests
        /\ announced' = announced /\ announced \subseteq Versions
    BY DeliveryBounds DEF Arrive, IInv, TypeOK
  <1>7. req' = [req EXCEPT ![d] = v]
    BY <1>1 DEF Arrive
  <1> QED BY <1>2, <1>4, <1>5, <1>6, <1>7, HandlerStep

LEMMA PrepareStep ==
    ASSUME IInv, NEW d \in Downloads, Prepare(d)
    PROVE  IInv'
  <1>1. /\ UNCHANGED <<clock, ownerVars, arrived, announced, stage>>
        /\ arrived \in 0..MaxRequests /\ announced \subseteq Versions
        /\ StageOf(req[d].pc) = "out"
    BY DEF Prepare, IInv, TypeOK, StageOf
  <1>2. CASE path = NoFile \/ Forbidden(d)
    BY <1>1, <1>2, DoneStep DEF Prepare
  <1>3. CASE path # NoFile /\ ~Forbidden(d)
    <2>1. PICK r : r = req[d]
      OBVIOUS
    <2>2. r \in Requests /\ Good(r) /\ r.pc = "prepare"
      BY <2>1, RequestFacts DEF Prepare
    <2>3. PICK v : v = [r EXCEPT !.pc = "metadata", !.changed = FALSE,
                                 !.mtime = written[inode[path]].mtime]
      OBVIOUS
    <2>4. v \in Requests
      BY <1>3, <2>2, <2>3, RequestFacts DEF Requests, Phases
    <2>5. /\ v.pc = "metadata" /\ v.body = r.body /\ v.condition = r.condition /\ v.share = r.share
          /\ v.download = r.download /\ v.mtime = written[inode[path]].mtime
      BY <2>2, <2>3 DEF Requests
    <2>6. Allows(v.share, v.download)
      BY <1>3, <2>1, <2>5 DEF Forbidden, Inline, Allows
    <2>7. Good(v)
      BY <1>3, <2>2, <2>5, <2>6
         DEF Good, Promise, Opened, Progress, Allowed, Quiet, Resumed, Going, Sending
    <2>8. req' = [req EXCEPT ![d] = v]
      BY <1>3, <2>1, <2>3 DEF Prepare
    <2>9. stage' = [stage EXCEPT ![d] = StageOf(v.pc)]
      BY <1>1, <2>5, SameStage DEF StageOf
    <2> QED BY <1>1, <2>4, <2>7, <2>8, <2>9, HandlerStep
  <1> QED BY <1>2, <1>3

(* What a request is told of the file is a version of it.                  *)
LEMMA AnnouncedVersions ==
    ASSUME IInv, NEW d \in Downloads, path # NoFile
    PROVE  announced \subseteq Announce(d) /\ Announce(d) \subseteq Versions
  BY DEF Announce, IInv, TypeOK

LEMMA ReadMetadataStep ==
    ASSUME IInv, NEW d \in Downloads, ReadMetadata(d)
    PROVE  IInv'
  <1> DEFINE file == written[inode[path]]
             part == Selected(d, file)
  <1>1. /\ UNCHANGED <<clock, ownerVars, arrived, stage>>
        /\ arrived \in 0..MaxRequests /\ announced \subseteq Versions
        /\ req[d].pc = "metadata" /\ StageOf(req[d].pc) = "out"
    BY DEF ReadMetadata, IInv, TypeOK, StageOf
  <1>2. CASE path = NoFile \/ part.kind = "error"
    <2>1. Done(d)
      BY <1>2 DEF ReadMetadata
    <2>2. req'[d] = Idle
      BY <2>1 DEF Done, IInv, TypeOK
    <2>3. announced' = announced
      BY <2>2 DEF ReadMetadata, Idle
    <2> QED BY <1>1, <2>1, <2>3, DoneStep
  <1>3. CASE path # NoFile /\ part.kind # "error"
    <2>1. PICK r : r = req[d]
      OBVIOUS
    <2>2. r \in Requests /\ Good(r) /\ r.pc = "metadata"
      BY <1>1, <2>1, RequestFacts
    <2>3. file.size \in 0..MaxSize /\ clock \in Nat
      BY <1>3, RequestFacts
    <2>4. PICK chosen : chosen = part
      OBVIOUS
    <2>5. PICK v : v = Described(r, file, chosen)
      OBVIOUS
    <2>6. PICK start : start = IF chosen.kind = "part" THEN chosen.start ELSE 0
      OBVIOUS
    <2>7. PICK length : length = IF chosen.kind = "part" THEN chosen.end - chosen.start + 1
                                 ELSE file.size
      OBVIOUS
    <2>8. req' = [req EXCEPT ![d] = v]
      BY <1>3, <2>1, <2>4, <2>5 DEF ReadMetadata
    <2>9. /\ start \in 0..MaxSize /\ length \in 0..MaxSize
          /\ start + length <= file.size
          /\ chosen.kind = "part" =>
                /\ length > 0
                /\ start..(start + length - 1) = Requested(r.range, file.size)
          /\ chosen.kind # "part" => start = 0 /\ length = file.size
      <3>1. chosen = ParseRange(r.range, file.size) \/ chosen = AllBytes
        BY <2>1, <2>4 DEF Selected
      <3>2. CASE chosen.kind # "part"
        BY <2>3, <2>6, <2>7, <3>2, DeliveryBounds
      <3>3. CASE chosen.kind = "part"
        <4>1. chosen = ParseRange(r.range, file.size)
          BY <3>1, <3>3 DEF AllBytes
        <4>2. r.range \in RangeHeaders /\ r.range.kind # "none"
          BY <2>2, <3>3, <4>1, RangesType DEF Requests, ParseRange, AllBytes
        <4>3. chosen # RangeError
          BY <3>3 DEF RangeError
        <4>4. file.size \in Nat
          BY <2>3, DeliveryBounds
        <4>5. /\ chosen.start \in Nat /\ chosen.end \in Nat
              /\ chosen.start <= chosen.end /\ chosen.end < file.size
              /\ chosen.start..chosen.end = Requested(r.range, file.size)
          BY <4>1, <4>2, <4>3, <4>4, RangeIsRequested
        <4>6. start = chosen.start /\ length = chosen.end - chosen.start + 1
          BY <2>6, <2>7, <3>3
        <4>7. start + length - 1 = chosen.end /\ start + length <= file.size /\ length > 0
          BY <4>4, <4>5, <4>6
        <4>8. start \in 0..MaxSize /\ length \in 0..MaxSize
          BY <2>3, <4>4, <4>5, <4>6, DeliveryBounds
        <4>9. start..(start + length - 1) = Requested(r.range, file.size)
          BY <4>5, <4>6, <4>7
        <4> QED BY <3>3, <4>7, <4>8, <4>9
      <3> QED BY <3>2, <3>3
    <2>10. /\ v.pc = (IF r.head THEN "sent" ELSE "acquire")
           /\ v.tag = Etag(file.size, r.mtime) /\ v.total = file.size
           /\ v.partial = (chosen.kind = "part") /\ v.start = start /\ v.length = length
           /\ v.head = r.head /\ v.head \in BOOLEAN /\ v.download = r.download
           /\ v.range = r.range /\ v.share = r.share /\ v.mtime = r.mtime
           /\ v.body = r.body /\ v.condition = r.condition /\ v.changed = r.changed
      BY <2>2, <2>5, <2>6, <2>7 DEF Requests, Described
    <2>11. v \in Requests
      <3>1. Etag(file.size, r.mtime) \in (0..MaxSize) \X (0..clock)
        BY <2>2, <2>3 DEF Requests, Etag
      <3>2. PICK pc, tag, total, partial :
               /\ pc = (IF r.head THEN "sent" ELSE "acquire")
               /\ tag = Etag(file.size, r.mtime)
               /\ total = file.size
               /\ partial = (chosen.kind = "part")
        OBVIOUS
      <3>3. v = [r EXCEPT !.pc = pc, !.tag = tag, !.total = total,
                          !.partial = partial, !.start = start, !.length = length]
        BY <2>5, <2>6, <2>7, <3>2 DEF Described
      <3>4. /\ pc \in Phases /\ tag \in (0..MaxSize) \X (0..clock)
            /\ total \in 0..MaxSize /\ partial \in BOOLEAN
        BY <2>3, <3>1, <3>2 DEF Phases
      <3> QED BY <2>2, <2>9, <3>3, <3>4 DEF Requests
    <2>12. Good(v)
      <3>1. Promise(v)
        BY <2>9, <2>10 DEF Promise
      <3>2. Opened(v) /\ Progress(v)
        BY <2>2, <2>10 DEF Good, Opened, Progress, Sending
      <3>3. Allowed(v)
        BY <2>2, <2>10 DEF Good, Allowed
      <3>4. Quiet(v)
        BY <1>3, <2>2, <2>10 DEF Good, Quiet, Going, Sending
      <3>5. Resumed(v)
        <4> SUFFICES ASSUME v.partial PROVE Resumed(v)
          BY DEF Resumed
        <4>1. IfRangeMatches(r.condition, v.tag, file.mtime)
          BY <2>1, <2>4, <2>10 DEF Selected, AllBytes
        <4>2. v.condition = r.condition
          BY <2>10
        <4> QED BY <4>1, <4>2 DEF Resumed, IfRangeMatches, DateMatches
      <3> QED BY <3>1, <3>2, <3>3, <3>4, <3>5 DEF Good
    <2>13. stage' = [stage EXCEPT ![d] = StageOf(v.pc)]
      BY <1>1, <2>10, SameStage DEF StageOf
    <2>14. announced \subseteq announced' /\ announced' \subseteq Versions
      BY <1>1, <1>3, AnnouncedVersions DEF ReadMetadata
    <2> QED BY <1>1, <2>8, <2>11, <2>12, <2>13, <2>14, HandlerStep
  <1> QED BY <1>2, <1>3

(* A step that only moves a request on, with what it knows.                *)
LEMMA MoveStep ==
    ASSUME IInv, NEW d \in Downloads, NEW pc \in Phases,
           req[d].pc # "idle", Goto(d, pc),
           stage' = [stage EXCEPT ![d] = StageOf(pc)],
           UNCHANGED <<clock, ownerVars, arrived, announced>>,
           Good([req[d] EXCEPT !.pc = pc])
    PROVE  IInv'
  <1>1. PICK v : v = [req[d] EXCEPT !.pc = pc]
    OBVIOUS
  <1>2. v \in Requests /\ v.pc = pc
    <2>1. req[d] \in Requests
      BY RequestFacts
    <2> QED BY <1>1, <2>1 DEF Requests
  <1>3. req' = [req EXCEPT ![d] = v]
    BY <1>1 DEF Goto
  <1>4. arrived' \in 0..MaxRequests /\ announced' = announced /\ announced \subseteq Versions
    BY DEF IInv, TypeOK
  <1>5. Good(v)
    BY <1>1
  <1> QED BY <1>2, <1>3, <1>4, <1>5, HandlerStep

(* Waiting to open the file, a request knows what it knew.                 *)
LEMMA WaitingGood ==
    ASSUME NEW r \in Requests, Good(r),
           r.pc \in {"acquire", "waiting"}, NEW pc \in {"waiting", "open"}
    PROVE  Good([r EXCEPT !.pc = pc])
  <1>1. PICK v : v = [r EXCEPT !.pc = pc]
    OBVIOUS
  <1>2. /\ v.pc = pc /\ v.head = r.head /\ v.download = r.download
        /\ v.range = r.range /\ v.share = r.share /\ v.total = r.total
        /\ v.partial = r.partial /\ v.start = r.start /\ v.length = r.length
        /\ v.mtime = r.mtime /\ v.tag = r.tag
        /\ v.body = r.body /\ v.condition = r.condition /\ v.changed = r.changed
    BY <1>1 DEF Requests
  <1>3. Good(v)
    BY <1>2 DEF Good, Promise, Opened, Progress, Allowed, Quiet, Resumed, Going, Sending
  <1> QED BY <1>1, <1>3

LEMMA AdmissionStep ==
    ASSUME IInv, NEW d \in Downloads, Queue(d) \/ Admit(d)
    PROVE  IInv'
  <1>1. req[d] \in Requests /\ Good(req[d]) /\ req[d].pc \in {"acquire", "waiting"}
    BY RequestFacts DEF Queue, Admit
  <1>2. UNCHANGED <<clock, ownerVars, arrived, announced>>
    BY DEF Queue, Admit
  <1>3. CASE Queue(d) /\ Done(d) /\ UNCHANGED stage
    <2>1. StageOf(req[d].pc) = "out"
      BY <1>3 DEF Queue, StageOf
    <2> QED BY <1>2, <1>3, <2>1, DoneStep
  <1>4. CASE Queue(d) /\ Quota!Join(d) /\ Goto(d, "waiting")
    <2>1. stage' = [stage EXCEPT ![d] = StageOf("waiting")]
      BY <1>4 DEF Quota!Join, StageOf
    <2>2. Good([req[d] EXCEPT !.pc = "waiting"])
      BY <1>1, WaitingGood
    <2> QED BY <1>1, <1>2, <1>4, <2>1, <2>2, MoveStep DEF Phases
  <1>5. CASE Admit(d)
    <2>1. stage' = [stage EXCEPT ![d] = StageOf("open")] /\ Goto(d, "open")
      BY <1>5 DEF Admit, Quota!Admit, StageOf
    <2>2. Good([req[d] EXCEPT !.pc = "open"])
      BY <1>1, WaitingGood
    <2> QED BY <1>1, <1>2, <2>1, <2>2, MoveStep DEF Phases
  <1> QED BY <1>3, <1>4, <1>5 DEF Queue

LEMMA OpenStep ==
    ASSUME IInv, NEW d \in Downloads, Open(d)
    PROVE  IInv'
  <1>1. /\ UNCHANGED <<clock, ownerVars, arrived>> /\ req[d].pc = "open"
        /\ arrived \in 0..MaxRequests
    BY DEF Open, IInv, TypeOK
  <1>2. CASE path = NoFile
    BY <1>1, <1>2, DoneStep DEF Open, Quota!Leave
  <1>3. CASE path # NoFile
    <2>1. PICK r : r = req[d]
      OBVIOUS
    <2>2. r \in Requests /\ Good(r) /\ r.pc = "open"
      BY <1>1, <2>1, RequestFacts
    <2>3. path \in DOMAIN inode /\ inode[path] \in Versions
      BY <1>3 DEF IInv, TypeOK
    <2>4. PICK v : v = [r EXCEPT !.pc = "stream", !.opened = path, !.offset = r.start]
      OBVIOUS
    <2>5. v \in Requests
      BY <2>2, <2>3, <2>4 DEF Requests, Phases
    <2>6. /\ v.pc = "stream" /\ v.opened = path /\ v.offset = r.start
          /\ v.head = r.head /\ v.download = r.download
          /\ v.range = r.range /\ v.share = r.share /\ v.total = r.total
          /\ v.partial = r.partial /\ v.start = r.start /\ v.length = r.length
          /\ v.mtime = r.mtime /\ v.tag = r.tag
          /\ v.body = r.body /\ v.condition = r.condition /\ v.changed = r.changed
          /\ r.start \in Nat /\ r.length \in Nat
      BY <2>2, <2>4, DeliveryBounds DEF Requests
    <2>7. Good(v)
      <3>1. r.body = <<>> /\ Len(r.body) = 0
        BY <2>2 DEF Good, Progress
      <3>2. Promise(v) /\ Allowed(v)
        BY <2>2, <2>6 DEF Good, Promise, Allowed, Going, Sending
      <3>3. Opened(v)
        BY <2>3, <2>6 DEF Opened
      <3>4. Progress(v)
        BY <2>6, <3>1 DEF Progress
      <3>5. Quiet(v)
        BY <2>2, <2>6, <3>1 DEF Good, Quiet, Going, Sending
      <3>6. Resumed(v)
        BY <2>2, <2>6 DEF Good, Resumed, Going, Sending
      <3> QED BY <3>2, <3>3, <3>4, <3>5, <3>6 DEF Good
    <2>8. req' = [req EXCEPT ![d] = v]
      BY <1>3, <2>1, <2>4 DEF Open
    <2>9. stage' = [stage EXCEPT ![d] = StageOf(v.pc)]
      BY <1>1, <1>3, <2>6, SameStage DEF Open, StageOf
    <2>10. announced \subseteq announced' /\ announced' \subseteq Versions
      BY <1>3, AnnouncedVersions DEF Open
    <2> QED BY <1>1, <2>5, <2>7, <2>8, <2>9, <2>10, HandlerStep
  <1> QED BY <1>2, <1>3

LEMMA ReadByteStep ==
    ASSUME IInv, NEW d \in Downloads, ReadByte(d)
    PROVE  IInv'
  <1>1. /\ UNCHANGED <<clock, ownerVars, arrived, announced, stage>>
        /\ req[d].pc = "stream" /\ ~Complete(d) /\ ~AtEnd(d)
        /\ arrived \in 0..MaxRequests /\ announced \subseteq Versions
    BY DEF ReadByte, IInv, TypeOK
  <1>2. PICK r : r = req[d]
    OBVIOUS
  <1>3. r \in Requests /\ Good(r) /\ r.pc = "stream"
    BY <1>1, <1>2, RequestFacts
  <1>4. PICK byte : byte = [version |-> inode[r.opened], position |-> r.offset]
    OBVIOUS
  <1>5. PICK body : body = Append(r.body, byte)
    OBVIOUS
  <1>6. PICK v : v = [r EXCEPT !.offset = r.offset + 1, !.body = body]
    OBVIOUS
  <1>7. req' = [req EXCEPT ![d] = v]
    BY <1>2, <1>4, <1>5, <1>6 DEF ReadByte
  <1>8. /\ r.offset \in Nat /\ r.start \in Nat /\ r.length \in Nat /\ r.total \in Nat
        /\ r.head \in BOOLEAN /\ ~r.head
        /\ r.body \in Seq([version : Versions, position : 0..(MaxSize - 1)])
    BY <1>3, DeliveryBounds DEF Requests, Good, Promise, Going, Sending
  <1>9. /\ inode[r.opened] \in Versions
        /\ written[inode[r.opened]].size \in 0..MaxSize
    <2>1. inode[r.opened] \in Versions
      BY <1>3 DEF Good, Opened
    <2>2. written \in Seq([size : 0..MaxSize, mtime : 0..clock])
      BY DEF IInv, TypeOK
    <2>3. written[inode[r.opened]] \in [size : 0..MaxSize, mtime : 0..clock]
      BY <2>1, <2>2, SeqElement DEF Versions
    <2> QED BY <2>1, <2>3
  <1>10. r.offset < written[inode[r.opened]].size
    BY <1>1, <1>2, <1>8, <1>9, DeliveryBounds DEF AtEnd
  <1>11. r.offset + 1 \in 0..MaxSize /\ r.offset \in 0..(MaxSize - 1)
    BY <1>8, <1>9, <1>10, DeliveryBounds
  <1>12. /\ body \in Seq([version : Versions, position : 0..(MaxSize - 1)])
         /\ Len(r.body) \in Nat /\ Len(body) = Len(r.body) + 1
         /\ body[Len(r.body) + 1] = byte
         /\ \A i \in 1..Len(r.body) : body[i] = r.body[i]
    <2>1. byte \in [version : Versions, position : 0..(MaxSize - 1)]
      BY <1>4, <1>9, <1>11
    <2> QED BY <1>5, <1>8, <2>1, SeqAppend
  <1>13. v \in Requests
    BY <1>3, <1>6, <1>11, <1>12 DEF Requests
  <1>14. /\ v.pc = "stream" /\ v.offset = r.offset + 1 /\ v.body = body
         /\ v.head = r.head /\ v.download = r.download
         /\ v.range = r.range /\ v.share = r.share /\ v.total = r.total
         /\ v.partial = r.partial /\ v.start = r.start /\ v.length = r.length
         /\ v.mtime = r.mtime /\ v.tag = r.tag
         /\ v.opened = r.opened /\ v.changed = r.changed /\ v.condition = r.condition
    BY <1>3, <1>6 DEF Requests
  <1>15. Good(v)
    <2>1. Promise(v) /\ Opened(v) /\ Allowed(v)
      BY <1>3, <1>14 DEF Good, Promise, Opened, Allowed
    <2>2. Progress(v)
      <3>1. /\ r.offset = r.start + Len(r.body)
            /\ Len(r.body) <= r.length
            /\ \A i \in 1..Len(r.body) : r.body[i].position = r.start + i - 1
        BY <1>3, <1>8 DEF Good, Progress, Sending
      <3>2. Len(r.body) # r.length
        BY <1>1, <1>2 DEF Complete
      <3>3. v.offset = v.start + Len(v.body) /\ Len(v.body) <= v.length
        <4>1. Len(v.body) = Len(r.body) + 1 /\ Len(r.body) \in Nat
          BY <1>12, <1>14
        <4>2. r.offset = r.start + Len(r.body) /\ Len(r.body) < r.length
          BY <1>8, <4>1, <3>1, <3>2
        <4>3. v.offset = r.offset + 1 /\ v.start = r.start /\ v.length = r.length
          BY <1>14
        <4> QED BY <1>8, <4>1, <4>2, <4>3
      <3>4. ASSUME NEW i \in 1..Len(v.body)
            PROVE  v.body[i].position = v.start + i - 1
        <4>1. CASE i = Len(r.body) + 1
          <5>1. v.body[i].position = r.offset
            BY <1>4, <1>12, <1>14, <4>1
          <5> QED BY <1>8, <1>12, <1>14, <3>1, <4>1, <5>1
        <4>2. CASE i # Len(r.body) + 1
          <5>1. i \in 1..Len(r.body)
            BY <1>12, <1>14, <4>2
          <5> QED BY <1>12, <1>14, <3>1, <5>1
        <4> QED BY <4>1, <4>2
      <3> QED BY <1>14, <3>3, <3>4 DEF Progress
    <2>3. Quiet(v)
      <3>1. SUFFICES ASSUME ~r.changed PROVE Quiet(v)
        BY <1>14 DEF Quiet
      <3>2. /\ path # NoFile /\ r.mtime = written[inode[path]].mtime
            /\ r.total = written[inode[path]].size /\ r.tag = Etag(r.total, r.mtime)
            /\ r.opened = path
            /\ \A i \in 1..Len(r.body) : r.body[i].version = inode[path]
        BY <1>3, <1>8, <3>1 DEF Good, Quiet, Going, Sending
      <3>3. ASSUME NEW i \in 1..Len(v.body)
            PROVE  v.body[i].version = inode[path]
        <4>1. CASE i = Len(r.body) + 1
          BY <1>4, <1>12, <1>14, <3>2, <4>1
        <4>2. CASE i # Len(r.body) + 1
          <5>1. i \in 1..Len(r.body)
            BY <1>12, <1>14, <4>2
          <5> QED BY <1>12, <1>14, <3>2, <5>1
        <4> QED BY <4>1, <4>2
      <3> QED BY <1>14, <3>2, <3>3 DEF Quiet
    <2>4. Resumed(v)
      BY <1>3, <1>14 DEF Good, Resumed
    <2> QED BY <2>1, <2>2, <2>3, <2>4 DEF Good
  <1>16. stage' = [stage EXCEPT ![d] = StageOf(v.pc)]
    BY <1>1, <1>14, SameStage
  <1> QED BY <1>1, <1>7, <1>13, <1>15, <1>16, HandlerStep

(* A body ends complete, or else the file was shorter than announced.      *)
LEMMA EndBodyStep ==
    ASSUME IInv, NEW d \in Downloads, EndBody(d)
    PROVE  IInv'
  <1> DEFINE pc == IF Len(req[d].body) = req[d].length THEN "sent" ELSE "cut"
  <1>1. /\ UNCHANGED <<clock, ownerVars, arrived, announced>>
        /\ Goto(d, pc) /\ Quota!Leave(d)
    BY DEF EndBody
  <1>2. req[d].pc = "stream"
    BY DEF EndBody
  <1>3. stage' = [stage EXCEPT ![d] = StageOf(pc)]
    BY <1>1 DEF Quota!Leave, StageOf
  <1>4. PICK r : r = req[d]
    OBVIOUS
  <1>5. r \in Requests /\ Good(r) /\ r.pc = "stream"
    BY <1>2, <1>4, RequestFacts
  <1>6. PICK v : v = [r EXCEPT !.pc = pc]
    OBVIOUS
  <1>7. /\ v.pc = pc /\ v.head = r.head /\ v.download = r.download
        /\ v.range = r.range /\ v.share = r.share /\ v.total = r.total
        /\ v.partial = r.partial /\ v.start = r.start /\ v.length = r.length
        /\ v.mtime = r.mtime /\ v.tag = r.tag /\ v.offset = r.offset
        /\ v.opened = r.opened /\ v.body = r.body /\ v.condition = r.condition /\ v.changed = r.changed
    BY <1>5, <1>6 DEF Requests
  <1>8. /\ r.offset \in Nat /\ r.start \in Nat /\ r.length \in Nat /\ r.total \in Nat
        /\ ~r.head /\ Len(r.body) \in Nat
        /\ r.offset = r.start + Len(r.body) /\ Len(r.body) <= r.length
        /\ r.start + r.length <= r.total
    BY <1>5, DeliveryBounds DEF Requests, Good, Promise, Progress, Going, Sending
  <1>9. pc = "cut" => r.changed
    <2> SUFFICES ASSUME pc = "cut", ~r.changed PROVE FALSE
      BY <1>5 DEF Requests
    <2>1. Len(r.body) # r.length
      BY <1>4
    <2>2. AtEnd(d)
      BY <1>4, <2>1 DEF EndBody, Complete
    <2>3. r.opened = path /\ r.total = written[inode[path]].size
      BY <1>5, <1>8 DEF Good, Quiet, Going, Sending
    <2>4. r.offset >= r.total
      BY <1>4, <2>2, <2>3 DEF AtEnd
    <2> QED BY <1>8, <2>1, <2>4
  <1>10. Good(v)
    <2>1. Promise(v) /\ Opened(v) /\ Allowed(v)
      BY <1>5, <1>7 DEF Good, Promise, Opened, Allowed, Going, Sending
    <2>2. Progress(v)
      BY <1>4, <1>5, <1>7, <1>8 DEF Good, Progress, Sending
    <2>3. Quiet(v)
      BY <1>5, <1>7, <1>9 DEF Good, Quiet, Going, Sending
    <2>4. Resumed(v)
      BY <1>5, <1>7 DEF Good, Resumed, Going, Sending
    <2> QED BY <2>1, <2>2, <2>3, <2>4 DEF Good
  <1>11. Good([req[d] EXCEPT !.pc = pc])
    BY <1>4, <1>6, <1>10
  <1>12. pc \in Phases
    BY DEF Phases
  <1> HIDE DEF pc
  <1> QED BY <1>1, <1>2, <1>3, <1>11, <1>12, MoveStep

LEMMA HandlerInv ==
    ASSUME IInv, NEW d \in Downloads, Handle(d)
    PROVE  IInv'
  <1>1. ASSUME req[d] = Idle,
               NEW head \in BOOLEAN, NEW download \in BOOLEAN,
               NEW range \in Ranges, NEW condition \in Preconditions,
               Arrive(d, head, download, range, condition)
        PROVE  IInv'
    BY <1>1, ArriveStep
  <1>2. CASE Close(d)
    <2>1. /\ Done(d) /\ UNCHANGED <<clock, ownerVars, arrived, announced, stage>>
          /\ StageOf(req[d].pc) = "out"
      BY <1>2 DEF Close, StageOf
    <2> QED BY <2>1, DoneStep
  <1>3. CASE Drop(d)
    <2>1. Done(d) /\ UNCHANGED <<clock, ownerVars, arrived, announced>>
      BY <1>3 DEF Drop
    <2>2. \/ stage' = [stage EXCEPT ![d] = "out"]
          \/ UNCHANGED stage /\ StageOf(req[d].pc) = "out"
      BY <1>3, RequestFacts DEF Drop, Quota!Leave
    <2> QED BY <2>1, <2>2, DoneStep
  <1> QED BY <1>1, <1>2, <1>3, PrepareStep, ReadMetadataStep, AdmissionStep, OpenStep,
             ReadByteStep, EndBodyStep DEF Handle

LEMMA NextInv == IInv /\ [Next]_vars => IInv'
  <1>1. ASSUME IInv, UNCHANGED vars PROVE IInv'
    <2>1. UNCHANGED <<clock, written, inode, path, policy, policies, arrived, announced,
                      stage, req>>
      BY <1>1 DEF vars, ownerVars, fileVars
    <2>2. TypeOK'
      BY <1>1, <2>1 DEF IInv, TypeOK, Requests, Preconditions, Versions
    <2>3. ASSUME NEW d \in Downloads PROVE Good(req[d])'
      <3>1. Good(req[d])
        BY <1>1 DEF IInv
      <3> QED BY <2>1, <3>1 DEF Good, Promise, Opened, Progress, Allowed, Quiet,
                 Resumed, TagOf, DateOf, Versions
    <2> QED BY <2>2, <2>3 DEF IInv
  <1> QED BY <1>1, OwnerStep, HandlerInv DEF Next

(* Every request keeps Good, whatever the owner does to the file.          *)
THEOREM Invariance == Spec => []IInv
  BY InitInv, NextInv, PTL DEF Spec

-----------------------------------------------------------------------------
(* Types, and the permit each phase holds.                                 *)
THEOREM TypeCorrect == Spec => []TypeOK
  BY Invariance, PTL DEF IInv

(* Content-Range, Content-Length, seek and take agree for files of any     *)
(* length and any header, however the file is changed meanwhile (content). *)
THEOREM BodiesAreRanges == Spec => []BodyIsRange
  <1> SUFFICES ASSUME IInv PROVE BodyIsRange
    BY Invariance, PTL
  <1> SUFFICES ASSUME NEW d \in Bodies
               PROVE  LET body == req[d].body
                      IN  /\ \A i \in DOMAIN body :
                                /\ body[i].position \in Promised(d)
                                /\ i > 1 => body[i].position = body[i - 1].position + 1
                          /\ body # <<>> => body[1].position - 1 \notin Promised(d)
                          /\ req[d].pc = "sent" =>
                                \A p \in Promised(d) :
                                    \E i \in DOMAIN body : body[i].position = p
    BY DEF BodyIsRange
  <1>1. PICK r : r = req[d]
    OBVIOUS
  <1>2. r \in Requests /\ Good(r) /\ r.pc \in Sending /\ ~r.head /\ d \in Downloads
    BY <1>1, RequestFacts DEF Bodies, Sending
  <1>3. r.start \in Nat /\ r.length \in Nat /\ r.total \in 0..MaxSize /\ MaxSize \in Nat
    BY <1>2, DeliveryBounds DEF Requests
  <1>4. Promised(d) = r.start..(r.start + r.length - 1)
    <2>1. CASE r.partial
      BY <1>1, <1>2, <2>1 DEF Promised, Good, Promise, Going
    <2>2. CASE ~r.partial
      <3>1. r.start = 0 /\ r.length = r.total
        BY <1>2, <2>2 DEF Good, Promise, Going
      <3>2. Promised(d) = {p \in 0..MaxSize : p < r.total}
        BY <1>1, <2>2 DEF Promised
      <3> QED BY <1>3, <3>1, <3>2
    <2> QED BY <2>1, <2>2
  <1>5. PICK body, n : body = r.body /\ n = Len(r.body)
    OBVIOUS
  <1>6. /\ DOMAIN body = 1..n /\ n \in Nat /\ n <= r.length
        /\ body # <<>> => n > 0
        /\ r.pc = "sent" => n = r.length
    <2>1. body \in Seq([version : Versions, position : 0..(MaxSize - 1)])
      BY <1>2, <1>5 DEF Requests
    <2> QED BY <1>2, <1>5, <2>1 DEF Good, Progress
  <1>7. \A i \in 1..n : body[i].position = r.start + i - 1
    BY <1>2, <1>5 DEF Good, Progress
  <1>8. \A i \in DOMAIN body :
           /\ body[i].position \in Promised(d)
           /\ i > 1 => body[i].position = body[i - 1].position + 1
    <2> SUFFICES ASSUME NEW i \in 1..n
                 PROVE  /\ body[i].position \in Promised(d)
                        /\ i > 1 => body[i].position = body[i - 1].position + 1
      BY <1>6
    <2>1. body[i].position = r.start + i - 1
      BY <1>7
    <2>2. i > 1 => body[i - 1].position = r.start + (i - 1) - 1
      BY <1>6, <1>7
    <2> QED BY <1>3, <1>4, <1>6, <2>1, <2>2
  <1>9. body # <<>> => body[1].position - 1 \notin Promised(d)
    <2> SUFFICES ASSUME body # <<>> PROVE body[1].position - 1 \notin Promised(d)
      OBVIOUS
    <2>1. body[1].position = r.start
      BY <1>3, <1>6, <1>7
    <2> QED BY <1>3, <1>4, <2>1
  <1>10. r.pc = "sent" =>
            \A p \in Promised(d) : \E i \in DOMAIN body : body[i].position = p
    <2> SUFFICES ASSUME r.pc = "sent", NEW p \in Promised(d)
                 PROVE  \E i \in DOMAIN body : body[i].position = p
      OBVIOUS
    <2>1. p \in Nat /\ p - r.start + 1 \in 1..n
      BY <1>3, <1>4, <1>6
    <2>2. body[p - r.start + 1].position = r.start + (p - r.start + 1) - 1
      BY <1>7, <2>1
    <2>3. body[p - r.start + 1].position = p
      BY <1>3, <2>1, <2>2
    <2> QED BY <1>6, <2>1, <2>3
  <1> QED BY <1>1, <1>5, <1>8, <1>9, <1>10

(* A body shorter than its Content-Length means that the file changed      *)
(* between the entry and the last byte (content).                          *)
THEOREM CutsMeanChange == Spec => []CutOnlyByChange
  <1>1. IInv => CutOnlyByChange
    BY RequestFacts DEF CutOnlyByChange, Bodies, Good, Quiet, Going, Sending
  <1> QED BY <1>1, Invariance, PTL

(* Tag, length and bytes are of one version if the file does not change    *)
(* meanwhile, though the handler looks at it three times (content).        *)
THEOREM QuietDeliveries == Spec => []QuietDelivery
  <1> SUFFICES ASSUME IInv PROVE QuietDelivery
    BY Invariance, PTL
  <1> SUFFICES ASSUME NEW d \in Bodies, ~req[d].changed
               PROVE  /\ TagOf(inode[req[d].opened]) = req[d].tag
                      /\ \A i \in DOMAIN req[d].body :
                            req[d].body[i].version = inode[req[d].opened]
    BY DEF QuietDelivery
  <1>1. req[d] \in Requests /\ Good(req[d]) /\ req[d].pc \in Sending /\ ~req[d].head
    BY RequestFacts DEF Bodies, Sending
  <1>2. /\ req[d].opened = path
        /\ req[d].mtime = written[inode[path]].mtime
        /\ req[d].total = written[inode[path]].size
        /\ req[d].tag = Etag(req[d].total, req[d].mtime)
        /\ \A i \in 1..Len(req[d].body) : req[d].body[i].version = inode[path]
    BY <1>1 DEF Good, Quiet, Going, Sending
  <1>3. DOMAIN req[d].body = 1..Len(req[d].body)
    BY <1>1 DEF Requests
  <1> QED BY <1>2, <1>3 DEF TagOf

(* Content that the share forbids now goes only to requests that arrived   *)
(* before the owner changed the share (content, authorized_share).         *)
THEOREM WithdrawalsHold == Spec => []WithdrawnOnlyMidRequest
  <1>1. IInv => WithdrawnOnlyMidRequest
    BY RequestFacts DEF WithdrawnOnlyMidRequest, Bodies, Good, Allowed, Going, Sending
  <1> QED BY <1>1, Invariance, PTL

(* The whole seconds of a time are not more than it.                       *)
LEMMA WholeSeconds ==
    ASSUME NEW m \in Nat, NEW s \in Nat \ {0}
    PROVE  (m \div s + 1) * s <= m + s
  <1>1. PICK q : q = m \div s
    OBVIOUS
  <1>2. q \in Nat /\ q * s <= m
    BY <1>1
  <1>3. (q + 1) * s = q * s + s
    BY <1>2
  <1> QED BY <1>1, <1>2, <1>3

(* A download resumed under If-Range continues the version that the client *)
(* has, as far as a tag or a date can tell (if_range_matches, content).    *)
THEOREM ResumptionsConsistent == Spec => []ResumeConsistent
  <1> SUFFICES ASSUME IInv PROVE ResumeConsistent
    BY Invariance, PTL
  <1> SUFFICES ASSUME NEW d \in Bodies, req[d].partial, ~req[d].changed,
                      req[d].condition.kind \in {"tag", "date"},
                      NEW i \in DOMAIN req[d].body
               PROVE  LET sent == written[req[d].body[i].version]
                          had == written[req[d].condition.version]
                      IN  IF req[d].condition.kind = "tag" THEN sent = had
                          ELSE sent.mtime <= had.mtime + Second
    BY DEF ResumeConsistent
  <1>1. PICK r : r = req[d]
    OBVIOUS
  <1>2. r \in Requests /\ Good(r) /\ r.pc \in Sending /\ ~r.head
    BY <1>1, RequestFacts DEF Bodies, Sending
  <1>3. i \in 1..Len(r.body)
    BY <1>1, <1>2 DEF Requests
  <1>4. /\ r.body[i].version = inode[path] /\ inode[path] \in Versions
        /\ r.mtime = written[inode[path]].mtime /\ r.total = written[inode[path]].size
        /\ r.tag = Etag(r.total, r.mtime)
    BY <1>1, <1>2, <1>3, RequestFacts DEF Good, Quiet, Going, Bodies
  <1>5. r.condition.version \in Versions
    <2>1. r.condition \in Preconditions /\ r.condition.kind \in {"tag", "date"}
      BY <1>1, <1>2 DEF Requests
    <2>2. r.condition.version \in announced
      BY <2>1 DEF Preconditions, NoPrecondition
    <2> QED BY <2>2 DEF IInv, TypeOK
  <1>6. PICK had, sent : had = written[r.condition.version] /\ sent = written[inode[path]]
    OBVIOUS
  <1>7. /\ had \in [size : 0..MaxSize, mtime : 0..clock]
        /\ sent \in [size : 0..MaxSize, mtime : 0..clock]
    <2>1. written \in Seq([size : 0..MaxSize, mtime : 0..clock])
      BY DEF IInv, TypeOK
    <2> QED BY <1>4, <1>5, <1>6, <2>1, SeqElement DEF Versions
  <1>8. CASE r.condition.kind = "tag"
    <2>1. Etag(had.size, had.mtime) = Etag(sent.size, sent.mtime)
      BY <1>1, <1>2, <1>4, <1>6, <1>8 DEF Good, Resumed, TagOf, Going
    <2>2. sent = had
      BY <1>7, <2>1 DEF Etag
    <2> QED BY <1>1, <1>4, <1>6, <1>8, <2>2
  <1>9. CASE r.condition.kind = "date"
    <2>1. sent.mtime <= (had.mtime \div Second + 1) * Second
      BY <1>1, <1>2, <1>6, <1>9 DEF Good, Resumed, DateOf, Going
    <2>2. had.mtime \in Nat /\ sent.mtime \in Nat /\ Second \in Nat \ {0}
      BY <1>7, DeliveryBounds DEF IInv, TypeOK
    <2>3. (had.mtime \div Second + 1) * Second <= had.mtime + Second
      BY <2>2, WholeSeconds
    <2>4. sent.mtime <= had.mtime + Second
      <3>1. PICK q : q = had.mtime \div Second
        OBVIOUS
      <3>2. q \in Nat
        BY <2>2, <3>1
      <3>3. PICK limit : limit = (q + 1) * Second
        OBVIOUS
      <3>4. limit \in Nat
        BY <2>2, <3>2, <3>3
      <3> QED BY <2>1, <2>2, <2>3, <3>1, <3>3, <3>4
    <2> QED BY <1>1, <1>4, <1>6, <1>9, <2>4
  <1> QED BY <1>1, <1>8, <1>9

-----------------------------------------------------------------------------
(* Admission, as the handlers use it.                                      *)

(* Handlers join, are admitted and leave only as the quota allows.         *)
LEMMA NextUsesQuota == IInv /\ [Next]_vars => [Quota!Next]_stage
  <1> SUFFICES ASSUME IInv, [Next]_vars
               PROVE  [Quota!Next]_stage
    OBVIOUS
  <1>1. CASE Owner
    BY <1>1 DEF Owner, Rewrite, Replace, NewVersion, Remove, SetPolicy
  <1>2. ASSUME NEW d \in Downloads, Handle(d)
        PROVE  [Quota!Next]_stage
    <2>1. \/ UNCHANGED stage
          \/ Quota!Join(d) \/ Quota!Admit(d) \/ Quota!Leave(d)
      BY <1>2 DEF Handle, Arrive, Prepare, ReadMetadata, Queue, Admit, Open, ReadByte,
                  EndBody, Close, Drop
    <2> QED BY <2>1 DEF Quota!Next
  <1>3. CASE UNCHANGED vars
    BY <1>3 DEF vars
  <1> QED BY <1>1, <1>2, <1>3 DEF Next

(* The content handler keeps to the specification of admission, so that    *)
(* what StreamAdmission implements is what content relies on.              *)
THEOREM UsesQuota == Spec => Quota!Spec
  <1>1. Init => Quota!Init
    BY DEF Init
  <1> QED BY <1>1, Invariance, NextUsesQuota, PTL DEF Spec, Quota!Spec

LEMMA CountsAlike == \A S : Quota!Cardinality(S) = Cardinality(S)
  BY DEF Cardinality, Quota!Cardinality

\* At most n, and finitely many in any case.
Few(S, n) == IsFiniteSet(S) /\ Cardinality(S) <= n

LEMMA FewBegin ==
    ASSUME NEW n \in Nat
    PROVE  Few({}, n)
  BY FS_EmptySet DEF Few

LEMMA FewLess ==
    ASSUME NEW n \in Nat, NEW S, Few(S, n), NEW T, T \subseteq S
    PROVE  Few(T, n)
  <1>1. IsFiniteSet(T) /\ Cardinality(T) <= Cardinality(S)
    BY FS_Subset DEF Few
  <1>2. Cardinality(T) \in Nat /\ Cardinality(S) \in Nat
    BY <1>1, FS_CardinalityType DEF Few
  <1> QED BY <1>1, <1>2 DEF Few

LEMMA FewMore ==
    ASSUME NEW n \in Nat, NEW S, Few(S, n), Cardinality(S) < n, NEW x, NEW T, T = S \cup {x}
    PROVE  Few(T, n)
  <1>1. Cardinality(S) \in Nat
    BY FS_CardinalityType DEF Few
  <1>2. IsFiniteSet(T) /\ (Cardinality(T) = Cardinality(S) \/ Cardinality(T) = Cardinality(S) + 1)
    BY FS_AddElement DEF Few
  <1> QED BY <1>1, <1>2 DEF Few

QuotaInv ==
    /\ stage \in [Downloads -> {"out", "waiting", "streaming"}]
    /\ \A c \in Clients :
          Few(Quota!Present(c), ClientRequests) /\ Few(Quota!Streaming(c), ClientStreams)
    /\ Few(Quota!AllStreaming, GlobalStreams)

LEMMA InitQuota == Quota!Init => QuotaInv
  <1> SUFFICES ASSUME Quota!Init
               PROVE  QuotaInv
    OBVIOUS
  <1>1. /\ \A c \in Clients : Quota!Present(c) = {} /\ Quota!Streaming(c) = {}
        /\ Quota!AllStreaming = {}
    BY DEF Quota!Init, Quota!Present, Quota!Streaming, Quota!AllStreaming
  <1>2. stage \in [Downloads -> {"out", "waiting", "streaming"}]
    BY DEF Quota!Init
  <1> QED BY <1>1, <1>2, FewBegin, QuotaType DEF QuotaInv

LEMMA JoinQuota ==
    ASSUME QuotaInv, NEW d \in Downloads, Quota!Join(d)
    PROVE  QuotaInv'
  <1>1. /\ stage[d] = "out" /\ Cardinality(Quota!Present(Peer[d])) < ClientRequests
        /\ stage' = [stage EXCEPT ![d] = "waiting"]
        /\ stage \in [Downloads -> {"out", "waiting", "streaming"}]
    BY CountsAlike DEF Quota!Join, QuotaInv
  <1>2. stage' \in [Downloads -> {"out", "waiting", "streaming"}]
    BY <1>1
  <1>3. Quota!AllStreaming' = Quota!AllStreaming
    BY <1>1 DEF Quota!AllStreaming
  <1>4. ASSUME NEW c \in Clients
        PROVE  Few(Quota!Present(c)', ClientRequests) /\ Few(Quota!Streaming(c)', ClientStreams)
    <2>1. Quota!Streaming(c)' = Quota!Streaming(c)
      BY <1>1 DEF Quota!Streaming
    <2>2. CASE Peer[d] = c
      <3>1. Quota!Present(c)' = Quota!Present(c) \cup {d}
        BY <1>1, <2>2 DEF Quota!Present
      <3>2. PICK S : S = Quota!Present(c)
        OBVIOUS
      <3>3. Few(S, ClientRequests) /\ Cardinality(S) < ClientRequests
        BY <1>1, <2>2, <3>2 DEF QuotaInv
      <3>4. Few(S \cup {d}, ClientRequests)
        BY <3>3, FewMore, QuotaType
      <3> QED BY <2>1, <3>1, <3>2, <3>4 DEF QuotaInv
    <2>3. CASE Peer[d] # c
      <3>1. Quota!Present(c)' = Quota!Present(c)
        BY <1>1, <2>3 DEF Quota!Present
      <3> QED BY <2>1, <3>1 DEF QuotaInv
    <2> QED BY <2>2, <2>3
  <1> QED BY <1>2, <1>3, <1>4 DEF QuotaInv

LEMMA AdmitQuota ==
    ASSUME QuotaInv, NEW d \in Downloads, Quota!Admit(d)
    PROVE  QuotaInv'
  <1>1. /\ stage[d] = "waiting"
        /\ Cardinality(Quota!Streaming(Peer[d])) < ClientStreams
        /\ Cardinality(Quota!AllStreaming) < GlobalStreams
        /\ stage' = [stage EXCEPT ![d] = "streaming"]
        /\ stage \in [Downloads -> {"out", "waiting", "streaming"}]
    BY CountsAlike DEF Quota!Admit, QuotaInv
  <1>2. stage' \in [Downloads -> {"out", "waiting", "streaming"}]
    BY <1>1
  <1>3. Few(Quota!AllStreaming', GlobalStreams)
    <2>1. Quota!AllStreaming' = Quota!AllStreaming \cup {d}
      BY <1>1 DEF Quota!AllStreaming
    <2>2. PICK S : S = Quota!AllStreaming
      OBVIOUS
    <2>3. Few(S, GlobalStreams) /\ Cardinality(S) < GlobalStreams
      BY <1>1, <2>2 DEF QuotaInv
    <2>4. Few(S \cup {d}, GlobalStreams)
      BY <2>3, FewMore, QuotaType
    <2> QED BY <2>1, <2>2, <2>4
  <1>4. ASSUME NEW c \in Clients
        PROVE  Few(Quota!Present(c)', ClientRequests) /\ Few(Quota!Streaming(c)', ClientStreams)
    <2>1. Quota!Present(c)' = Quota!Present(c)
      BY <1>1 DEF Quota!Present
    <2>2. CASE Peer[d] = c
      <3>1. Quota!Streaming(c)' = Quota!Streaming(c) \cup {d}
        BY <1>1, <2>2 DEF Quota!Streaming
      <3>2. PICK S : S = Quota!Streaming(c)
        OBVIOUS
      <3>3. Few(S, ClientStreams) /\ Cardinality(S) < ClientStreams
        BY <1>1, <2>2, <3>2 DEF QuotaInv
      <3>4. Few(S \cup {d}, ClientStreams)
        BY <3>3, FewMore, QuotaType
      <3> QED BY <2>1, <3>1, <3>2, <3>4 DEF QuotaInv
    <2>3. CASE Peer[d] # c
      <3>1. Quota!Streaming(c)' = Quota!Streaming(c)
        BY <1>1, <2>3 DEF Quota!Streaming
      <3> QED BY <2>1, <3>1 DEF QuotaInv
    <2> QED BY <2>2, <2>3
  <1> QED BY <1>2, <1>3, <1>4 DEF QuotaInv

LEMMA LeaveQuota ==
    ASSUME QuotaInv, NEW d \in Downloads, Quota!Leave(d)
    PROVE  QuotaInv'
  <1>1. /\ stage' = [stage EXCEPT ![d] = "out"]
        /\ stage \in [Downloads -> {"out", "waiting", "streaming"}]
    BY DEF Quota!Leave, QuotaInv
  <1>2. stage' \in [Downloads -> {"out", "waiting", "streaming"}]
    BY <1>1
  <1>3. Quota!AllStreaming' \subseteq Quota!AllStreaming
    BY <1>1 DEF Quota!AllStreaming
  <1>4. ASSUME NEW c \in Clients
        PROVE  /\ Quota!Present(c)' \subseteq Quota!Present(c)
               /\ Quota!Streaming(c)' \subseteq Quota!Streaming(c)
    BY <1>1 DEF Quota!Present, Quota!Streaming
  <1> QED BY <1>2, <1>3, <1>4, FewLess, QuotaType DEF QuotaInv

(* The limits of the abstract quota hold of every run of it.               *)
THEOREM QuotaIsKept == Quota!Spec => []Quota!QuotaKept
  <1>1. QuotaInv /\ [Quota!Next]_stage => QuotaInv'
    <2>1. ASSUME QuotaInv, UNCHANGED stage
          PROVE  QuotaInv'
      BY <2>1 DEF QuotaInv, Quota!Present, Quota!Streaming, Quota!AllStreaming
    <2> QED BY <2>1, JoinQuota, AdmitQuota, LeaveQuota DEF Quota!Next
  <1>2. QuotaInv => Quota!QuotaKept
    BY CountsAlike DEF QuotaInv, Few, Quota!QuotaKept
  <1> QED BY <1>1, <1>2, InitQuota, PTL DEF Quota!Spec

(* content opens and reads a file only while it holds a stream permit, on  *)
(* every path out of it, so that the quota bounds the files being read.    *)
THEOREM FilesAreWithinQuota == Spec => []FilesWithinQuota
  <1>1. IInv /\ Quota!QuotaKept => FilesWithinQuota
    <2> SUFFICES ASSUME IInv, Quota!QuotaKept
                 PROVE  FilesWithinQuota
      OBVIOUS
    <2>1. \A d \in Downloads : req[d].pc \in {"open", "stream"} <=> stage[d] = "streaming"
      BY DEF IInv, TypeOK, StageOf
    <2>2. {d \in Downloads : req[d].pc \in {"open", "stream"}} = Quota!AllStreaming
      BY <2>1 DEF Quota!AllStreaming
    <2>3. ASSUME NEW c \in Clients
          PROVE  {d \in {d \in Downloads : Peer[d] = c} : req[d].pc \in {"open", "stream"}}
                    = Quota!Streaming(c)
      BY <2>1 DEF Quota!Streaming
    <2> QED BY <2>2, <2>3, CountsAlike DEF FilesWithinQuota, Quota!QuotaKept
  <1> QED BY <1>1, UsesQuota, QuotaIsKept, Invariance, PTL
=============================================================================
