----------------------------- MODULE FileBrowser -----------------------------
(***************************************************************************)
(* The folder view of the web client and its preview dialog: components    *)
(* Go and So of the bundle src/assets/assets/webFiles-D6_XYOPO.js, which   *)
(* is minified; the names of its variables are given in brackets.  The     *)
(* shell (module WebApp) mounts the view with a share and a path and may   *)
(* change both at any time.  Requests are answered, or fail, in any order. *)
(*                                                                         *)
(* A listing is a sequence of pages, and a page stands for the entries the *)
(* service returned with it.  Search, sorting, layout and the wording of   *)
(* errors change no state that matters here and are left out.  No name of  *)
(* this module is one of the shell's, so that a module may extend both.    *)
(***************************************************************************)
EXTENDS Naturals, Sequences, FiniteSets, FiniteSetsExt

CONSTANTS
    Slugs,          \* the shares, by their slugs
    PreviewShares,  \* the shares that allow previews
    Folders,        \* paths of folders, as a client may spell them
    Files,          \* paths of files
    TextFiles,      \* those with a text preview
    Parent,         \* the folder of each file
    Pages,          \* how many pages the listing of a folder has
    Canonical,      \* the path the service reports for a path it was asked
    Null,           \* null and the empty string
    MaxLoads,       \* bound on the folder requests of one mounted view
    MaxCalls        \* for each kind of request, a bound on those in flight

RequestKinds == {"entries", "more", "metadata", "text"}

ASSUME BrowserAssumption ==
    /\ PreviewShares \subseteq Slugs
    /\ TextFiles \subseteq Files
    /\ Parent \in [Files -> Folders]
    /\ Pages \in [Folders -> Nat \ {0}]
    /\ Canonical \in [Folders -> Folders]
    /\ Null \notin Slugs \cup Folders \cup Files
    /\ MaxLoads \in Nat \ {0}
    /\ MaxCalls \in [RequestKinds -> Nat \ {0}]

VARIABLES
    share,        \* [v] property: the share on show, Null while not mounted
    initialPath,  \* [f] property: the folder the shell asks for
    folder,       \* [A] the folder on show
    requested,    \* [P] the folder last asked for, or last reported
    loads,        \* [R] number of the last folder request
    cursor,       \* [H] the next page of the listing, 0 if there is none
    pages,        \* [Z] what is listed, page by page
    loading,      \* [w] a folder is being read
    loadingMore,  \* [b] a further page is being read
    errored,      \* [y] an error hides the listing
    preview,      \* [a] the entry in the preview dialog
    text,         \* [s of So] the text the dialog holds
    textLoading,  \* [v of So] the dialog shows a spinner
    textFailed,   \* [u of So] the dialog shows an error
    requests,     \* requests in flight
    switched,     \* history: the share changed and no folder was asked for since
    mixed,        \* history: a page of an earlier listing was appended
    replaced      \* history: the entry of an open dialog was replaced

props == <<share, initialPath>>
listing == <<folder, requested, loads, cursor, pages, loading, errored>>
dialog == <<preview, text, textLoading, textFailed, replaced>>
viewVars == <<props, listing, loadingMore, dialog, requests, switched, mixed>>

-----------------------------------------------------------------------------
(* Requests.                                                               *)

Call(kind, id, s, p, page) ==
    [kind |-> kind, id |-> id, share |-> s, path |-> p, page |-> page,
     since |-> IF kind = "more" THEN loads ELSE 0]

Outstanding(kind) == {c \in requests : c.kind = kind}

(* A place for one more request of a kind.                                 *)
FreeIds(kind) == (1..MaxCalls[kind]) \ {c.id : c \in Outstanding(kind)}

Page(c, p) == [share |-> c.share, path |-> p, page |-> c.page]

(* What the service says comes after a page.                               *)
NextCursor(p, page) == IF page < Pages[p] THEN page + 1 ELSE 0

-----------------------------------------------------------------------------
(* The view.                                                               *)

ViewInit ==
    /\ share = Null /\ initialPath = Null
    /\ folder = Null /\ requested = Null
    /\ loads = 0 /\ cursor = 0 /\ pages = <<>>
    /\ loading = FALSE /\ loadingMore = FALSE /\ errored = FALSE
    /\ preview = Null /\ text = Null
    /\ textLoading = FALSE /\ textFailed = FALSE
    /\ requests = {}
    /\ switched = FALSE /\ mixed = FALSE /\ replaced = FALSE

(* [k] asks for folder p of share s, beside the requests in others.        *)
LoadOf(s, p, others) ==
    /\ loads < MaxLoads
    /\ loads' = loads + 1
    /\ requested' = p
    /\ folder' = p
    /\ loading' = TRUE
    /\ errored' = FALSE
    /\ requests' = others \cup {Call("entries", loads + 1, s, p, 1)}
    /\ switched' = FALSE

Load(s, p, others) ==
    /\ LoadOf(s, p, others)
    /\ UNCHANGED <<cursor, pages, mixed>>

NoLoad(others) ==
    /\ requests' = others
    /\ UNCHANGED listing

(* The shell shows the view.  The reactive statement that compares the     *)
(* property with [P] asks for the folder.                                  *)
Mount(s, p) ==
    /\ share = Null
    /\ share' = s
    /\ initialPath' = p
    /\ Load(s, p, requests)
    /\ UNCHANGED <<loadingMore, dialog>>

(* The view is taken down; late answers reach nothing that is shown.       *)
Unmount ==
    /\ share # Null
    /\ share' = Null /\ initialPath' = Null
    /\ folder' = Null /\ requested' = Null
    /\ loads' = 0 /\ cursor' = 0 /\ pages' = <<>>
    /\ loading' = FALSE /\ loadingMore' = FALSE /\ errored' = FALSE
    /\ preview' = Null /\ text' = Null
    /\ textLoading' = FALSE /\ textFailed' = FALSE
    /\ requests' = {}
    /\ switched' = FALSE /\ mixed' = FALSE /\ replaced' = FALSE

(* The requests of a dialog that shows entry e of share s from now on.     *)
Texts(s, e) ==
    IF e \in TextFiles /\ s \in PreviewShares /\ FreeIds("text") # {}
    THEN {Call("text", Min(FreeIds("text")), s, e, 0)} ELSE {}

(* [f of So] reads the text again, if the entry has one.                   *)
ReadText(s, e) ==
    IF e \in TextFiles /\ s \in PreviewShares
    THEN /\ FreeIds("text") # {}
         /\ text' = Null
         /\ textLoading' = TRUE
         /\ textFailed' = FALSE
    ELSE UNCHANGED <<text, textLoading, textFailed>>

(* The shell changes the share, the path, or both.  Only a path that       *)
(* differs from the one last asked for makes the view read a folder.       *)
ChangeProps(s, p) ==
    /\ share # Null
    /\ <<s, p>> # props
    /\ share' = s
    /\ initialPath' = p
    /\ LET again == s # share /\ preview # Null
           others == requests \cup IF again THEN Texts(s, preview) ELSE {}
       IN /\ IF again
             THEN ReadText(s, preview)
             ELSE UNCHANGED <<text, textLoading, textFailed>>
          /\ replaced' = (replaced \/ again)
          /\ IF p # requested
             THEN Load(s, p, others)
             ELSE /\ NoLoad(others)
                  /\ switched' = (switched \/ s # share)
                  /\ UNCHANGED mixed
    /\ UNCHANGED <<loadingMore, preview>>

(* Refresh, or reconnect after an error.                                   *)
Refresh ==
    /\ share # Null
    /\ ~loading
    /\ Load(share, folder, requests)
    /\ UNCHANGED <<props, loadingMore, dialog>>

-----------------------------------------------------------------------------
(* Answers to folder requests.                                             *)

Listed(c) ==
    LET p == Canonical[c.path] IN
    /\ cursor' = NextCursor(p, 1)
    /\ pages' = <<Page(c, p)>>
    /\ mixed' = FALSE
    /\ IF initialPath # p
       THEN LoadOf(share, initialPath, requests \ {c})
       ELSE /\ folder' = p
            /\ requested' = p
            /\ loading' = FALSE
            /\ requests' = requests \ {c}
            /\ UNCHANGED <<loads, errored, switched>>

(* Mutant of LoadFailed: the spinner stays after a failure.                *)
LoadFailedSpinning(c) ==
    /\ errored' = TRUE
    /\ requests' = requests \ {c}
    /\ UNCHANGED <<folder, requested, loads, cursor, pages, loading>>
    /\ UNCHANGED <<switched, mixed>>

LoadFailed(c) ==
    /\ errored' = TRUE
    /\ loading' = FALSE
    /\ requests' = requests \ {c}
    /\ UNCHANGED <<folder, requested, loads, cursor, pages>>
    /\ UNCHANGED <<switched, mixed>>

(* Mutant of Latest: an answer is taken whatever its number.               *)
AnyNumber(c) == c.id <= loads

(* The answer is to the last request [F===R].                              *)
Latest(c) == c.id = loads

EntriesAnswer(c) ==
    /\ c \in Outstanding("entries")
    /\ IF Latest(c)
       THEN Listed(c) \/ LoadFailed(c)
       ELSE NoLoad(requests \ {c}) /\ UNCHANGED <<switched, mixed>>
    /\ UNCHANGED <<props, loadingMore, dialog>>

(* Mutant of LoadMore: the button works while a page is being read.        *)
LoadMoreTwice ==
    /\ share # Null /\ ~loading /\ ~errored
    /\ cursor # 0
    /\ FreeIds("more") # {}
    /\ loadingMore' = TRUE
    /\ requests' = requests \cup
          {Call("more", Min(FreeIds("more")), share, folder, cursor)}
    /\ UNCHANGED <<props, listing, dialog, switched, mixed>>

(* [J] the button below a listing that goes on.                            *)
LoadMore ==
    /\ share # Null /\ ~loading /\ ~errored
    /\ cursor # 0
    /\ ~loadingMore
    /\ FreeIds("more") # {}
    /\ loadingMore' = TRUE
    /\ requests' = requests \cup
          {Call("more", Min(FreeIds("more")), share, folder, cursor)}
    /\ UNCHANGED <<props, listing, dialog, switched, mixed>>

(* A further page.  Nothing is compared with what is on show by now.       *)
MoreAnswer(c) ==
    /\ c \in Outstanding("more")
    /\ loadingMore' = FALSE
    /\ requests' = requests \ {c}
    /\ \/ /\ pages' = Append(pages, Page(c, Canonical[c.path]))
          /\ cursor' = NextCursor(Canonical[c.path], c.page)
          /\ mixed' = (mixed \/ c.since # loads)
          /\ UNCHANGED errored
       \/ errored' = TRUE /\ UNCHANGED <<pages, cursor, mixed>>
    /\ UNCHANGED <<props, folder, requested, loads, loading, dialog, switched>>

-----------------------------------------------------------------------------
(* The preview dialog.                                                     *)

(* [g0] a click on the row of a file asks for its metadata.                *)
OpenFile(e) ==
    /\ share # Null /\ ~loading /\ ~errored
    /\ \E i \in DOMAIN pages : pages[i].path = Parent[e]
    /\ FreeIds("metadata") # {}
    /\ requests' = requests \cup
          {Call("metadata", Min(FreeIds("metadata")), share, e, 0)}
    /\ UNCHANGED <<props, listing, loadingMore, dialog, switched, mixed>>

(* The dialog shows the entry, or goes over to it.  A dialog for a text    *)
(* forgets what it showed and asks for the text [f of So].                 *)
MetadataAnswer(c) ==
    /\ c \in Outstanding("metadata")
    /\ \/ /\ preview' = c.path
          /\ ReadText(share, c.path)
          /\ requests' = (requests \ {c}) \cup Texts(share, c.path)
          /\ replaced' = (replaced \/ preview # Null)
          /\ UNCHANGED errored
       \/ /\ errored' = TRUE
          /\ requests' = requests \ {c}
          /\ UNCHANGED dialog
    /\ UNCHANGED <<props, folder, requested, loads, cursor, pages, loading>>
    /\ UNCHANGED <<loadingMore, switched, mixed>>

TextAnswer(c) ==
    /\ c \in Outstanding("text")
    /\ requests' = requests \ {c}
    /\ textLoading' = FALSE
    /\ \/ text' = [share |-> c.share, path |-> c.path] /\ UNCHANGED textFailed
       \/ textFailed' = TRUE /\ UNCHANGED text
    /\ UNCHANGED <<props, listing, loadingMore, preview, replaced>>
    /\ UNCHANGED <<switched, mixed>>

(* Mutant of ClosePreview: the dialog is hidden, not taken down.           *)
ClosePreviewHiding ==
    /\ preview # Null
    /\ preview' = Null
    /\ text' = Null /\ textLoading' = FALSE /\ textFailed' = FALSE
    /\ replaced' = FALSE
    /\ UNCHANGED <<props, listing, loadingMore, requests, switched, mixed>>

(* The dialog is taken down, and its requests with it.                     *)
ClosePreview ==
    /\ preview # Null
    /\ preview' = Null
    /\ text' = Null /\ textLoading' = FALSE /\ textFailed' = FALSE
    /\ replaced' = FALSE
    /\ requests' = requests \ Outstanding("text")
    /\ UNCHANGED <<props, listing, loadingMore, switched, mixed>>

-----------------------------------------------------------------------------
ViewAnswer(c) ==
    EntriesAnswer(c) \/ MoreAnswer(c) \/ MetadataAnswer(c) \/ TextAnswer(c)

ViewNext ==
    \/ \E s \in Slugs, p \in Folders : Mount(s, p) \/ ChangeProps(s, p)
    \/ Unmount
    \/ Refresh
    \/ LoadMore
    \/ \E e \in Files : OpenFile(e)
    \/ ClosePreview
    \/ \E c \in requests : ViewAnswer(c)

ViewSpec == ViewInit /\ [][ViewNext]_viewVars

(* Every request ends, with an answer or with an error of the network.     *)
ViewFairSpec ==
    /\ ViewSpec
    /\ \A t \in 1..MaxLoads :
          WF_viewVars(\E c \in requests : c.id = t /\ EntriesAnswer(c))

-----------------------------------------------------------------------------
(* Properties.                                                             *)

PageRecords == [share : Slugs, path : Folders, page : Nat \ {0}]
CallRecords ==
    [kind : RequestKinds, id : Nat, share : Slugs, path : Folders \cup Files,
     page : Nat, since : Nat]

(* Types, and that at most one further page is being read at a time.       *)
ViewTypeOK ==
    /\ share \in Slugs \cup {Null}
    /\ {initialPath, folder, requested} \subseteq Folders \cup {Null}
    /\ loads \in 0..MaxLoads
    /\ cursor \in Nat
    /\ pages \in Seq(PageRecords)
    /\ {loading, loadingMore, errored, textLoading, textFailed} \subseteq BOOLEAN
    /\ {switched, mixed, replaced} \subseteq BOOLEAN
    /\ preview \in Files \cup {Null}
    /\ text \in [share : Slugs, path : Files] \cup {Null}
    /\ requests \subseteq CallRecords
    /\ loadingMore = (Outstanding("more") # {})
    /\ Cardinality(Outstanding("more")) <= 1

ViewSettled == share # Null /\ ~loading /\ ~errored

(* However answers overtake each other, a view that is not loading shows   *)
(* the folder that the shell asked for last, and a refresh keeps it.  The  *)
(* share is the right one unless it was switched under an unchanged path,  *)
(* which makes the view ask for nothing.                                   *)
ShowsRequested ==
    ViewSettled =>
        /\ pages # <<>>
        /\ Head(pages).path = folder
        /\ folder = initialPath
        /\ ~switched => Head(pages).share = share

(* A listing is the pages of one folder from the first on, without a gap   *)
(* or a repetition, and the cursor is that of the next one.  The exception *)
(* is a page that outlived the listing it was to continue, or that comes   *)
(* from another share: it is appended all the same.                        *)
ListingWhole ==
    ViewSettled /\ ~mixed /\ ~switched =>
        /\ \A i \in DOMAIN pages :
              pages[i] = [Head(pages) EXCEPT !.page = i]
        /\ cursor = NextCursor(folder, Len(pages))

(* The text in the dialog is that of the entry and the share it names,     *)
(* whatever was opened and closed before, unless one of the two was        *)
(* replaced under an open dialog: then the text that comes last stays.     *)
PreviewShowsEntry ==
    /\ preview # Null /\ text # Null
    /\ ~textLoading /\ ~textFailed
    /\ ~replaced
    => text = [share |-> share, path |-> preview]

(* Reading a folder comes to an end, if the service reports the path it    *)
(* was asked for.  (If it reports another spelling the view asks again,    *)
(* and again: see Listed.)                                                 *)
LoadsEnd == loading /\ Canonical[initialPath] = initialPath ~> ~loading
=============================================================================
