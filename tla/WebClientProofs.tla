--------------------------- MODULE WebClientProofs ---------------------------
(***************************************************************************)
(* The web client, for any shares and folders, any history and any number  *)
(* of user actions, whatever the order in which the gateway serves the     *)
(* requests and the answers arrive.                                        *)
(*                                                                         *)
(* The argument for the shell (module WebApp).  The requests in flight are *)
(* counted by the spinners (Spinning), what they report was unlocked at    *)
(* some time (Held), and the one that answers the last navigation is for   *)
(* the route in the address bar (Followed).  So a page that disagrees with *)
(* the address bar is on its way to agree with it, or waits for the user   *)
(* (Explained).                                                            *)
(*                                                                         *)
(* The argument for the folder view (module FileBrowser).  Only the last   *)
(* request for a folder is for what is on show, and only while the view is *)
(* loading (Numbered).  So a view that has settled shows its folder        *)
(* (FirstShown), what may still be appended is the next page (Continued),  *)
(* and nothing is missing before it (Gapless).  The requests of the        *)
(* preview dialog are about its entry (Texted).                            *)
(***************************************************************************)
EXTENDS WebApp, FileBrowser, WellFoundedInduction, FiniteSetTheorems, FunctionTheorems,
        SequenceTheorems, TLAPS

(* Every non-empty set of natural numbers has a least element.             *)
LEMMA LeastNatural ==
    ASSUME NEW S \in SUBSET Nat, S # {}
    PROVE  Min(S) \in S
  <1>1. \E x \in S : \A y \in S : ~(<<y, x>> \in OpToRel(<, Nat))
    BY NatLessThanWellFounded, WFMin
  <1>2. \A x, y \in Nat : <<y, x>> \in OpToRel(<, Nat) <=> y < x
    BY DEF OpToRel
  <1>3. PICK m \in S : \A y \in S : ~(<<y, m>> \in OpToRel(<, Nat))
    BY <1>1
  <1>4. \A y \in S : m <= y
    <2> TAKE y \in S
    <2>1. m \in Nat /\ y \in Nat
      OBVIOUS
    <2>2. ~(y < m)
      BY <1>2, <1>3, <2>1
    <2> QED BY <2>1, <2>2
  <1> QED BY <1>4 DEF Min

-----------------------------------------------------------------------------
(* The requests in flight.                                                 *)

Calls(t) ==
    [kind : Kinds, id : Nat, slug : Shares \cup {None, Nameless},
     path : Paths, ticket : 0..t, boot : BOOLEAN,
     state : {"sent", "served", "failed"}, open : SUBSET Shares]

LEMMA CallsLater ==
    ASSUME NEW t \in Nat, NEW u \in Nat, t <= u
    PROVE  Calls(t) \subseteq Calls(u)
  <1>1. 0..t \subseteq 0..u
    OBVIOUS
  <1> QED BY <1>1 DEF Calls

(* There is always a number that no other request of the kind has.         *)
LEMMA NextIdType ==
    ASSUME NEW others, IsFiniteSet(others), \A c \in others : c.id \in Nat, NEW kind
    PROVE  NextId(others, kind) \in Nat
  <1> DEFINE Same == {d \in others : d.kind = kind}
             Ids == {c.id : c \in Same}
             Free == (0..Cardinality(others)) \ Ids
  <1>1. PICK n \in Nat : n = Cardinality(others)
    BY FS_CardinalityType
  <1>2. IsFiniteSet(Same) /\ Cardinality(Same) \in Nat /\ Cardinality(Same) <= n
    <2>1. Same \subseteq others
      OBVIOUS
    <2> HIDE DEF Same
    <2> QED BY <1>1, <2>1, FS_Subset, FS_CardinalityType
  <1>3. IsFiniteSet(Ids) /\ Cardinality(Ids) <= Cardinality(Same)
    <2> DEFINE f == [d \in Same |-> d.id]
    <2>1. f \in [Same -> Ids]
      OBVIOUS
    <2>2. \A i \in Ids : \E d \in Same : f[d] = i
      OBVIOUS
    <2> HIDE DEF f, Ids, Same
    <2>3. f \in Surjection(Same, Ids)
      BY <2>1, <2>2, Fun_IsSurj
    <2> QED BY <1>2, <2>3, FS_Surjection
  <1>4. Free # {}
    <2> SUFFICES ASSUME 0..n \subseteq Ids
                 PROVE  FALSE
      BY <1>1
    <2> HIDE DEF Ids, Same
    <2>1. 0 \in Int /\ n \in Int
      OBVIOUS
    <2>2. IsFiniteSet(0..n) /\ Cardinality(0..n) = IF 0 > n THEN 0 ELSE n - 0 + 1
      BY <2>1, FS_Interval
    <2>3. Cardinality(0..n) = n + 1
      BY <2>2
    <2>4. Cardinality(0..n) <= Cardinality(Ids) /\ Cardinality(Ids) \in Nat
      BY <1>3, FS_Subset, FS_CardinalityType
    <2> QED BY <1>2, <1>3, <2>3, <2>4
  <1>5. Free \in SUBSET Nat
    BY <1>1
  <1>6. NextId(others, kind) = Min(Free)
    BY DEF NextId
  <1> HIDE DEF Free
  <1> QED BY <1>4, <1>5, <1>6, LeastNatural

(* A request that was sent.                                                *)
Sent(n, kind, slug, p, t, boot) ==
    /\ n.kind = kind /\ n.slug = slug /\ n.path = p /\ n.ticket = t
    /\ n.boot = boot /\ n.state = "sent" /\ n.open = {}

LEMMA Sending ==
    ASSUME NEW t \in Nat, NEW others \in SUBSET Calls(t), IsFiniteSet(others),
           NEW kind \in Kinds, NEW slug \in Shares \cup {None, Nameless},
           NEW p \in Paths, NEW u \in Nat, NEW v \in 0..u, t <= u, NEW boot \in BOOLEAN,
           Send(others, kind, slug, p, v, boot)
    PROVE  \E n \in Calls(u) :
              /\ Sent(n, kind, slug, p, v, boot)
              /\ calls' = others \cup {n}
              /\ calls' \subseteq Calls(u)
              /\ IsFiniteSet(calls')
  <1>1. NextId(others, kind) \in Nat
    <2>1. \A c \in others : c.id \in Nat
      BY DEF Calls
    <2> QED BY <2>1, NextIdType
  <1>2. PICK n : n = [kind |-> kind, id |-> NextId(others, kind), slug |-> slug,
                      path |-> p, ticket |-> v, boot |-> boot, state |-> "sent",
                      open |-> {}]
    OBVIOUS
  <1>3. n \in Calls(u) /\ Sent(n, kind, slug, p, v, boot)
    BY <1>1, <1>2 DEF Calls, Sent
  <1>4. calls' = others \cup {n}
    BY <1>2 DEF Send
  <1>5. calls' \subseteq Calls(u)
    BY <1>3, <1>4, CallsLater
  <1>6. IsFiniteSet(others \cup {n})
    BY FS_AddElement
  <1> QED BY <1>3, <1>4, <1>5, <1>6

(* A request once it is served: the same, but for what will be heard.      *)
Heard(d, c, state, open) ==
    /\ d.kind = c.kind /\ d.id = c.id /\ d.slug = c.slug /\ d.path = c.path
    /\ d.ticket = c.ticket /\ d.boot = c.boot
    /\ d.state = state /\ d.open = open

LEMMA Serving ==
    ASSUME NEW t \in Nat, calls \subseteq Calls(t), IsFiniteSet(calls), NEW c \in calls,
           NEW state \in {"served", "failed"}, NEW open \in SUBSET Shares,
           Serves(c, state, open)
    PROVE  \E d \in Calls(t) :
              /\ Heard(d, c, state, open)
              /\ calls' = (calls \ {c}) \cup {d}
              /\ calls' \subseteq Calls(t)
              /\ IsFiniteSet(calls')
  <1>1. PICK d : d = [c EXCEPT !.state = state, !.open = open]
    OBVIOUS
  <1>2. c \in Calls(t)
    OBVIOUS
  <1>3. d = [kind |-> c.kind, id |-> c.id, slug |-> c.slug, path |-> c.path,
             ticket |-> c.ticket, boot |-> c.boot, state |-> state, open |-> open]
    BY <1>1, <1>2 DEF Calls
  <1>4. d \in Calls(t) /\ Heard(d, c, state, open)
    BY <1>2, <1>3 DEF Calls, Heard
  <1>5. calls' = (calls \ {c}) \cup {d}
    BY <1>1 DEF Serves
  <1>6. IsFiniteSet((calls \ {c}) \cup {d})
    BY FS_RemoveElement, FS_AddElement
  <1> QED BY <1>4, <1>5, <1>6

LEMMA Answering ==
    ASSUME IsFiniteSet(calls), NEW c
    PROVE  IsFiniteSet(calls \ {c})
  <1>1. calls \ {c} \subseteq calls
    OBVIOUS
  <1> QED BY <1>1, FS_Subset

-----------------------------------------------------------------------------
(* The browser's history.                                                  *)

TypedBrowser ==
    /\ history \in Seq(Routes)
    /\ Len(history) \in 1..MaxHistory
    /\ at \in 1..Len(history)

LEMMA RouteTypes ==
    ASSUME AppAssumption
    PROVE  /\ Home \in Routes
           /\ \A t \in Shares \cup {Nameless}, p \in Paths : RouteTo(t, p) \in Routes
           /\ \A r \in Routes : r.slug \in Shares \cup {None, Nameless} /\ r.path \in Paths
  BY DEF AppAssumption, Home, RouteTo, Routes

LEMMA LocationType ==
    ASSUME TypedBrowser
    PROVE  location \in Routes
  <1>1. history[at] \in Routes
    BY ElementOfSeq DEF TypedBrowser
  <1> QED BY <1>1 DEF location

LEMMA Pushed ==
    ASSUME AppAssumption, TypedBrowser, NEW r \in Routes, Push(r)
    PROVE  TypedBrowser' /\ location' = r
  <1>1. /\ Len(history) \in Nat /\ at \in Nat /\ 1 <= at /\ at <= Len(history)
        /\ MaxHistory \in Nat /\ Len(history) <= MaxHistory
    BY DEF TypedBrowser, AppAssumption
  <1>2. PICK q : q = SubSeq(history, 1, at)
    OBVIOUS
  <1>3. q \in Seq(Routes) /\ Len(q) = at
    <2>1. \A i \in 1..at : history[i] \in Routes
      <3>1. \A i \in 1..at : i \in 1..Len(history)
        BY <1>1
      <3> QED BY <3>1, ElementOfSeq DEF TypedBrowser
    <2>2. 1 \in Int /\ at \in Int
      BY <1>1
    <2>3. SubSeq(history, 1, at) \in Seq(Routes)
          /\ Len(SubSeq(history, 1, at)) = IF 1 <= at THEN at - 1 + 1 ELSE 0
      BY <2>1, <2>2, SubSeqProperties
    <2> QED BY <1>1, <1>2, <2>3
  <1>4. /\ Append(q, r) \in Seq(Routes)
        /\ Len(Append(q, r)) = at + 1
        /\ Append(q, r)[at + 1] = r
    BY <1>3, AppendProperties
  <1>5. history' = Append(q, r) /\ at' = at + 1 /\ at < MaxHistory
    BY <1>2 DEF Push
  <1>6. history'[at'] = r /\ Len(history') = at' /\ history' \in Seq(Routes)
    BY <1>4, <1>5
  <1>7. at' \in 1..MaxHistory
    BY <1>1, <1>5
  <1> QED BY <1>1, <1>5, <1>6, <1>7 DEF TypedBrowser, location

LEMMA Replaced ==
    ASSUME TypedBrowser, NEW r \in Routes, Replace(r)
    PROVE  TypedBrowser' /\ location' = r
  <1>1. PICK h : h = [history EXCEPT ![at] = r]
    OBVIOUS
  <1>2. /\ h \in Seq(Routes) /\ Len(h) = Len(history)
        /\ \A j \in 1..Len(history) : h[j] = IF j = at THEN r ELSE history[j]
    BY <1>1, ExceptSeq DEF TypedBrowser
  <1>3. h[at] = r
    BY <1>2 DEF TypedBrowser
  <1>4. history' = h /\ at' = at
    BY <1>1 DEF Replace
  <1> QED BY <1>2, <1>3, <1>4 DEF TypedBrowser, location

-----------------------------------------------------------------------------
(* Types.                                                                  *)

TypedPage ==
    /\ rows = None \/ rows \in SUBSET Shares
    /\ active \in Shares \cup {None, Nameless}
    /\ path \in Paths
    /\ target \in Shares \cup {None}
    /\ pending \in [path : Paths, push : BOOLEAN]
    /\ events \in 0..MaxEvents

TypedCrossed ==
    crossed \in [address : BOOLEAN, shares : SUBSET (Shares \cup {Nameless}), home : Nat]

TypedFlags ==
    /\ unlocking \in BOOLEAN
    /\ exitOpen \in BOOLEAN
    /\ leaving \in BOOLEAN
    /\ booting \in BOOLEAN
    /\ failed \in BOOLEAN
    /\ TypedCrossed

TypedCalls ==
    /\ ticket \in Nat
    /\ calls \subseteq Calls(ticket)
    /\ IsFiniteSet(calls)

TypedGateway == session \subseteq opened /\ opened \subseteq Shares

(* What each kind of request carries.                                      *)
Sort(c) ==
    /\ c.boot = TRUE => c.kind \in {"site", "home", "share"}
    /\ c.kind = "site" => c.boot = TRUE
    /\ c.kind = "share" => c.slug # None
    /\ c.kind = "unlock" => c.slug \in Shares
    /\ c.state = "served" => c.slug # Nameless

Sorts == \A c \in calls : Sort(c)

Typed ==
    /\ TypedBrowser
    /\ TypedPage
    /\ TypedFlags
    /\ TypedCalls
    /\ TypedGateway
    /\ Sorts

LEMMA CallType ==
    ASSUME NEW t, NEW c \in Calls(t)
    PROVE  /\ c.kind \in Kinds /\ c.id \in Nat
           /\ c.slug \in Shares \cup {None, Nameless}
           /\ c.path \in Paths /\ c.ticket \in 0..t /\ c.boot \in BOOLEAN
           /\ c.state \in {"sent", "served", "failed"} /\ c.open \in SUBSET Shares
  BY DEF Calls

LEMMA InitTyped == Init => Typed
  <1> SUFFICES ASSUME Init
               PROVE  Typed
    OBVIOUS
  <1> USE AppAssumption
  <1>1. TypedBrowser
    <2>1. PICK r \in {Home} \cup [slug : Shares, path : Paths] : history = <<r>>
      BY DEF Init
    <2>2. r \in Routes
      BY <2>1 DEF Routes
    <2>3. <<r>> \in Seq(Routes) /\ Len(<<r>>) = 1
      BY <2>2
    <2> QED BY <2>1, <2>3 DEF Init, TypedBrowser, AppAssumption
  <1>2. TypedPage
    <2>1. pending \in [path : Paths, push : BOOLEAN]
      BY DEF Init, AppAssumption
    <2> QED BY <2>1 DEF Init, TypedPage, AppAssumption
  <1>3. TypedFlags /\ TypedGateway
    BY DEF Init, TypedFlags, TypedCrossed, TypedGateway
  <1>4. PICK c : c = [kind |-> "site", id |-> 0, slug |-> None, path |-> Top,
                      ticket |-> 0, boot |-> TRUE, state |-> "sent", open |-> {}]
    OBVIOUS
  <1>5. calls = {c} /\ ticket = 0
    BY <1>4 DEF Init
  <1>6. c \in Calls(0)
    BY <1>4 DEF Calls, Kinds, AppAssumption
  <1>7. IsFiniteSet({c})
    BY FS_Singleton
  <1>8. Sort(c)
    BY <1>4 DEF Sort, AppAssumption
  <1> QED BY <1>1, <1>2, <1>3, <1>5, <1>6, <1>7, <1>8 DEF Typed, TypedCalls, Sorts

\* What a request is sent with.
Proper(kind, slug, p, boot) ==
    /\ kind \in Kinds /\ slug \in Shares \cup {None, Nameless}
    /\ p \in Paths /\ boot \in BOOLEAN
    /\ boot = TRUE => kind \in {"site", "home", "share"}
    /\ kind = "site" => boot = TRUE
    /\ kind = "share" => slug # None
    /\ kind = "unlock" => slug \in Shares

\* The number of the last navigation only grows.
Onward == ticket' \in Nat /\ ticket <= ticket'

(* A request of a sort, beside some of those in flight.                    *)
LEMMA SentTyped ==
    ASSUME TypedCalls, Sorts, Onward, NEW others, others \subseteq calls,
           NEW kind, NEW slug, NEW p, NEW v, NEW boot,
           Proper(kind, slug, p, boot), v \in 0..ticket',
           Send(others, kind, slug, p, v, boot)
    PROVE  TypedCalls' /\ Sorts'
  <1>0. /\ kind \in Kinds /\ slug \in Shares \cup {None, Nameless}
        /\ p \in Paths /\ boot \in BOOLEAN
        /\ boot = TRUE => kind \in {"site", "home", "share"}
        /\ kind = "site" => boot = TRUE
        /\ kind = "share" => slug # None
        /\ kind = "unlock" => slug \in Shares
        /\ ticket' \in Nat /\ ticket <= ticket'
    BY DEF Proper, Onward
  <1>1. PICK u : u = ticket'
    OBVIOUS
  <1>2. others \in SUBSET Calls(ticket) /\ IsFiniteSet(others) /\ u \in Nat /\ v \in 0..u
    BY <1>0, <1>1, FS_Subset DEF TypedCalls
  <1>3. PICK n \in Calls(u) :
            /\ Sent(n, kind, slug, p, v, boot)
            /\ calls' = others \cup {n}
            /\ calls' \subseteq Calls(u)
            /\ IsFiniteSet(calls')
    BY <1>0, <1>1, <1>2, Sending DEF TypedCalls
  <1>4. Sort(n)
    BY <1>0, <1>3 DEF Sort, Sent
  <1> QED BY <1>0, <1>1, <1>3, <1>4 DEF TypedCalls, Sorts, Sort, Calls

LEMMA FewerTyped ==
    ASSUME TypedCalls, Sorts, calls' \subseteq calls, ticket' \in Nat, ticket <= ticket'
    PROVE  TypedCalls' /\ Sorts'
  <1>1. PICK u, d : u = ticket' /\ d = calls'
    OBVIOUS
  <1>2. d \subseteq Calls(u) /\ IsFiniteSet(d)
    BY <1>1, CallsLater, FS_Subset DEF TypedCalls
  <1> QED BY <1>1, <1>2 DEF TypedCalls, Sorts, Sort, Calls

LEMMA SyncTyped ==
    ASSUME AppAssumption, Typed, NEW r \in Routes, NEW boot \in BOOLEAN,
           NEW others \in SUBSET calls, Sync(r, boot, others)
    PROVE  /\ TypedCalls' /\ Sorts'
           /\ active' \in Shares \cup {None, Nameless}
           /\ path' \in Paths
           /\ target' \in Shares \cup {None}
           /\ booting' \in BOOLEAN
  <1>1. /\ ticket' = ticket + 1 /\ ticket' \in Nat /\ ticket <= ticket'
        /\ ticket + 1 \in 0..ticket' /\ Top \in Paths
        /\ r.slug \in Shares \cup {None, Nameless} /\ r.path \in Paths
    BY RouteTypes DEF Sync, Typed, TypedCalls, AppAssumption
  <1>2. CASE r.slug = None
    <2>1. Send(others, "home", None, Top, ticket + 1, boot)
      BY <1>2 DEF Sync
    <2>2. TypedCalls' /\ Sorts'
      <3>1. TypedCalls /\ Sorts /\ Onward /\ ticket + 1 \in 0..ticket'
        BY <1>1 DEF Typed, Onward
      <3>2. Proper("home", None, Top, boot)
        BY <1>1 DEF Proper, Kinds, Lists
      <3> QED BY <2>1, <3>1, <3>2, SentTyped
    <2> QED BY <1>1, <1>2, <2>2 DEF Sync, Typed, TypedPage, TypedFlags
  <1>3. CASE r.slug # None /\ active = r.slug /\ active \in Shares
    <2>1. calls' = others
      BY <1>3 DEF Sync
    <2>2. TypedCalls' /\ Sorts'
      BY <1>1, <2>1, FewerTyped DEF Typed
    <2> QED BY <1>1, <1>3, <2>2 DEF Sync, Typed, TypedPage, TypedFlags
  <1>4. CASE r.slug # None /\ ~(active = r.slug /\ active \in Shares)
    <2>1. Send(others, "share", r.slug, r.path, ticket + 1, boot)
      BY <1>4 DEF Sync
    <2>2. TypedCalls' /\ Sorts'
      <3>1. TypedCalls /\ Sorts /\ Onward /\ ticket + 1 \in 0..ticket'
        BY <1>1 DEF Typed, Onward
      <3>2. Proper("share", r.slug, r.path, boot)
        BY <1>1, <1>4 DEF Proper, Kinds, Lists
      <3> QED BY <2>1, <3>1, <3>2, SentTyped
    <2> QED BY <1>1, <1>4, <2>2 DEF Sync, Typed, TypedPage, TypedFlags
  <1> QED BY <1>2, <1>3, <1>4

LEMMA ServeTyped ==
    ASSUME AppAssumption, Typed, NEW c \in calls, Serve(c)
    PROVE  Typed'
  <1>1. c \in Calls(ticket) /\ Sort(c)
    BY DEF Typed, TypedCalls, Sorts
  <1>2. UNCHANGED <<browser, rows, shown, dialogs, exit, screen, ticket, events, crossed>>
    BY DEF Serve
  <1>3. TypedBrowser' /\ TypedPage' /\ TypedFlags'
    BY <1>2
        DEF Typed, TypedBrowser, TypedPage, TypedFlags, TypedCrossed, browser, shown, dialogs,
                exit, screen
  <1>4. TypedGateway' /\ session \in SUBSET Shares
    <2>1. CASE UNCHANGED <<session, opened>>
      BY <2>1 DEF Typed, TypedGateway
    <2>2. CASE session' = Effect(c) /\ opened' = opened \cup session'
      <3>1. session' \subseteq Shares
        BY <1>1, <2>2 DEF Effect, Sort, Typed, TypedGateway
      <3> QED BY <2>2, <3>1 DEF Typed, TypedGateway
    <2> QED BY <2>1, <2>2 DEF Serve, Typed, TypedGateway
  <1>5. PICK state \in {"served", "failed"}, open \in SUBSET Shares :
            /\ Serves(c, state, open)
            /\ state = "served" => c.slug # Nameless
    <2>1. CASE Serves(c, "failed", {})
      BY <2>1
    <2>2. CASE c.slug # Nameless /\ \E state \in {"served", "failed"} : Serves(c, state, session)
      BY <1>4, <2>2
    <2> QED BY <2>1, <2>2 DEF Serve
  <1>6. PICK d \in Calls(ticket) :
            /\ Heard(d, c, state, open)
            /\ calls' = (calls \ {c}) \cup {d}
            /\ calls' \subseteq Calls(ticket)
            /\ IsFiniteSet(calls')
    BY <1>5, Serving DEF Typed, TypedCalls
  <1>7. Sort(d)
    BY <1>1, <1>5, <1>6 DEF Sort, Heard
  <1>8. Sorts'
    BY <1>6, <1>7 DEF Typed, Sorts, Sort
  <1>9. TypedCalls'
    BY <1>2, <1>6 DEF Typed, TypedCalls, Calls
  <1> QED BY <1>3, <1>4, <1>8, <1>9 DEF Typed

LEMMA KindTypes ==
    /\ "site" \in Kinds /\ "home" \in Kinds /\ "share" \in Kinds /\ "refresh" \in Kinds
    /\ "unlock" \in Kinds /\ "lock" \in Kinds /\ "logout" \in Kinds /\ "left" \in Kinds
  BY DEF Kinds, Lists

(* What each of the three steps that cross leaves of the history of it.    *)
LEMMA UnlockCrosses ==
    ASSUME Typed, NEW c \in calls, UnlockAnswer(c), Succeeded(c)
    PROVE  /\ TypedCrossed'
           /\ crossed'.address = FALSE =>
                 /\ crossed.address = FALSE
                 /\ target = c.slug
                 /\ pending.push = FALSE => location = RouteTo(target, pending.path)
           /\ crossed'.shares = crossed.shares \cup ({Unlocked} \ {c.slug})
           /\ crossed'.home = crossed.home
  <1>1. TypedCrossed /\ Unlocked \in Shares \cup {Nameless}
    BY DEF Typed, TypedFlags, TypedPage, Unlocked
  <1>2. PICK b \in BOOLEAN :
            b = (\/ crossed.address \/ target # c.slug
                 \/ ~pending.push /\ location # RouteTo(target, pending.path))
    OBVIOUS
  <1>3. PICK S \in SUBSET (Shares \cup {Nameless}) :
            S = crossed.shares \cup ({Unlocked} \ {c.slug})
    BY <1>1 DEF TypedCrossed
  <1>4. crossed' = [crossed EXCEPT !.address = b, !.shares = S]
    BY <1>2, <1>3 DEF UnlockAnswer
  <1>5. TypedCrossed' /\ crossed'.address = b /\ crossed'.shares = S
        /\ crossed'.home = crossed.home
    BY <1>1, <1>4 DEF TypedCrossed
  <1>6. b = FALSE =>
            /\ crossed.address = FALSE
            /\ target = c.slug
            /\ pending.push = FALSE => location = RouteTo(target, pending.path)
    BY <1>1, <1>2 DEF TypedCrossed
  <1> QED BY <1>3, <1>5, <1>6

LEMMA CancelCrosses ==
    ASSUME Typed, CancelPassword
    PROVE  /\ TypedCrossed'
           /\ crossed'.address = FALSE => crossed.address = FALSE /\ active = None
           /\ crossed'.shares = crossed.shares
           /\ crossed'.home = crossed.home
  <1>1. TypedCrossed
    BY DEF Typed, TypedFlags
  <1>2. PICK b \in BOOLEAN : b = (crossed.address \/ active # None)
    OBVIOUS
  <1>3. crossed' = [crossed EXCEPT !.address = b]
    BY <1>2 DEF CancelPassword
  <1>4. b = FALSE => crossed.address = FALSE /\ active = None
    BY <1>1, <1>2 DEF TypedCrossed
  <1> QED BY <1>1, <1>3, <1>4 DEF TypedCrossed

LEMMA LeftCrosses ==
    ASSUME Typed, NEW c \in calls, LeftAnswer(c)
    PROVE  /\ TypedCrossed'
           /\ crossed'.address = FALSE =>
                 /\ crossed.address = FALSE
                 /\ Succeeded(c) => c.ticket = ticket /\ active = None
                 /\ ~Succeeded(c) => location = Home
           /\ crossed'.shares = crossed.shares
           /\ crossed'.home = IF Succeeded(c) THEN ticket ELSE crossed.home
  <1>1. TypedCrossed /\ ticket \in Nat
    BY DEF Typed, TypedFlags, TypedCalls
  <1>2. CASE Succeeded(c)
    <2>1. PICK b \in BOOLEAN : b = (crossed.address \/ c.ticket # ticket \/ active # None)
      OBVIOUS
    <2>2. crossed' = [crossed EXCEPT !.address = b, !.home = ticket]
      BY <1>2, <2>1 DEF LeftAnswer
    <2>3. b = FALSE => crossed.address = FALSE /\ c.ticket = ticket /\ active = None
      BY <1>1, <2>1 DEF TypedCrossed
    <2> QED BY <1>1, <1>2, <2>2, <2>3 DEF TypedCrossed
  <1>3. CASE ~Succeeded(c)
    <2>1. PICK b \in BOOLEAN : b = (crossed.address \/ location # Home)
      OBVIOUS
    <2>2. crossed' = [crossed EXCEPT !.address = b]
      BY <1>3, <2>1 DEF LeftAnswer
    <2>3. b = FALSE => crossed.address = FALSE /\ location = Home
      BY <1>1, <2>1 DEF TypedCrossed
    <2> QED BY <1>1, <1>3, <2>2, <2>3 DEF TypedCrossed
  <1> QED BY <1>2, <1>3

(* What a step may leave alone.                                            *)
LEMMA KeptBrowser ==
    ASSUME TypedBrowser, UNCHANGED browser
    PROVE  TypedBrowser' /\ location' = location
  BY DEF TypedBrowser, browser, location

LEMMA KeptGateway ==
    ASSUME TypedGateway, UNCHANGED gateway
    PROVE  TypedGateway'
  BY DEF TypedGateway, gateway

LEMMA AnswerTyped ==
    ASSUME AppAssumption, Typed, NEW c \in calls, Answer(c)
    PROVE  Typed'
  <1> USE AppAssumption
  <1>1. TypedBrowser /\ TypedPage /\ TypedFlags /\ TypedCalls /\ TypedGateway /\ Sorts
    BY DEF Typed
  <1>2. c \in Calls(ticket) /\ Sort(c) /\ ticket \in Nat /\ Top \in Paths
    BY <1>1 DEF TypedCalls, Sorts, AppAssumption
  <1>3. calls \ {c} \in SUBSET calls
    OBVIOUS
  <1>4. CASE SiteAnswer(c)
    <2>1. TypedBrowser' /\ TypedGateway' /\ location \in Routes
      BY <1>1, <1>4, KeptBrowser, KeptGateway, LocationType DEF SiteAnswer
    <2>2. CASE Sync(location, TRUE, calls \ {c}) /\ UNCHANGED failed
      <3>1. /\ TypedCalls' /\ Sorts'
            /\ active' \in Shares \cup {None, Nameless}
            /\ path' \in Paths
            /\ target' \in Shares \cup {None}
            /\ booting' \in BOOLEAN
        BY <1>3, <2>1, <2>2, SyncTyped
      <3>2. TypedPage' /\ TypedFlags'
        BY <1>1, <1>4, <2>2, <3>1
            DEF SiteAnswer, Sync, TypedPage, TypedFlags, TypedCrossed, exit
      <3> QED BY <2>1, <3>1, <3>2 DEF Typed
    <2>3. CASE calls' = calls \ {c} /\ failed' = TRUE /\ booting' = FALSE
                  /\ UNCHANGED <<shown, dialogs, ticket>>
      <3>1. TypedCalls' /\ Sorts'
        BY <1>1, <1>2, <2>3, FewerTyped
      <3>2. TypedPage' /\ TypedFlags'
        BY <1>1, <1>4, <2>3
            DEF SiteAnswer, TypedPage, TypedFlags, TypedCrossed, exit, shown, dialogs
      <3> QED BY <2>1, <3>1, <3>2 DEF Typed
    <2> QED BY <1>4, <2>2, <2>3 DEF SiteAnswer
  <1>5. CASE HomeAnswer(c)
    <2>1. TypedBrowser' /\ TypedGateway'
      BY <1>1, <1>5, KeptBrowser, KeptGateway DEF HomeAnswer
    <2>2. TypedCalls' /\ Sorts'
      BY <1>1, <1>2, <1>5, FewerTyped DEF HomeAnswer
    <2>3. c.open \in SUBSET Shares
      BY <1>2, CallType
    <2>4. TypedPage' /\ TypedFlags'
      BY <1>1, <1>5, <2>3
          DEF HomeAnswer, TypedPage, TypedFlags, TypedCrossed, exit, shown, dialogs
    <2> QED BY <2>1, <2>2, <2>4 DEF Typed
  <1>6. CASE ShareAnswer(c)
    <2>1. TypedBrowser' /\ TypedGateway'
      BY <1>1, <1>6, KeptBrowser, KeptGateway DEF ShareAnswer
    <2>2. TypedCalls' /\ Sorts'
      BY <1>1, <1>2, <1>6, FewerTyped DEF ShareAnswer
    <2>3. c.slug \in Shares \cup {None, Nameless} /\ c.path \in Paths
      BY <1>2, CallType
    <2>4. Succeeded(c) => c.slug \in Shares
      BY <1>2, <1>6, <2>3 DEF Succeeded, Sort, ShareAnswer, Answered
    <2>5. TypedFlags'
      BY <1>1, <1>6 DEF ShareAnswer, TypedFlags, TypedCrossed, exit, dialogs
    <2>6. TypedPage'
      <3>1. CASE Succeeded(c) /\ Current(c) /\ Open(c)
        BY <1>1, <1>6, <2>3, <3>1 DEF ShareAnswer, TypedPage, dialogs
      <3>2. CASE Succeeded(c) /\ Current(c) /\ ~Open(c)
        <4>1. target' = c.slug /\ pending' = [path |-> c.path, push |-> FALSE]
              /\ UNCHANGED <<rows, shown, events>>
          BY <1>6, <3>2 DEF ShareAnswer
        <4> QED BY <1>1, <2>3, <2>4, <3>2, <4>1 DEF TypedPage, shown
      <3>3. CASE ~(Succeeded(c) /\ Current(c))
        BY <1>1, <1>6, <3>3 DEF ShareAnswer, TypedPage, shown, dialogs
      <3> QED BY <3>1, <3>2, <3>3
    <2> QED BY <2>1, <2>2, <2>5, <2>6 DEF Typed
  <1>7. CASE RefreshAnswer(c)
    <2>1. TypedBrowser' /\ TypedGateway'
      BY <1>1, <1>7, KeptBrowser, KeptGateway DEF RefreshAnswer
    <2>2. TypedCalls' /\ Sorts'
      BY <1>1, <1>2, <1>7, FewerTyped DEF RefreshAnswer
    <2>3. c.open \in SUBSET Shares
      BY <1>2, CallType
    <2>4. TypedPage' /\ TypedFlags'
      BY <1>1, <1>7, <2>3
          DEF RefreshAnswer, TypedPage, TypedFlags, TypedCrossed, exit, screen, shown, dialogs
    <2> QED BY <2>1, <2>2, <2>4 DEF Typed
  <1>8. CASE UnlockAnswer(c)
    <2>1. TypedGateway'
      BY <1>1, <1>8, KeptGateway DEF UnlockAnswer
    <2>2. Unlocked \in Shares \cup {Nameless} /\ pending.path \in Paths
      BY <1>1 DEF Unlocked, TypedPage
    <2>3. TypedBrowser'
      <3>1. RouteTo(Unlocked, pending.path) \in Routes
        BY <2>2, RouteTypes
      <3>2. Push(RouteTo(Unlocked, pending.path)) \/ UNCHANGED browser
        BY <1>8 DEF UnlockAnswer
      <3>3. PICK r \in Routes : r = RouteTo(Unlocked, pending.path)
        BY <3>1
      <3>4. CASE Push(r)
        BY <1>1, <3>4, Pushed
      <3>5. CASE UNCHANGED browser
        BY <1>1, <3>5, KeptBrowser
      <3> QED BY <3>2, <3>3, <3>4, <3>5
    <2>4. ticket' \in Nat /\ ticket <= ticket' /\ calls' \subseteq calls
      <3>1. calls' = calls \ {c} /\ (ticket' = ticket + 1 \/ ticket' = ticket)
        BY <1>8 DEF UnlockAnswer
      <3> QED BY <1>2, <3>1
    <2>5. TypedCalls' /\ Sorts'
      BY <1>1, <2>4, FewerTyped
    <2>6. TypedFlags'
      <3>1. TypedCrossed'
        <4>1. CASE Succeeded(c)
          BY <1>8, <4>1, UnlockCrosses
        <4>2. CASE ~Succeeded(c)
          BY <1>1, <1>8, <4>2 DEF UnlockAnswer, TypedFlags, TypedCrossed
        <4> QED BY <4>1, <4>2
      <3> QED BY <1>1, <1>8, <3>1 DEF UnlockAnswer, TypedFlags, exit, screen
    <2>7. TypedPage'
      <3>1. CASE Succeeded(c)
        <4>1. rows' = None \/ rows' \in SUBSET Shares
          BY <1>1, <1>8, <3>1 DEF UnlockAnswer, TypedPage
        <4>2. pending' \in [path : Paths, push : BOOLEAN]
          BY <1>1, <1>8, <3>1 DEF UnlockAnswer, TypedPage, Forgotten, AppAssumption
        <4> QED BY <1>1, <1>8, <2>2, <3>1, <4>1, <4>2 DEF UnlockAnswer, TypedPage
      <3>2. CASE ~Succeeded(c)
        BY <1>1, <1>8, <3>2 DEF UnlockAnswer, TypedPage, shown
      <3> QED BY <3>1, <3>2
    <2> QED BY <2>1, <2>3, <2>5, <2>6, <2>7 DEF Typed
  <1>9. CASE LockAnswer(c)
    <2>1. TypedGateway'
      BY <1>1, <1>9, KeptGateway DEF LockAnswer
    <2>2. TypedBrowser'
      BY <1>1, <1>9, RouteTypes, Replaced, KeptBrowser DEF LockAnswer
    <2>3. ticket' \in Nat /\ ticket <= ticket' /\ calls' \subseteq calls
      BY <1>2, <1>9 DEF LockAnswer
    <2>4. TypedCalls' /\ Sorts'
      BY <1>1, <2>3, FewerTyped
    <2>5. TypedFlags'
      BY <1>1, <1>9 DEF LockAnswer, TypedFlags, TypedCrossed, dialogs, exit, screen
    <2>6. TypedPage'
      <3>1. CASE Succeeded(c)
        BY <1>1, <1>2, <1>9, <3>1 DEF LockAnswer, TypedPage, dialogs
      <3>2. CASE ~Succeeded(c)
        BY <1>1, <1>9, <3>2 DEF LockAnswer, TypedPage, shown, dialogs
      <3> QED BY <3>1, <3>2
    <2> QED BY <2>1, <2>2, <2>4, <2>5, <2>6 DEF Typed
  <1>10. CASE LogoutAnswer(c)
    <2>1. TypedBrowser' /\ TypedGateway'
      BY <1>1, <1>10, KeptBrowser, KeptGateway DEF LogoutAnswer
    <2>2. TypedPage'
      BY <1>1, <1>2, <1>10 DEF LogoutAnswer, TypedPage, shown, dialogs
    <2>3. TypedFlags'
      BY <1>1, <1>10 DEF LogoutAnswer, TypedFlags, TypedCrossed, dialogs, screen
    <2>4. TypedCalls' /\ Sorts'
      <3>1. CASE Succeeded(c)
        <4>1. /\ ticket' = ticket + 1 /\ ticket' \in Nat /\ ticket <= ticket'
              /\ ticket + 1 \in 0..ticket'
          BY <1>2, <1>10, <3>1 DEF LogoutAnswer
        <4>2. Send(calls \ {c}, "left", None, Top, ticket + 1, FALSE)
          BY <1>10, <3>1 DEF LogoutAnswer
        <4>3. Onward
          BY <4>1 DEF Onward
        <4>4. Proper("left", None, Top, FALSE)
          BY <1>1, <1>2, <1>3, KindTypes DEF Proper
        <4>5. TypedCalls /\ Sorts /\ calls \ {c} \subseteq calls
          BY <1>1, <1>2 DEF Typed
        <4> QED BY <4>1, <4>2, <4>3, <4>4, <4>5, SentTyped
      <3>2. CASE ~Succeeded(c)
        <4>1. ticket' \in Nat /\ ticket <= ticket' /\ calls' \subseteq calls
          BY <1>2, <1>10, <3>2 DEF LogoutAnswer
        <4> QED BY <1>1, <4>1, FewerTyped
      <3> QED BY <3>1, <3>2
    <2> QED BY <2>1, <2>2, <2>3, <2>4 DEF Typed
  <1>11. CASE LeftAnswer(c)
    <2>1. TypedGateway'
      BY <1>1, <1>11, KeptGateway DEF LeftAnswer
    <2>2. TypedBrowser'
      BY <1>1, <1>11, RouteTypes, Replaced, KeptBrowser DEF LeftAnswer
    <2>3. TypedCalls' /\ Sorts'
      BY <1>1, <1>2, <1>11, FewerTyped DEF LeftAnswer
    <2>4. c.open \in SUBSET Shares
      BY <1>2, CallType
    <2>5. TypedPage'
      BY <1>1, <1>11, <2>4 DEF LeftAnswer, TypedPage, shown, dialogs
    <2>6. TypedFlags'
      <3>1. TypedCrossed'
        BY <1>11, LeftCrosses
      <3> QED BY <1>1, <1>11, <3>1 DEF LeftAnswer, TypedFlags, dialogs, screen
    <2> QED BY <2>1, <2>2, <2>3, <2>5, <2>6 DEF Typed
  <1> QED BY <1>4, <1>5, <1>6, <1>7, <1>8, <1>9, <1>10, <1>11 DEF Answer

(* A request without a slug that the user causes, and the count of what    *)
(* the user does.                                                          *)
LEMMA UserTypes ==
    ASSUME AppAssumption, Typed, User
    PROVE  /\ events' \in 0..MaxEvents
           /\ ticket \in Nat /\ ticket + 1 \in Nat /\ ticket <= ticket + 1
           /\ Top \in Paths
  <1>1. events \in 0..MaxEvents /\ ticket \in Nat
    BY DEF Typed, TypedPage, TypedCalls
  <1>2. MaxEvents \in Nat /\ Top \in Paths
    BY DEF AppAssumption
  <1>3. events < MaxEvents /\ events' = events + 1
    BY DEF User
  <1> QED BY <1>1, <1>2, <1>3

LEMMA SentByUser ==
    ASSUME AppAssumption, Typed, ticket' \in Nat, ticket <= ticket',
           NEW kind \in Kinds, NEW slug \in Shares \cup {None, Nameless},
           NEW boot \in BOOLEAN, Send(calls, kind, slug, Top, 0, boot),
           kind # "share", boot = TRUE <=> kind = "site",
           kind = "unlock" => slug \in Shares
    PROVE  TypedCalls' /\ Sorts'
  <1>1. TypedCalls /\ Sorts /\ Onward /\ 0 \in 0..ticket' /\ Top \in Paths
    BY DEF Typed, Onward, AppAssumption
  <1>2. Proper(kind, slug, Top, boot)
    BY <1>1 DEF Proper
  <1> QED BY <1>1, <1>2, SentTyped

LEMMA CallsKept ==
    ASSUME Typed, UNCHANGED calls, ticket' \in Nat, ticket <= ticket'
    PROVE  TypedCalls' /\ Sorts'
  BY FewerTyped DEF Typed

LEMMA DialogTyped ==
    ASSUME AppAssumption, Typed, SubmitPassword \/ CancelPassword
    PROVE  Typed'
  <1> USE AppAssumption
  <1>1. TypedBrowser /\ TypedPage /\ TypedFlags /\ TypedGateway
    BY DEF Typed
  <1>2. CASE SubmitPassword
    <2>1. /\ events' \in 0..MaxEvents /\ ticket' = ticket /\ ticket' \in Nat
          /\ ticket <= ticket'
      BY <1>2, UserTypes DEF SubmitPassword
    <2>2. target \in Shares
      BY <1>1, <1>2 DEF SubmitPassword, TypedPage
    <2>3. TypedCalls' /\ Sorts'
      <3>1. PICK s \in Shares : s = target
        BY <2>2
      <3>2. Send(calls, "unlock", s, Top, 0, FALSE)
        BY <1>2, <3>1 DEF SubmitPassword
      <3> QED BY <2>1, <3>2, KindTypes, SentByUser
    <2>4. TypedBrowser' /\ TypedGateway'
      BY <1>1, <1>2, KeptBrowser, KeptGateway DEF SubmitPassword
    <2>5. TypedPage'
      BY <1>1, <1>2, <2>1 DEF SubmitPassword, TypedPage, shown
    <2>6. TypedFlags'
      BY <1>1, <1>2 DEF SubmitPassword, TypedFlags, TypedCrossed, exit, screen
    <2> QED BY <2>3, <2>4, <2>5, <2>6 DEF Typed
  <1>3. CASE CancelPassword
    <2>1. /\ events' \in 0..MaxEvents /\ ticket' = ticket + 1 /\ ticket' \in Nat
          /\ ticket <= ticket' /\ Top \in Paths
      BY <1>3, UserTypes DEF CancelPassword
    <2>2. TypedCalls' /\ Sorts'
      <3>1. Send(calls, "refresh", None, Top, 0, FALSE)
        BY <1>3 DEF CancelPassword
      <3> QED BY <2>1, <3>1, KindTypes, SentByUser
    <2>3. TypedBrowser'
      <3>1. Replace(Home) \/ UNCHANGED browser
        BY <1>3 DEF CancelPassword
      <3> QED BY <1>1, <3>1, RouteTypes, Replaced, KeptBrowser
    <2>4. TypedGateway'
      BY <1>1, <1>3, KeptGateway DEF CancelPassword
    <2>5. TypedPage'
      <3>1. pending' \in [path : Paths, push : BOOLEAN]
        BY <1>1, <1>3, <2>1 DEF CancelPassword, Forgotten, TypedPage
      <3> QED BY <1>1, <1>3, <2>1, <3>1 DEF CancelPassword, TypedPage, shown
    <2>6. TypedFlags'
      <3>1. TypedCrossed'
        BY <1>3, CancelCrosses
      <3> QED BY <1>1, <1>3, <3>1 DEF CancelPassword, TypedFlags, exit, screen
    <2> QED BY <2>2, <2>3, <2>4, <2>5, <2>6 DEF Typed
  <1> QED BY <1>2, <1>3

LEMMA ExitTyped ==
    ASSUME AppAssumption, Typed, Lock \/ OpenExit \/ CancelExit \/ ConfirmExit
    PROVE  Typed'
  <1> USE AppAssumption
  <1>1. TypedBrowser /\ TypedPage /\ TypedFlags /\ TypedGateway
    BY DEF Typed
  <1>2. UNCHANGED <<browser, rows, shown, dialogs, screen, ticket, gateway, crossed>> /\ User
    BY DEF Lock, OpenExit, CancelExit, ConfirmExit
  <1>3. /\ events' \in 0..MaxEvents /\ ticket' = ticket /\ ticket' \in Nat
        /\ ticket <= ticket' /\ Top \in Paths
    BY <1>2, UserTypes
  <1>4. TypedBrowser' /\ TypedGateway'
    BY <1>1, <1>2, KeptBrowser, KeptGateway
  <1>5. TypedPage'
    BY <1>1, <1>2, <1>3 DEF TypedPage, shown, dialogs
  <1>6. TypedFlags'
    <2>1. exitOpen' \in BOOLEAN /\ leaving' \in BOOLEAN
      BY <1>1 DEF Lock, OpenExit, CancelExit, ConfirmExit, exit, TypedFlags
    <2> QED BY <1>1, <1>2, <2>1 DEF TypedFlags, TypedCrossed, dialogs, screen
  <1>7. TypedCalls' /\ Sorts'
    <2>1. CASE Lock
      <3>1. PICK s \in Shares \cup {None, Nameless} : s = active
        BY <1>1 DEF TypedPage
      <3>2. Send(calls, "lock", s, Top, 0, FALSE)
        BY <2>1, <3>1 DEF Lock
      <3> QED BY <1>3, <3>2, KindTypes, SentByUser
    <2>2. CASE OpenExit \/ CancelExit
      <3>1. UNCHANGED calls
        BY <2>2 DEF OpenExit, CancelExit
      <3> QED BY <1>3, <3>1, CallsKept
    <2>3. CASE ConfirmExit
      <3>1. Send(calls, "logout", None, Top, 0, FALSE)
        BY <2>3 DEF ConfirmExit
      <3> QED BY <1>3, <3>1, KindTypes, SentByUser
    <2> QED BY <2>1, <2>2, <2>3
  <1> QED BY <1>4, <1>5, <1>6, <1>7 DEF Typed

LEMMA NavigationTyped ==
    ASSUME AppAssumption, Typed,
           \/ \E s \in Shares : OpenRow(s)
           \/ GoHome
           \/ \E p \in Paths : Navigate(p)
    PROVE  Typed'
  <1> USE AppAssumption
  <1>1. TypedBrowser /\ TypedPage /\ TypedFlags /\ TypedGateway
    BY DEF Typed
  <1>2. UNCHANGED <<rows, exit, screen, gateway, crossed>> /\ User
    BY DEF OpenRow, GoHome, Navigate
  <1>3. events' \in 0..MaxEvents /\ ticket \in Nat /\ ticket + 1 \in Nat /\ Top \in Paths
    BY <1>2, UserTypes
  <1>4. UNCHANGED unlocking
    BY DEF OpenRow, GoHome, Navigate, dialogs
  <1>5. TypedFlags' /\ TypedGateway'
    BY <1>1, <1>2, <1>4, KeptGateway DEF TypedFlags, TypedCrossed, exit, screen
  <1>6. CASE \E s \in Shares : OpenRow(s)
    <2>1. PICK s \in Shares : OpenRow(s)
      BY <1>6
    <2>2. ticket' = ticket + 1 \/ ticket' = ticket
      BY <2>1 DEF OpenRow
    <2>3. UNCHANGED calls /\ ticket' \in Nat /\ ticket <= ticket'
      BY <1>3, <2>1, <2>2 DEF OpenRow
    <2>4. TypedCalls' /\ Sorts'
      BY <2>3, CallsKept
    <2>5. TypedBrowser'
      <3>1. PICK r \in Routes : r = RouteTo(s, Top)
        BY <1>3, RouteTypes
      <3>2. Push(r) \/ UNCHANGED browser
        BY <2>1, <3>1 DEF OpenRow
      <3> QED BY <1>1, <3>2, Pushed, KeptBrowser
    <2>6. TypedPage'
      <3>1. CASE s \in rows
        BY <1>1, <1>2, <1>3, <2>1, <3>1 DEF OpenRow, TypedPage, dialogs
      <3>2. CASE s \notin rows
        <4>1. target' = s /\ pending' = [path |-> Top, push |-> TRUE] /\ UNCHANGED shown
          BY <2>1, <3>2 DEF OpenRow
        <4> QED BY <1>1, <1>2, <1>3, <4>1 DEF TypedPage, shown
      <3> QED BY <3>1, <3>2
    <2> QED BY <1>5, <2>4, <2>5, <2>6 DEF Typed
  <1>7. CASE GoHome
    <2>1. ticket' = ticket + 1 /\ ticket' \in Nat /\ ticket <= ticket'
      BY <1>3, <1>7 DEF GoHome
    <2>2. TypedCalls' /\ Sorts'
      <3>1. Send(calls, "refresh", None, Top, 0, FALSE)
        BY <1>7 DEF GoHome
      <3> QED BY <2>1, <3>1, KindTypes, SentByUser
    <2>3. TypedBrowser'
      BY <1>1, <1>7, RouteTypes, Pushed DEF GoHome
    <2>4. TypedPage'
      BY <1>1, <1>2, <1>3, <1>7 DEF GoHome, TypedPage, dialogs
    <2> QED BY <1>5, <2>2, <2>3, <2>4 DEF Typed
  <1>8. CASE \E p \in Paths : Navigate(p)
    <2>1. PICK p \in Paths : Navigate(p)
      BY <1>8
    <2>2. UNCHANGED calls /\ ticket' \in Nat /\ ticket <= ticket'
      BY <1>3, <2>1 DEF Navigate
    <2>3. TypedCalls' /\ Sorts'
      BY <2>2, CallsKept
    <2>4. TypedBrowser'
      <3>1. active \in Shares \cup {Nameless}
        BY <1>1, <2>1 DEF Navigate, ViewShown, TypedPage
      <3>2. PICK r \in Routes : r = RouteTo(active, p)
        BY <3>1, RouteTypes
      <3>3. Push(r) \/ UNCHANGED browser
        BY <2>1, <3>2 DEF Navigate
      <3> QED BY <1>1, <3>3, Pushed, KeptBrowser
    <2>5. TypedPage'
      BY <1>1, <1>2, <1>3, <2>1 DEF Navigate, TypedPage, dialogs
    <2> QED BY <1>5, <2>3, <2>4, <2>5 DEF Typed
  <1> QED BY <1>6, <1>7, <1>8

LEMMA ArrivalTyped ==
    ASSUME AppAssumption, Typed, (\E i \in 1..MaxHistory : PopState(i)) \/ Reconnect
    PROVE  Typed'
  <1> USE AppAssumption
  <1>1. TypedBrowser /\ TypedPage /\ TypedFlags /\ TypedGateway
    BY DEF Typed
  <1>2. UNCHANGED <<rows, exit, gateway, crossed>> /\ User
    BY DEF PopState, Reconnect
  <1>3. events' \in 0..MaxEvents /\ ticket \in Nat /\ ticket + 1 \in Nat /\ Top \in Paths
    BY <1>2, UserTypes
  <1>4. TypedGateway'
    BY <1>1, <1>2, KeptGateway
  <1>5. CASE \E i \in 1..MaxHistory : PopState(i)
    <2>1. PICK i : PopState(i)
      BY <1>5
    <2>2. i \in 1..Len(history) /\ at' = i /\ history' = history
      BY <1>1, <2>1 DEF PopState, TypedBrowser
    <2>3. PICK r \in Routes : r = history[i]
      BY <1>1, <2>2, ElementOfSeq DEF TypedBrowser
    <2>4. Sync(r, FALSE, calls)
      BY <2>1, <2>3 DEF PopState
    <2>5. /\ TypedCalls' /\ Sorts'
          /\ active' \in Shares \cup {None, Nameless}
          /\ path' \in Paths
          /\ target' \in Shares \cup {None}
          /\ booting' \in BOOLEAN
      BY <2>4, SyncTyped
    <2>6. TypedBrowser'
      BY <1>1, <2>2 DEF TypedBrowser
    <2>7. TypedPage'
      BY <1>1, <1>2, <1>3, <2>4, <2>5 DEF TypedPage, Sync
    <2>8. TypedFlags'
      BY <1>1, <1>2, <2>1, <2>4, <2>5 DEF TypedFlags, TypedCrossed, Sync, PopState, exit
    <2> QED BY <1>4, <2>5, <2>6, <2>7, <2>8 DEF Typed
  <1>6. CASE Reconnect
    <2>1. ticket' \in Nat /\ ticket <= ticket'
      BY <1>3, <1>6 DEF Reconnect
    <2>2. TypedCalls' /\ Sorts'
      <3>1. Send(calls, "site", None, Top, 0, TRUE)
        BY <1>6 DEF Reconnect
      <3> QED BY <2>1, <3>1, KindTypes, SentByUser
    <2>3. TypedBrowser'
      BY <1>1, <1>6, KeptBrowser DEF Reconnect
    <2>4. TypedPage'
      BY <1>1, <1>2, <1>3, <1>6 DEF Reconnect, TypedPage, shown, dialogs
    <2>5. TypedFlags'
      BY <1>1, <1>2, <1>6 DEF Reconnect, TypedFlags, TypedCrossed, dialogs, exit
    <2> QED BY <1>4, <2>2, <2>3, <2>4, <2>5 DEF Typed
  <1> QED BY <1>5, <1>6

LEMMA IdleTyped ==
    ASSUME Typed, UNCHANGED vars
    PROVE  Typed'
  <1>1. UNCHANGED <<browser, rows, shown, dialogs, exit, screen, ticket, calls,
                    gateway, events, crossed>>
    BY DEF vars
  <1>2. TypedBrowser' /\ TypedGateway'
    BY <1>1, KeptBrowser, KeptGateway DEF Typed
  <1>3. TypedPage' /\ TypedFlags'
    BY <1>1 DEF Typed, TypedPage, TypedFlags, TypedCrossed, shown, dialogs, exit, screen
  <1>4. TypedCalls' /\ Sorts'
    BY <1>1, CallsKept DEF Typed, TypedCalls
  <1> QED BY <1>2, <1>3, <1>4 DEF Typed

LEMMA NextTyped ==
    ASSUME Typed, [Next]_vars
    PROVE  Typed'
  BY AppAssumption, ServeTyped, AnswerTyped, ArrivalTyped, NavigationTyped,
     DialogTyped, ExitTyped, IdleTyped DEF Next

LEMMA AlwaysTyped == Spec => []Typed
  BY InitTyped, NextTyped, PTL DEF Spec

\* The navigation whose address was taken home is one that was begun.
HomePast == crossed.home \in 0..ticket

LEMMA NextHomePast ==
    ASSUME Typed, HomePast, [Next]_vars
    PROVE  HomePast'
  <1> DEFINE Kept == crossed' = crossed /\ ticket' \in {ticket, ticket + 1}
  <1>1. ticket \in Nat /\ crossed.home \in 0..ticket
    BY DEF Typed, TypedCalls, HomePast
  <1>2. ASSUME Kept
        PROVE  HomePast'
    BY <1>1, <1>2 DEF HomePast
  <1>3. CASE Next
    <2>1. ASSUME NEW i \in 1..MaxHistory, PopState(i)
          PROVE  Kept
      BY <2>1 DEF PopState, Sync
    <2>2. ASSUME \/ Reconnect \/ GoHome \/ SubmitPassword \/ Lock
                 \/ OpenExit \/ CancelExit \/ ConfirmExit
                 \/ \E s \in Shares : OpenRow(s)
                 \/ \E p \in Paths : Navigate(p)
          PROVE  Kept
      BY <2>2 DEF Reconnect, GoHome, SubmitPassword, Lock, OpenExit, CancelExit,
                  ConfirmExit, OpenRow, Navigate
    <2>3. CASE CancelPassword
      <3>1. ticket' = ticket + 1 /\ crossed'.home = crossed.home
        BY <2>3, CancelCrosses DEF CancelPassword
      <3> QED BY <1>1, <3>1 DEF HomePast
    <2>4. ASSUME NEW c \in calls, Serve(c)
          PROVE  Kept
      BY <2>4 DEF Serve
    <2>5. ASSUME NEW c \in calls,
                 \/ SiteAnswer(c) \/ HomeAnswer(c) \/ ShareAnswer(c) \/ RefreshAnswer(c)
                 \/ LockAnswer(c) \/ LogoutAnswer(c)
                 \/ UnlockAnswer(c) /\ ~Succeeded(c)
          PROVE  Kept
      BY <2>5 DEF SiteAnswer, HomeAnswer, ShareAnswer, RefreshAnswer, LockAnswer,
                  LogoutAnswer, UnlockAnswer, Sync
    <2>6. ASSUME NEW c \in calls, UnlockAnswer(c), Succeeded(c)
          PROVE  HomePast'
      <3>1. ticket' \in {ticket, ticket + 1} /\ crossed'.home = crossed.home
        BY <2>6, UnlockCrosses DEF UnlockAnswer
      <3> QED BY <1>1, <3>1 DEF HomePast
    <2>7. ASSUME NEW c \in calls, LeftAnswer(c)
          PROVE  HomePast'
      <3>1. ticket' = ticket /\ crossed'.home \in {ticket, crossed.home}
        BY <2>7, LeftCrosses DEF LeftAnswer
      <3> QED BY <1>1, <3>1 DEF HomePast
    <2> QED BY <1>2, <1>3, <2>1, <2>2, <2>3, <2>4, <2>5, <2>6, <2>7 DEF Next, Answer
  <1>4. CASE UNCHANGED vars
    BY <1>2, <1>4 DEF vars
  <1> QED BY <1>3, <1>4

LEMMA AlwaysHomePast == Spec => [](Typed /\ HomePast)
  <1>1. Init => HomePast
    BY DEF Init, HomePast
  <1> QED BY <1>1, InitTyped, NextTyped, NextHomePast, PTL DEF Spec

(* TypeOK: the client's state, and that of the gateway, has the form the   *)
(* page expects: no route but those the code can build, no request of an   *)
(* unknown kind, and no ticket that was not handed out.                    *)
THEOREM TypeCorrect == Spec => []TypeOK
  <1>1. Typed /\ HomePast => TypeOK
    BY DEF Typed, TypedBrowser, TypedPage, TypedFlags, TypedCrossed, TypedCalls,
           TypedGateway, HomePast, Calls, TypeOK
  <1> QED BY <1>1, AlwaysHomePast, PTL

-----------------------------------------------------------------------------
(* Spinners and the requests they wait for.                                *)

Boots(C) == {c \in C : c.boot = TRUE}
Unlocks(C) == {c \in C : c.kind = "unlock"}
Leaves(C) == {c \in C : c.kind \in {"logout", "left"}}

\* The flag is up exactly while one of the requests is in flight.
Owed(flag, S) ==
    /\ flag = TRUE <=> S # {}
    /\ \A c, d \in S : c = d

Spinning ==
    /\ Owed(booting, Boots(calls))
    /\ Owed(unlocking, Unlocks(calls))
    /\ Owed(leaving, Leaves(calls))
    /\ leaving = TRUE => exitOpen = TRUE

LEMMA SendsOne ==
    ASSUME NEW others, NEW kind, NEW slug, NEW p, NEW t, NEW boot,
           Send(others, kind, slug, p, t, boot)
    PROVE  \E n : Sent(n, kind, slug, p, t, boot) /\ calls' = others \cup {n}
  <1>1. PICK n : n = [kind |-> kind, id |-> NextId(others, kind), slug |-> slug,
                      path |-> p, ticket |-> t, boot |-> boot, state |-> "sent",
                      open |-> {}]
    OBVIOUS
  <1>2. Sent(n, kind, slug, p, t, boot)
    BY <1>1 DEF Sent
  <1>3. calls' = others \cup {n}
    BY <1>1 DEF Send
  <1> QED BY <1>2, <1>3

(* What a spinner does when requests come and go.                          *)
LEMMA OwedBegun ==
    ASSUME NEW flag, NEW S, Owed(flag, S), flag # TRUE, NEW n
    PROVE  Owed(TRUE, S \cup {n})
  BY DEF Owed

LEMMA OwedEnded ==
    ASSUME NEW flag, NEW S, Owed(flag, S), NEW c \in S, NEW T, T = S \ {c}
    PROVE  Owed(FALSE, T)
  BY DEF Owed

LEMMA OwedPassed ==
    ASSUME NEW flag, NEW S, Owed(flag, S), NEW c \in S, NEW d, NEW T, T = (S \ {c}) \cup {d}
    PROVE  Owed(flag, T)
  BY DEF Owed

LEMMA SpinningAdded ==
    ASSUME NEW C, NEW n
    PROVE  /\ Boots(C \cup {n}) = IF n.boot = TRUE THEN Boots(C) \cup {n} ELSE Boots(C)
           /\ Unlocks(C \cup {n}) = IF n.kind = "unlock" THEN Unlocks(C) \cup {n}
                                                         ELSE Unlocks(C)
           /\ Leaves(C \cup {n}) = IF n.kind \in {"logout", "left"}
                                   THEN Leaves(C) \cup {n} ELSE Leaves(C)
  BY DEF Boots, Unlocks, Leaves

LEMMA SpinningRemoved ==
    ASSUME NEW C, NEW c \in C
    PROVE  /\ Boots(C \ {c}) = IF c.boot = TRUE THEN Boots(C) \ {c} ELSE Boots(C)
           /\ Unlocks(C \ {c}) = IF c.kind = "unlock" THEN Unlocks(C) \ {c} ELSE Unlocks(C)
           /\ Leaves(C \ {c}) = IF c.kind \in {"logout", "left"} THEN Leaves(C) \ {c}
                                                                 ELSE Leaves(C)
           /\ c.boot = TRUE => c \in Boots(C)
           /\ c.kind = "unlock" => c \in Unlocks(C)
           /\ c.kind \in {"logout", "left"} => c \in Leaves(C)
  BY DEF Boots, Unlocks, Leaves

LEMMA SpinningPassed ==
    ASSUME NEW C, NEW c \in C, NEW d, d.boot = TRUE <=> c.boot = TRUE,
           d.kind = "unlock" <=> c.kind = "unlock",
           d.kind \in {"logout", "left"} <=> c.kind \in {"logout", "left"}
    PROVE  /\ \A flag : Owed(flag, Boots(C)) => Owed(flag, Boots((C \ {c}) \cup {d}))
           /\ \A flag : Owed(flag, Unlocks(C)) => Owed(flag, Unlocks((C \ {c}) \cup {d}))
           /\ \A flag : Owed(flag, Leaves(C)) => Owed(flag, Leaves((C \ {c}) \cup {d}))
  <1>1. Boots((C \ {c}) \cup {d}) = IF c.boot = TRUE THEN (Boots(C) \ {c}) \cup {d}
                                                     ELSE Boots(C)
    BY DEF Boots
  <1>2. Unlocks((C \ {c}) \cup {d}) = IF c.kind = "unlock" THEN (Unlocks(C) \ {c}) \cup {d}
                                                           ELSE Unlocks(C)
    BY DEF Unlocks
  <1>3. Leaves((C \ {c}) \cup {d}) = IF c.kind \in {"logout", "left"}
                                     THEN (Leaves(C) \ {c}) \cup {d} ELSE Leaves(C)
    BY DEF Leaves
  <1>4. /\ c.boot = TRUE => c \in Boots(C)
        /\ c.kind = "unlock" => c \in Unlocks(C)
        /\ c.kind \in {"logout", "left"} => c \in Leaves(C)
    BY SpinningRemoved
  <1>5. \A flag, S : c \in S /\ Owed(flag, S) => Owed(flag, (S \ {c}) \cup {d})
    BY OwedPassed
  <1>6. \A flag : Owed(flag, Boots(C)) => Owed(flag, Boots((C \ {c}) \cup {d}))
    <2>1. CASE c.boot = TRUE
      BY <1>1, <1>4, <1>5, <2>1
    <2>2. CASE c.boot # TRUE
      BY <1>1, <2>2
    <2> QED BY <2>1, <2>2
  <1>7. \A flag : Owed(flag, Unlocks(C)) => Owed(flag, Unlocks((C \ {c}) \cup {d}))
    <2>1. CASE c.kind = "unlock"
      BY <1>2, <1>4, <1>5, <2>1
    <2>2. CASE c.kind # "unlock"
      BY <1>2, <2>2
    <2> QED BY <2>1, <2>2
  <1>8. \A flag : Owed(flag, Leaves(C)) => Owed(flag, Leaves((C \ {c}) \cup {d}))
    <2>1. CASE c.kind \in {"logout", "left"}
      BY <1>3, <1>4, <1>5, <2>1
    <2>2. CASE c.kind \notin {"logout", "left"}
      BY <1>3, <2>2
    <2> QED BY <2>1, <2>2
  <1> QED BY <1>6, <1>7, <1>8

(* The invariant, spinner by spinner, of the state after a step.           *)
LEMMA SpinningNow ==
    ASSUME Owed(booting', Boots(calls')), Owed(unlocking', Unlocks(calls')),
           Owed(leaving', Leaves(calls')), leaving' = TRUE => exitOpen' = TRUE
    PROVE  Spinning'
  BY DEF Spinning, Owed, Boots, Unlocks, Leaves

LEMMA OwedIs ==
    ASSUME NEW flag, NEW now, NEW S, NEW T, Owed(flag, S), now = flag, T = S
    PROVE  Owed(now, T)
  BY DEF Owed

(* A step that sends, or has answered, what no spinner waits for.          *)
LEMMA SpinningKept ==
    ASSUME Spinning, UNCHANGED <<booting, unlocking, leaving>>,
           leaving = TRUE => exitOpen' = TRUE,
           Boots(calls') = Boots(calls), Unlocks(calls') = Unlocks(calls),
           Leaves(calls') = Leaves(calls)
    PROVE  Spinning'
  <1>1. (Boots(calls))' = Boots(calls') /\ (Unlocks(calls))' = Unlocks(calls')
        /\ (Leaves(calls))' = Leaves(calls')
    BY DEF Boots, Unlocks, Leaves
  <1> QED BY <1>1 DEF Spinning, Owed

LEMMA InitSpinning == Init => Spinning
  <1> SUFFICES ASSUME Init
               PROVE  Spinning
    OBVIOUS
  <1>1. PICK c : c = [kind |-> "site", id |-> 0, slug |-> None, path |-> Top,
                      ticket |-> 0, boot |-> TRUE, state |-> "sent", open |-> {}]
    OBVIOUS
  <1>2. calls = {c} /\ c.boot = TRUE /\ c.kind = "site"
    BY <1>1 DEF Init
  <1>3. Boots(calls) = {c} /\ Unlocks(calls) = {} /\ Leaves(calls) = {}
    BY <1>2 DEF Boots, Unlocks, Leaves
  <1>4. booting = TRUE /\ unlocking = FALSE /\ leaving = FALSE
    BY DEF Init
  <1> QED BY <1>3, <1>4 DEF Spinning, Owed

LEMMA ServeSpinning ==
    ASSUME Typed, Spinning, NEW c \in calls, Serve(c)
    PROVE  Spinning'
  <1>1. PICK d : /\ calls' = (calls \ {c}) \cup {d}
                 /\ d.boot = c.boot /\ d.kind = c.kind
    <2>1. \A state, open : Serves(c, state, open) =>
             \E d : calls' = (calls \ {c}) \cup {d} /\ d.boot = c.boot /\ d.kind = c.kind
      <3> TAKE state, open
      <3> HAVE Serves(c, state, open)
      <3>1. c \in Calls(ticket)
        BY DEF Typed, TypedCalls
      <3>2. PICK d : d = [c EXCEPT !.state = state, !.open = open]
        OBVIOUS
      <3>3. d.boot = c.boot /\ d.kind = c.kind
        BY <3>1, <3>2 DEF Calls
      <3> QED BY <3>2, <3>3 DEF Serves
    <2> QED BY <2>1 DEF Serve
  <1>2. UNCHANGED <<exit, screen, unlocking>>
    BY DEF Serve, dialogs
  <1>3. (d.boot = TRUE <=> c.boot = TRUE) /\ (d.kind = "unlock" <=> c.kind = "unlock")
        /\ (d.kind \in {"logout", "left"} <=> c.kind \in {"logout", "left"})
    BY <1>1
  <1>4. Owed(booting, Boots(calls')) /\ Owed(unlocking, Unlocks(calls'))
        /\ Owed(leaving, Leaves(calls'))
    BY <1>1, <1>3, SpinningPassed DEF Spinning
  <1> QED BY <1>2, <1>4 DEF Spinning, exit, screen, Owed, Boots, Unlocks, Leaves

(* The answer to a request that the loading screen may wait for.           *)
LEMMA LoadSpinning ==
    ASSUME Spinning, NEW c \in calls, c.boot \in BOOLEAN, booting \in BOOLEAN,
           c.kind \notin {"unlock", "logout", "left"},
           calls' = calls \ {c}, booting' = (booting /\ ~c.boot),
           UNCHANGED <<unlocking, exit>>
    PROVE  Spinning'
  <1>1. Unlocks(calls') = Unlocks(calls) /\ Leaves(calls') = Leaves(calls)
    BY DEF Unlocks, Leaves
  <1>2. CASE c.boot = TRUE
    <2>1. c \in Boots(calls) /\ Boots(calls') = Boots(calls) \ {c}
      BY <1>2 DEF Boots
    <2>2. booting' = FALSE
      BY <1>2
    <2>3. Owed(FALSE, Boots(calls'))
      BY <2>1, OwedEnded DEF Spinning
    <2>4. Owed(booting', Boots(calls'))
      BY <2>2, <2>3, OwedIs
    <2>5. Owed(unlocking', Unlocks(calls')) /\ Owed(leaving', Leaves(calls'))
      BY <1>1, OwedIs DEF Spinning, exit
    <2> QED BY <2>4, <2>5, SpinningNow DEF Spinning, exit
  <1>3. CASE c.boot = FALSE
    <2>1. Boots(calls') = Boots(calls)
      BY <1>3 DEF Boots
    <2>2. booting' = booting
      BY <1>3
    <2> QED BY <1>1, <2>1, <2>2, SpinningKept DEF Spinning, exit
  <1> QED BY <1>2, <1>3

LEMMA SyncSends ==
    ASSUME NEW r, NEW boot, NEW others, Sync(r, boot, others)
    PROVE  \/ calls' = others /\ booting' = (booting /\ ~boot)
           \/ /\ booting' = booting
              /\ \E kind \in {"home", "share"} : \E slug, p :
                    Send(others, kind, slug, p, ticket + 1, boot)
  <1>1. CASE r.slug = None
    <2>1. Send(others, "home", None, Top, ticket + 1, boot) /\ booting' = booting
      BY <1>1 DEF Sync
    <2> QED BY <2>1
  <1>2. CASE r.slug # None /\ active = r.slug /\ active \in Shares
    BY <1>2 DEF Sync
  <1>3. CASE r.slug # None /\ ~(active = r.slug /\ active \in Shares)
    <2>1. Send(others, "share", r.slug, r.path, ticket + 1, boot) /\ booting' = booting
      BY <1>3 DEF Sync
    <2> QED BY <2>1
  <1> QED BY <1>1, <1>2, <1>3

(* Following a route passes the loading screen on, or ends it.             *)
LEMMA SyncSpinning ==
    ASSUME Typed, Spinning, NEW r, UNCHANGED exit,
           \/ Sync(r, FALSE, calls)
           \/ \E c \in calls : c.kind = "site" /\ c.boot = TRUE /\ Sync(r, TRUE, calls \ {c})
    PROVE  Spinning'
  <1>1. UNCHANGED unlocking /\ booting \in BOOLEAN
    BY DEF Sync, Typed, TypedFlags
  <1>2. CASE Sync(r, FALSE, calls)
    <2>1. CASE calls' = calls /\ booting' = (booting /\ ~FALSE)
      BY <1>1, <2>1, SpinningKept DEF exit, Spinning
    <2>2. CASE /\ booting' = booting
               /\ \E kind \in {"home", "share"} : \E slug, p :
                     Send(calls, kind, slug, p, ticket + 1, FALSE)
      <3>k. PICK kind \in {"home", "share"} :
                    \E slug, p : Send(calls, kind, slug, p, ticket + 1, FALSE)
        BY <2>2
      <3>1. PICK slug, p : Send(calls, kind, slug, p, ticket + 1, FALSE)
        BY <3>k
      <3>2. PICK n : Sent(n, kind, slug, p, ticket + 1, FALSE) /\ calls' = calls \cup {n}
        BY <3>1, SendsOne
      <3>3. /\ Boots(calls') = Boots(calls) /\ Unlocks(calls') = Unlocks(calls)
            /\ Leaves(calls') = Leaves(calls)
        BY <3>2 DEF Sent, Boots, Unlocks, Leaves
      <3> QED BY <1>1, <2>2, <3>3, SpinningKept DEF exit, Spinning
    <2> QED BY <1>2, <2>1, <2>2, SyncSends
  <1>3. CASE \E c \in calls : c.kind = "site" /\ c.boot = TRUE /\ Sync(r, TRUE, calls \ {c})
    <2>1. PICK c \in calls : c.kind = "site" /\ c.boot = TRUE /\ Sync(r, TRUE, calls \ {c})
      BY <1>3
    <2>2. c \in Boots(calls)
      BY <2>1 DEF Boots
    <2>3. CASE calls' = calls \ {c} /\ booting' = (booting /\ ~TRUE)
      <3>1. booting' = (booting /\ ~c.boot)
        BY <2>1, <2>3
      <3> QED BY <1>1, <2>1, <2>3, <3>1, LoadSpinning
    <2>4. CASE /\ booting' = booting
               /\ \E kind \in {"home", "share"} : \E slug, p :
                     Send(calls \ {c}, kind, slug, p, ticket + 1, TRUE)
      <3>k. PICK kind \in {"home", "share"} :
                    \E slug, p : Send(calls \ {c}, kind, slug, p, ticket + 1, TRUE)
        BY <2>4
      <3>1. PICK slug, p : Send(calls \ {c}, kind, slug, p, ticket + 1, TRUE)
        BY <3>k
      <3>2. PICK n : Sent(n, kind, slug, p, ticket + 1, TRUE) /\ calls' = (calls \ {c}) \cup {n}
        BY <3>1, SendsOne
      <3>3. /\ Boots(calls') = (Boots(calls) \ {c}) \cup {n}
            /\ Unlocks(calls') = Unlocks(calls) /\ Leaves(calls') = Leaves(calls)
        BY <2>1, <3>2 DEF Sent, Boots, Unlocks, Leaves
      <3>4. Owed(booting, Boots(calls'))
        BY <2>2, <3>3, OwedPassed DEF Spinning
      <3>5. Owed(booting', Boots(calls'))
        BY <2>4, <3>4, OwedIs
      <3>6. Owed(unlocking', Unlocks(calls')) /\ Owed(leaving', Leaves(calls'))
        BY <1>1, <3>3, OwedIs DEF Spinning, exit
      <3> QED BY <3>5, <3>6, SpinningNow DEF Spinning, exit
    <2> QED BY <2>1, <2>3, <2>4, SyncSends
  <1> QED BY <1>2, <1>3

LEMMA AnswerSpinning ==
    ASSUME Typed, Spinning, NEW c \in calls, Answer(c)
    PROVE  Spinning'
  <1>1. c \in Calls(ticket) /\ Sort(c) /\ c.boot \in BOOLEAN /\ booting \in BOOLEAN
    BY CallType DEF Typed, TypedCalls, Sorts, TypedFlags
  <1>2. CASE SiteAnswer(c)
    <2>1. c.kind = "site" /\ c.boot = TRUE /\ UNCHANGED exit
      BY <1>1, <1>2 DEF SiteAnswer, Answered, Sort
    <2>2. CASE Sync(location, TRUE, calls \ {c})
      BY <2>1, <2>2, SyncSpinning
    <2>3. CASE calls' = calls \ {c} /\ booting' = FALSE /\ UNCHANGED dialogs
      <3>1. booting' = (booting /\ ~c.boot)
        BY <2>1, <2>3
      <3> QED BY <1>1, <2>1, <2>3, <3>1, LoadSpinning DEF dialogs
    <2> QED BY <1>2, <2>2, <2>3 DEF SiteAnswer
  <1>3. CASE HomeAnswer(c)
    <2>1. c.kind = "home" /\ calls' = calls \ {c} /\ booting' = (booting /\ ~c.boot)
          /\ UNCHANGED <<unlocking, exit>>
      BY <1>3 DEF HomeAnswer, Answered, dialogs
    <2> QED BY <1>1, <2>1, LoadSpinning
  <1>4. CASE ShareAnswer(c)
    <2>1. c.kind = "share" /\ calls' = calls \ {c} /\ booting' = (booting /\ ~c.boot)
          /\ UNCHANGED <<unlocking, exit>>
      BY <1>4 DEF ShareAnswer, Answered, dialogs
    <2> QED BY <1>1, <2>1, LoadSpinning
  <1>5. CASE RefreshAnswer(c) \/ LockAnswer(c)
    <2>1. c.kind \in {"refresh", "lock"} /\ calls' = calls \ {c}
          /\ UNCHANGED <<unlocking, exit, screen>>
      BY <1>5 DEF RefreshAnswer, LockAnswer, Answered, dialogs
    <2>2. c.boot # TRUE
      BY <1>1, <2>1 DEF Sort
    <2>3. /\ Boots(calls') = Boots(calls) /\ Unlocks(calls') = Unlocks(calls)
          /\ Leaves(calls') = Leaves(calls)
      BY <2>1, <2>2 DEF Boots, Unlocks, Leaves
    <2> QED BY <2>1, <2>3, SpinningKept DEF exit, screen, Spinning
  <1>6. CASE UnlockAnswer(c)
    <2>1. c.kind = "unlock" /\ calls' = calls \ {c} /\ unlocking' = FALSE
          /\ UNCHANGED <<exit, screen>>
      BY <1>6 DEF UnlockAnswer, Answered
    <2>2. c.boot # TRUE
      BY <1>1, <2>1 DEF Sort
    <2>3. /\ Boots(calls') = Boots(calls) /\ Leaves(calls') = Leaves(calls)
          /\ Unlocks(calls') = Unlocks(calls) \ {c} /\ c \in Unlocks(calls)
      BY <2>1, <2>2 DEF Boots, Unlocks, Leaves
    <2>4. Owed(FALSE, Unlocks(calls'))
      BY <2>3, OwedEnded DEF Spinning
    <2>5. Owed(unlocking', Unlocks(calls'))
      BY <2>1, <2>4, OwedIs
    <2>6. Owed(booting', Boots(calls')) /\ Owed(leaving', Leaves(calls'))
      BY <2>1, <2>3, OwedIs DEF Spinning, exit, screen
    <2> QED BY <2>1, <2>5, <2>6, SpinningNow DEF Spinning, exit
  <1>7. CASE LogoutAnswer(c)
    <2>1. c.kind = "logout" /\ UNCHANGED <<exitOpen, screen, unlocking>>
      BY <1>7 DEF LogoutAnswer, Answered, dialogs
    <2>2. c.boot # TRUE /\ c \in Leaves(calls)
      BY <1>1, <2>1 DEF Sort, Leaves
    <2>3. CASE Send(calls \ {c}, "left", None, Top, ticket + 1, FALSE) /\ UNCHANGED leaving
      <3>1. PICK n : Sent(n, "left", None, Top, ticket + 1, FALSE) /\ calls' = (calls \ {c}) \cup {n}
        BY <2>3, SendsOne
      <3>2. n.kind = "left" /\ n.boot # TRUE
        BY <3>1 DEF Sent
      <3>3. /\ Boots(calls') = Boots(calls) /\ Unlocks(calls') = Unlocks(calls)
            /\ Leaves(calls') = (Leaves(calls) \ {c}) \cup {n}
        BY <2>1, <2>2, <3>1, <3>2 DEF Boots, Unlocks, Leaves
      <3>4. Owed(leaving, Leaves(calls'))
        BY <2>2, <3>3, OwedPassed DEF Spinning
      <3>5. Owed(leaving', Leaves(calls'))
        BY <2>3, <3>4, OwedIs
      <3>6. Owed(booting', Boots(calls')) /\ Owed(unlocking', Unlocks(calls'))
        BY <2>1, <3>3, OwedIs DEF Spinning, screen
      <3> QED BY <2>1, <2>3, <3>5, <3>6, SpinningNow DEF Spinning
    <2>4. CASE calls' = calls \ {c} /\ leaving' = FALSE
      <3>1. /\ Boots(calls') = Boots(calls) /\ Unlocks(calls') = Unlocks(calls)
            /\ Leaves(calls') = Leaves(calls) \ {c}
        BY <2>1, <2>2, <2>4 DEF Boots, Unlocks, Leaves
      <3>2. Owed(FALSE, Leaves(calls'))
        BY <2>2, <3>1, OwedEnded DEF Spinning
      <3>3. Owed(leaving', Leaves(calls'))
        BY <2>4, <3>2, OwedIs
      <3>4. Owed(booting', Boots(calls')) /\ Owed(unlocking', Unlocks(calls'))
        BY <2>1, <3>1, OwedIs DEF Spinning, screen
      <3> QED BY <2>4, <3>3, <3>4, SpinningNow
    <2> QED BY <1>7, <2>3, <2>4 DEF LogoutAnswer
  <1>8. CASE LeftAnswer(c)
    <2>1. c.kind = "left" /\ calls' = calls \ {c} /\ leaving' = FALSE
          /\ UNCHANGED <<screen, unlocking>>
      BY <1>8 DEF LeftAnswer, Answered, dialogs
    <2>2. c.boot # TRUE /\ c \in Leaves(calls)
      BY <1>1, <2>1 DEF Sort, Leaves
    <2>3. /\ Boots(calls') = Boots(calls) /\ Unlocks(calls') = Unlocks(calls)
          /\ Leaves(calls') = Leaves(calls) \ {c}
      BY <2>1, <2>2 DEF Boots, Unlocks, Leaves
    <2>4. Owed(FALSE, Leaves(calls'))
      BY <2>2, <2>3, OwedEnded DEF Spinning
    <2>5. Owed(leaving', Leaves(calls'))
      BY <2>1, <2>4, OwedIs
    <2>6. Owed(booting', Boots(calls')) /\ Owed(unlocking', Unlocks(calls'))
      BY <2>1, <2>3, OwedIs DEF Spinning, screen
    <2> QED BY <2>1, <2>5, <2>6, SpinningNow
  <1> QED BY <1>2, <1>3, <1>4, <1>5, <1>6, <1>7, <1>8 DEF Answer

(* A request of the user's that no spinner waits for.                      *)
LEMMA QuietSpinning ==
    ASSUME Spinning, UNCHANGED <<booting, unlocking, leaving, exitOpen>>,
           NEW kind \in {"refresh", "lock"}, NEW slug, Send(calls, kind, slug, Top, 0, FALSE)
    PROVE  Spinning'
  <1>1. PICK n : Sent(n, kind, slug, Top, 0, FALSE) /\ calls' = calls \cup {n}
    BY SendsOne
  <1>2. /\ Boots(calls') = Boots(calls) /\ Unlocks(calls') = Unlocks(calls)
        /\ Leaves(calls') = Leaves(calls)
    BY <1>1 DEF Sent, Boots, Unlocks, Leaves
  <1> QED BY <1>2, SpinningKept DEF Spinning

LEMMA UserSpinning ==
    ASSUME Typed, Spinning,
           \/ \E i \in 1..MaxHistory : PopState(i)
           \/ Reconnect
           \/ \E s \in Shares : OpenRow(s)
           \/ GoHome
           \/ \E p \in Paths : Navigate(p)
           \/ SubmitPassword \/ CancelPassword
           \/ Lock
           \/ OpenExit \/ CancelExit \/ ConfirmExit
    PROVE  Spinning'
  <1>1. CASE \E i \in 1..MaxHistory : PopState(i)
    <2>1. PICK i \in 1..MaxHistory : PopState(i)
      BY <1>1
    <2>2. PICK r : r = history[i]
      OBVIOUS
    <2>3. Sync(r, FALSE, calls) /\ UNCHANGED exit
      BY <2>1, <2>2 DEF PopState
    <2> QED BY <2>3, SyncSpinning
  <1>2. CASE Reconnect
    <2>1. /\ booting # TRUE /\ booting' = TRUE /\ UNCHANGED <<exit, unlocking>>
          /\ Send(calls, "site", None, Top, 0, TRUE)
      BY <1>2 DEF Reconnect, dialogs
    <2>2. PICK n : Sent(n, "site", None, Top, 0, TRUE) /\ calls' = calls \cup {n}
      BY <2>1, SendsOne
    <2>3. /\ Boots(calls') = Boots(calls) \cup {n} /\ Unlocks(calls') = Unlocks(calls)
          /\ Leaves(calls') = Leaves(calls)
      BY <2>2 DEF Sent, Boots, Unlocks, Leaves
    <2>4. Owed(TRUE, Boots(calls) \cup {n})
      BY <2>1, OwedBegun DEF Spinning
    <2>5. Owed(booting', Boots(calls'))
      BY <2>1, <2>3, <2>4, OwedIs
    <2>6. Owed(unlocking', Unlocks(calls')) /\ Owed(leaving', Leaves(calls'))
      BY <2>1, <2>3, OwedIs DEF Spinning, exit
    <2> QED BY <2>1, <2>5, <2>6, SpinningNow DEF Spinning, exit
  <1>3. CASE (\E s \in Shares : OpenRow(s)) \/ \E p \in Paths : Navigate(p)
    <2>1. UNCHANGED <<exit, screen, calls, unlocking>>
      BY <1>3 DEF OpenRow, Navigate, dialogs
    <2> QED BY <2>1, SpinningKept DEF Spinning, exit, screen
  <1>4. CASE GoHome \/ CancelPassword
    <2>1. /\ UNCHANGED <<exit, screen, unlocking>>
          /\ Send(calls, "refresh", None, Top, 0, FALSE)
      BY <1>4 DEF GoHome, CancelPassword, dialogs
    <2> QED BY <2>1, QuietSpinning DEF exit, screen
  <1>5. CASE SubmitPassword
    <2>1. /\ unlocking # TRUE /\ unlocking' = TRUE /\ UNCHANGED <<exit, screen>>
          /\ Send(calls, "unlock", target, Top, 0, FALSE)
      BY <1>5 DEF SubmitPassword
    <2>2. PICK n : Sent(n, "unlock", target, Top, 0, FALSE) /\ calls' = calls \cup {n}
      BY <2>1, SendsOne
    <2>3. /\ Boots(calls') = Boots(calls) /\ Leaves(calls') = Leaves(calls)
          /\ Unlocks(calls') = Unlocks(calls) \cup {n}
      BY <2>2 DEF Sent, Boots, Unlocks, Leaves
    <2>4. Owed(TRUE, Unlocks(calls) \cup {n})
      BY <2>1, OwedBegun DEF Spinning
    <2>5. Owed(unlocking', Unlocks(calls'))
      BY <2>1, <2>3, <2>4, OwedIs
    <2>6. Owed(booting', Boots(calls')) /\ Owed(leaving', Leaves(calls'))
      BY <2>1, <2>3, OwedIs DEF Spinning, exit, screen
    <2> QED BY <2>1, <2>5, <2>6, SpinningNow DEF Spinning, exit
  <1>6. CASE Lock
    <2>1. UNCHANGED <<exit, screen, unlocking>> /\ Send(calls, "lock", active, Top, 0, FALSE)
      BY <1>6 DEF Lock, dialogs
    <2> QED BY <2>1, QuietSpinning DEF exit, screen
  <1>7. CASE OpenExit \/ CancelExit
    <2>1. UNCHANGED <<screen, calls, unlocking, leaving>>
      BY <1>7 DEF OpenExit, CancelExit, dialogs
    <2>2. leaving = TRUE => exitOpen' = TRUE
      BY <1>7 DEF OpenExit, CancelExit
    <2> QED BY <2>1, <2>2, SpinningKept DEF screen
  <1>8. CASE ConfirmExit
    <2>1. /\ leaving # TRUE /\ leaving' = TRUE /\ exitOpen' = TRUE
          /\ UNCHANGED <<screen, unlocking>>
          /\ Send(calls, "logout", None, Top, 0, FALSE)
      BY <1>8 DEF ConfirmExit, dialogs, Typed, TypedFlags
    <2>2. PICK n : Sent(n, "logout", None, Top, 0, FALSE) /\ calls' = calls \cup {n}
      BY <2>1, SendsOne
    <2>3. /\ Boots(calls') = Boots(calls) /\ Unlocks(calls') = Unlocks(calls)
          /\ Leaves(calls') = Leaves(calls) \cup {n}
      BY <2>2 DEF Sent, Boots, Unlocks, Leaves
    <2>4. Owed(TRUE, Leaves(calls) \cup {n})
      BY <2>1, OwedBegun DEF Spinning
    <2>5. Owed(leaving', Leaves(calls'))
      BY <2>1, <2>3, <2>4, OwedIs
    <2>6. Owed(booting', Boots(calls')) /\ Owed(unlocking', Unlocks(calls'))
      BY <2>1, <2>3, OwedIs DEF Spinning, screen
    <2> QED BY <2>1, <2>5, <2>6, SpinningNow
  <1> QED BY <1>1, <1>2, <1>3, <1>4, <1>5, <1>6, <1>7, <1>8

LEMMA NextSpinning ==
    ASSUME Typed, Spinning, [Next]_vars
    PROVE  Spinning'
  <1>1. CASE UNCHANGED vars
    <2>1. UNCHANGED <<exit, screen, calls, unlocking>>
      BY <1>1 DEF vars, dialogs
    <2> QED BY <2>1, SpinningKept DEF Spinning, exit, screen
  <1> QED BY <1>1, ServeSpinning, AnswerSpinning, UserSpinning DEF Next

LEMMA AlwaysSpinning == Spec => [](Typed /\ Spinning)
  BY InitTyped, NextTyped, InitSpinning, NextSpinning, PTL DEF Spec

(* At most one element, so at most one by the library's Cardinality.       *)
LEMMA AtMostOne ==
    ASSUME NEW S, \A c, d \in S : c = d
    PROVE  Cardinality(S) <= 1
  <1>1. CASE S = {}
    BY <1>1, FS_EmptySet
  <1>2. CASE S # {}
    <2>1. PICK c \in S : TRUE
      BY <1>2
    <2>2. S = {c}
      BY <2>1
    <2>3. Cardinality({c}) = 1
      BY FS_Singleton
    <2>4. Cardinality(S) = 1
      BY <2>2, <2>3
    <2> QED BY <2>4
  <1> QED BY <1>1, <1>2

(* SpinnersOwed: the loading screen, the password dialog's spinner and the *)
(* exit dialog's each turn exactly as long as their one request is in      *)
(* flight, whichever answers overtake each other or fail.                  *)
THEOREM SpinnersAreOwed == Spec => []SpinnersOwed
  <1>1. ASSUME Typed, Spinning
        PROVE  SpinnersOwed
    <2> DEFINE Boot == {c \in calls : c.boot}
               InFlight(kinds) == {c \in calls : c.kind \in kinds}
    <2>1. Boot = Boots(calls)
      BY <1>1, CallType DEF Boots, Typed, TypedCalls
    <2>2. InFlight({"unlock"}) = Unlocks(calls)
      BY DEF Unlocks
    <2>3. InFlight({"logout", "left"}) = Leaves(calls)
      BY DEF Leaves
    <2>4. booting = (Boot # {})
      BY <1>1, <2>1 DEF Spinning, Owed, Typed, TypedFlags
    <2>5. unlocking = (InFlight({"unlock"}) # {})
      BY <1>1, <2>2 DEF Spinning, Owed, Typed, TypedFlags
    <2>6. leaving = (InFlight({"logout", "left"}) # {})
      BY <1>1, <2>3 DEF Spinning, Owed, Typed, TypedFlags
    <2>7. Cardinality(Boot) <= 1
      BY <1>1, <2>1, AtMostOne DEF Spinning, Owed
    <2>8. Cardinality(InFlight({"unlock"})) <= 1
      BY <1>1, <2>2, AtMostOne DEF Spinning, Owed
    <2>9. Cardinality(InFlight({"logout", "left"})) <= 1
      BY <1>1, <2>3, AtMostOne DEF Spinning, Owed
    <2> HIDE DEF Boot, InFlight
    <2>10. \A calling \in {Boot, InFlight({"unlock"}), InFlight({"logout", "left"})} :
              Cardinality(calling) <= 1
      BY <2>7, <2>8, <2>9
    <2> QED BY <2>4, <2>5, <2>6, <2>10 DEF SpinnersOwed, Boot, InFlight
  <1> QED BY <1>1, AlwaysSpinning, PTL

-----------------------------------------------------------------------------
(* What the page and the answers on their way know of the session.         *)

Known(c) ==
    /\ c.open \subseteq opened
    /\ c.kind = "unlock" /\ c.state = "served" => c.slug \in opened

HeldCalls == \A c \in calls : Known(c)

HeldPage ==
    /\ rows # None => rows \subseteq opened \cup crossed.shares
    /\ active # None => active \in opened \cup crossed.shares

Held == HeldCalls /\ HeldPage

LEMMA InitHeld == Init => Held
  <1> SUFFICES ASSUME Init
               PROVE  Held
    OBVIOUS
  <1>1. PICK c : c = [kind |-> "site", id |-> 0, slug |-> None, path |-> Top,
                      ticket |-> 0, boot |-> TRUE, state |-> "sent", open |-> {}]
    OBVIOUS
  <1>2. calls = {c} /\ c.open = {} /\ c.kind = "site"
    BY <1>1 DEF Init
  <1>3. HeldPage
    BY DEF Init, HeldPage
  <1> QED BY <1>2, <1>3 DEF Held, HeldCalls, Known

(* A request that is served learns what the session then holds.            *)
LEMMA ServeHeld ==
    ASSUME Typed, Held, NEW c \in calls, Serve(c)
    PROVE  Held'
  <1>1. c \in Calls(ticket) /\ session \subseteq opened /\ UNCHANGED <<rows, shown, crossed>>
    BY DEF Typed, TypedCalls, TypedGateway, Serve
  <1>2. opened \subseteq opened'
    BY DEF Serve
  <1>3. PICK state, open, d :
            /\ calls' = (calls \ {c}) \cup {d}
            /\ d.open = open /\ d.state = state /\ d.kind = c.kind /\ d.slug = c.slug
            /\ open \subseteq opened
            /\ state = "served" => session' = Effect(c) /\ session' \subseteq opened'
    <2>1. PICK state, open :
              /\ Serves(c, state, open)
              /\ open \subseteq opened
              /\ state = "served" => session' = Effect(c) /\ session' \subseteq opened'
      <3>1. CASE Serves(c, "failed", {})
        BY <3>1
      <3>2. CASE /\ \E state \in {"served", "failed"} : Serves(c, state, session)
                 /\ session' = Effect(c) /\ opened' = opened \cup session'
        BY <1>1, <3>2
      <3> QED BY <3>1, <3>2 DEF Serve
    <2>2. PICK d : d = [c EXCEPT !.state = state, !.open = open]
      OBVIOUS
    <2>3. d.open = open /\ d.state = state /\ d.kind = c.kind /\ d.slug = c.slug
      BY <1>1, <2>2 DEF Calls
    <2>4. calls' = (calls \ {c}) \cup {d}
      BY <2>1, <2>2 DEF Serves
    <2> QED BY <2>1, <2>3, <2>4
  <1>4. d.open \subseteq opened'
    BY <1>2, <1>3
  <1>5. d.kind = "unlock" /\ d.state = "served" => d.slug \in opened'
    BY <1>3 DEF Effect
  <1>6. \A e \in calls : e.open \subseteq opened'
                         /\ (e.kind = "unlock" /\ e.state = "served" => e.slug \in opened')
    BY <1>2 DEF Held, HeldCalls, Known
  <1>7. HeldCalls'
    BY <1>3, <1>4, <1>5, <1>6 DEF HeldCalls, Known
  <1>8. HeldPage'
    BY <1>1, <1>2 DEF Held, HeldPage, shown
  <1> QED BY <1>7, <1>8 DEF Held

(* Every other step sends at most requests that know nothing yet.          *)
Fresh(c) == c.state = "sent" /\ c.open = {}

Unserved ==
    /\ UNCHANGED gateway
    /\ \A d \in calls' : d \in calls \/ Fresh(d)

LEMMA SendUnserved ==
    ASSUME UNCHANGED gateway, NEW others \in SUBSET calls,
           NEW kind, NEW slug, NEW p, NEW t, NEW boot,
           Send(others, kind, slug, p, t, boot)
    PROVE  Unserved
  <1>1. PICK n : Sent(n, kind, slug, p, t, boot) /\ calls' = others \cup {n}
    BY SendsOne
  <1> QED BY <1>1 DEF Unserved, Fresh, Sent

LEMMA SyncUnserved ==
    ASSUME UNCHANGED gateway, NEW r, NEW boot, NEW others \in SUBSET calls,
           Sync(r, boot, others)
    PROVE  Unserved
  <1>1. CASE calls' = others
    BY <1>1 DEF Unserved
  <1>2. CASE \E kind \in {"home", "share"} : \E slug, p : Send(others, kind, slug, p, ticket + 1, boot)
    BY <1>2, SendUnserved
  <1> QED BY <1>1, <1>2, SyncSends

LEMMA UnservedHeld ==
    ASSUME Held, Unserved
    PROVE  HeldCalls' /\ opened' = opened
  BY DEF Held, HeldCalls, Known, Unserved, Fresh, gateway

(* A page that shows what it did, or less.                                 *)
LEMMA PageHeld ==
    ASSUME Held, Unserved, UNCHANGED rows, active' = active \/ active' = None,
           crossed'.shares = crossed.shares
    PROVE  Held'
  BY UnservedHeld DEF Held, HeldPage

LEMMA UserHeld ==
    ASSUME Typed, Held,
           \/ \E i \in 1..MaxHistory : PopState(i)
           \/ Reconnect
           \/ \E s \in Shares : OpenRow(s)
           \/ GoHome
           \/ \E p \in Paths : Navigate(p)
           \/ SubmitPassword \/ CancelPassword
           \/ Lock
           \/ OpenExit \/ CancelExit \/ ConfirmExit
    PROVE  Held'
  <1>1. CASE \E i \in 1..MaxHistory : PopState(i)
    <2>1. PICK i \in 1..MaxHistory : PopState(i)
      BY <1>1
    <2>2. PICK r : r = history[i]
      OBVIOUS
    <2>3. Sync(r, FALSE, calls) /\ UNCHANGED <<rows, gateway, crossed>>
      BY <2>1, <2>2 DEF PopState
    <2>4. active' = active \/ active' = None
      BY <2>3 DEF Sync
    <2>5. Unserved
      BY <2>3, SyncUnserved
    <2> QED BY <2>3, <2>4, <2>5, PageHeld
  <1>2. CASE \E s \in Shares : OpenRow(s)
    <2>1. PICK s \in Shares : OpenRow(s)
      BY <1>2
    <2>2. UNCHANGED <<rows, calls, gateway, crossed>> /\ rows # None
      BY <2>1 DEF OpenRow
    <2>3. Unserved
      BY <2>2 DEF Unserved
    <2>4. active' = active \/ (active' = s /\ s \in rows)
      BY <2>1 DEF OpenRow, shown
    <2> QED BY <2>2, <2>3, <2>4, UnservedHeld DEF Held, HeldPage
  <1>3. CASE (\E p \in Paths : Navigate(p)) \/ OpenExit \/ CancelExit
    <2>1. UNCHANGED <<rows, active, calls, gateway, crossed>>
      BY <1>3 DEF Navigate, OpenExit, CancelExit, shown
    <2>2. Unserved
      BY <2>1 DEF Unserved
    <2> QED BY <2>1, <2>2, PageHeld
  <1>4. CASE Reconnect \/ GoHome \/ SubmitPassword \/ CancelPassword \/ Lock \/ ConfirmExit
    <2>1. UNCHANGED <<rows, gateway>> /\ (active' = active \/ active' = None)
      BY <1>4 DEF Reconnect, GoHome, SubmitPassword, CancelPassword, Lock, ConfirmExit, shown
    <2>2. crossed'.shares = crossed.shares
      BY <1>4, CancelCrosses DEF Reconnect, GoHome, SubmitPassword, Lock, ConfirmExit
    <2>3. \E kind, slug, t, boot : Send(calls, kind, slug, Top, t, boot)
      BY <1>4 DEF Reconnect, GoHome, SubmitPassword, CancelPassword, Lock, ConfirmExit
    <2>4. Unserved
      BY <2>1, <2>3, SendUnserved
    <2> QED BY <2>1, <2>2, <2>4, PageHeld
  <1> QED BY <1>1, <1>2, <1>3, <1>4

(* An answer tells the page what the session held when it was served.      *)
LEMMA AnswerHeld ==
    ASSUME Typed, Held, NEW c \in calls, Answer(c)
    PROVE  Held'
  <1>1. c \in Calls(ticket) /\ Sort(c) /\ Known(c) /\ calls \ {c} \in SUBSET calls
    BY DEF Typed, TypedCalls, Sorts, Held, HeldCalls
  <1>2. CASE SiteAnswer(c)
    <2>1. UNCHANGED <<rows, gateway, crossed>>
      BY <1>2 DEF SiteAnswer
    <2>2. CASE Sync(location, TRUE, calls \ {c})
      <3>1. PICK r : r = location
        OBVIOUS
      <3>2. Sync(r, TRUE, calls \ {c})
        BY <2>2, <3>1
      <3>3. active' = active \/ active' = None
        BY <3>2 DEF Sync
      <3>4. Unserved
        BY <1>1, <2>1, <3>2, SyncUnserved
      <3> QED BY <2>1, <3>3, <3>4, PageHeld
    <2>3. CASE calls' = calls \ {c} /\ UNCHANGED shown
      <3>1. Unserved
        BY <2>1, <2>3 DEF Unserved
      <3> QED BY <2>1, <2>3, <3>1, PageHeld DEF shown
    <2> QED BY <1>2, <2>2, <2>3 DEF SiteAnswer
  <1>3. CASE HomeAnswer(c) \/ RefreshAnswer(c)
    <2>1. UNCHANGED <<shown, gateway, crossed>> /\ calls' = calls \ {c}
          /\ (rows' = rows \/ rows' = c.open)
      BY <1>3 DEF HomeAnswer, RefreshAnswer
    <2>2. Unserved
      BY <2>1 DEF Unserved
    <2> QED BY <1>1, <2>1, <2>2, UnservedHeld DEF Held, HeldPage, Known, shown
  <1>4. CASE ShareAnswer(c)
    <2>1. UNCHANGED <<rows, gateway, crossed>> /\ calls' = calls \ {c}
      BY <1>4 DEF ShareAnswer
    <2>2. Unserved
      BY <2>1 DEF Unserved
    <2>3. active' = active \/ (active' = c.slug /\ c.slug \in c.open)
      BY <1>4 DEF ShareAnswer, Open, shown
    <2> QED BY <1>1, <2>1, <2>2, <2>3, UnservedHeld DEF Held, HeldPage, Known
  <1>5. CASE UnlockAnswer(c)
    <2>1. UNCHANGED gateway /\ calls' = calls \ {c} /\ c.kind = "unlock"
      BY <1>5 DEF UnlockAnswer, Answered
    <2>2. Unserved
      BY <2>1 DEF Unserved
    <2>3. CASE ~Succeeded(c)
      <3>1. UNCHANGED <<rows, shown, crossed>>
        BY <1>5, <2>3 DEF UnlockAnswer
      <3> QED BY <2>2, <3>1, PageHeld DEF shown
    <2>4. CASE Succeeded(c)
      <3>1. c.slug \in opened /\ c.slug \in Shares
        BY <1>1, <2>1, <2>4 DEF Known, Succeeded, Sort
      <3>2. crossed'.shares = crossed.shares \cup ({Unlocked} \ {c.slug})
        BY <1>5, <2>4, UnlockCrosses
      <3>3. /\ rows' = IF rows = None THEN None ELSE rows \cup ({Unlocked} \cap Shares)
            /\ active' = Unlocked
        BY <1>5, <2>4 DEF UnlockAnswer
      <3>4. HeldCalls' /\ opened' = opened
        BY <2>2, UnservedHeld
      <3>5. Unlocked \in opened' \cup crossed'.shares
        BY <3>1, <3>2, <3>4
      <3>6. opened \cup crossed.shares \subseteq opened' \cup crossed'.shares
        BY <3>2, <3>4
      <3>7. HeldPage'
        BY <3>3, <3>5, <3>6 DEF Held, HeldPage
      <3> QED BY <3>4, <3>7 DEF Held
    <2> QED BY <2>3, <2>4
  <1>6. CASE LockAnswer(c)
    <2>1. UNCHANGED <<gateway, crossed>> /\ calls' = calls \ {c}
      BY <1>6 DEF LockAnswer
    <2>2. Unserved
      BY <2>1 DEF Unserved
    <2>3. CASE ~Succeeded(c)
      <3>1. UNCHANGED <<rows, shown>>
        BY <1>6, <2>3 DEF LockAnswer
      <3> QED BY <2>1, <2>2, <3>1, PageHeld DEF shown
    <2>4. CASE Succeeded(c)
      <3>1. active' = None /\ rows' = IF rows = None THEN None ELSE rows \ {active}
        BY <1>6, <2>4 DEF LockAnswer
      <3> QED BY <2>1, <2>2, <3>1, UnservedHeld DEF Held, HeldPage
    <2> QED BY <2>3, <2>4
  <1>7. CASE LogoutAnswer(c)
    <2>1. UNCHANGED <<rows, gateway, crossed>> /\ (active' = active \/ active' = None)
      BY <1>7 DEF LogoutAnswer, shown
    <2>2. CASE calls' = calls \ {c}
      <3>1. Unserved
        BY <2>1, <2>2 DEF Unserved
      <3> QED BY <2>1, <3>1, PageHeld
    <2>3. CASE Send(calls \ {c}, "left", None, Top, ticket + 1, FALSE)
      <3>1. Unserved
        BY <1>1, <2>1, <2>3, SendUnserved
      <3> QED BY <2>1, <3>1, PageHeld
    <2> QED BY <1>7, <2>2, <2>3 DEF LogoutAnswer
  <1>8. CASE LeftAnswer(c)
    <2>1. UNCHANGED <<shown, gateway>> /\ calls' = calls \ {c}
          /\ (rows' = rows \/ rows' = c.open)
      BY <1>8 DEF LeftAnswer
    <2>2. crossed'.shares = crossed.shares
      BY <1>8, LeftCrosses
    <2>3. Unserved
      BY <2>1 DEF Unserved
    <2> QED BY <1>1, <2>1, <2>2, <2>3, UnservedHeld DEF Held, HeldPage, Known, shown
  <1> QED BY <1>2, <1>3, <1>4, <1>5, <1>6, <1>7, <1>8 DEF Answer

LEMMA NextHeld ==
    ASSUME Typed, Held, [Next]_vars
    PROVE  Held'
  <1>1. CASE UNCHANGED vars
    <2>1. UNCHANGED <<rows, shown, calls, gateway, crossed>>
      BY <1>1 DEF vars
    <2>2. Unserved
      BY <2>1 DEF Unserved
    <2> QED BY <2>1, <2>2, PageHeld DEF shown
  <1> QED BY <1>1, ServeHeld, AnswerHeld, UserHeld DEF Next

LEMMA AlwaysHeld == Spec => [](Typed /\ Held)
  BY InitTyped, NextTyped, InitHeld, NextHeld, PTL DEF Spec

(* ShownWasUnlocked: however answers are delayed, the page shows a share   *)
(* only if this browser's session has held it, or if the answer to an      *)
(* unlock of another share opened that very share, because the dialog had  *)
(* changed or was gone when the answer came.                               *)
THEOREM ShownIsUnlocked == Spec => []ShownWasUnlocked
  <1>1. Typed /\ Held => ShownWasUnlocked
    BY DEF Held, HeldPage, ShownWasUnlocked
  <1> QED BY <1>1, AlwaysHeld, PTL

-----------------------------------------------------------------------------
(* The answer that the last navigation waits for.                          *)

Followed ==
    /\ \A c, d \in calls :
          c.kind = "share" /\ d.kind = "left" => c.ticket # ticket \/ d.ticket # ticket
    /\ \A c \in calls : c.kind = "share" /\ c.ticket = ticket =>
          \/ RouteTo(c.slug, c.path) = location
          \/ crossed.address = TRUE /\ crossed.home = ticket

LEMMA InitFollowed == Init => Followed
  <1> SUFFICES ASSUME Init
               PROVE  Followed
    OBVIOUS
  <1>1. PICK c : c = [kind |-> "site", id |-> 0, slug |-> None, path |-> Top,
                      ticket |-> 0, boot |-> TRUE, state |-> "sent", open |-> {}]
    OBVIOUS
  <1>2. calls = {c} /\ c.kind = "site"
    BY <1>1 DEF Init
  <1> QED BY <1>2 DEF Followed

\* Whatever a step sends, it is not for the share or the list of a route.
Aside == \A d \in calls' : d \in calls \/ d.kind \notin {"share", "left"}

LEMMA SendAside ==
    ASSUME NEW others \in SUBSET calls, NEW kind, NEW slug, NEW p, NEW t, NEW boot,
           Send(others, kind, slug, p, t, boot), kind \notin {"share", "left"}
    PROVE  Aside
  <1>1. PICK n : Sent(n, kind, slug, p, t, boot) /\ calls' = others \cup {n}
    BY SendsOne
  <1> QED BY <1>1 DEF Aside, Sent

LEMMA FollowedKept ==
    ASSUME Followed, Aside, ticket' = ticket, location' = location,
           crossed.address = TRUE => crossed'.address = TRUE,
           crossed'.home = crossed.home
    PROVE  Followed'
  BY DEF Followed, Aside

(* A navigation leaves every earlier request behind.                       *)
LEMMA Behind ==
    ASSUME Typed, ticket' = ticket + 1, NEW c \in calls
    PROVE  c.ticket # ticket'
  <1>1. c \in Calls(ticket) /\ ticket \in Nat
    BY DEF Typed, TypedCalls
  <1>2. c.ticket \in 0..ticket
    BY <1>1, CallType
  <1> QED BY <1>1, <1>2

LEMMA FollowedMoved ==
    ASSUME Typed, Aside, ticket' = ticket + 1
    PROVE  Followed'
  BY Behind DEF Followed, Aside

(* What following a route sends is for that route.                         *)
LEMMA SyncAsks ==
    ASSUME NEW r \in Routes, NEW boot, NEW others, Sync(r, boot, others)
    PROVE  /\ ticket' = ticket + 1
           /\ \A d \in calls' :
                 \/ d \in others
                 \/ d.kind = "home"
                 \/ d.kind = "share" /\ d.slug = r.slug /\ d.path = r.path /\ r.slug # None
  <1>1. CASE r.slug = None
    <2>1. Send(others, "home", None, Top, ticket + 1, boot)
      BY <1>1 DEF Sync
    <2>2. PICK n : Sent(n, "home", None, Top, ticket + 1, boot) /\ calls' = others \cup {n}
      BY <2>1, SendsOne
    <2> QED BY <2>2 DEF Sync, Sent
  <1>2. CASE r.slug # None /\ active = r.slug /\ active \in Shares
    BY <1>2 DEF Sync
  <1>3. CASE r.slug # None /\ ~(active = r.slug /\ active \in Shares)
    <2>1. Send(others, "share", r.slug, r.path, ticket + 1, boot)
      BY <1>3 DEF Sync
    <2>2. PICK n : Sent(n, "share", r.slug, r.path, ticket + 1, boot)
                   /\ calls' = others \cup {n}
      BY <2>1, SendsOne
    <2> QED BY <1>3, <2>2 DEF Sync, Sent
  <1> QED BY <1>1, <1>2, <1>3

LEMMA RouteParts ==
    ASSUME AppAssumption, NEW r \in Routes
    PROVE  /\ r.slug = None => r = Home
           /\ r = RouteTo(r.slug, r.path)
  BY DEF AppAssumption, Routes, Home, RouteTo

LEMMA SyncFollowed ==
    ASSUME Typed, NEW r \in Routes, NEW boot, NEW others \in SUBSET calls,
           Sync(r, boot, others), location' = r
    PROVE  Followed'
  <1>1. r = RouteTo(r.slug, r.path)
    BY AppAssumption, RouteParts
  <1>2. \A d \in calls' : d \in calls \/ d.kind = "home"
           \/ (d.kind = "share" /\ d.slug = r.slug /\ d.path = r.path)
    BY SyncAsks
  <1>3. \A d \in calls' : d \in calls => d.ticket # ticket'
    BY SyncAsks, Behind
  <1>4. \A c, d \in calls' : c.kind = "share" /\ d.kind = "left"
                                => c.ticket # ticket' \/ d.ticket # ticket'
    BY <1>2, <1>3
  <1>5. \A c \in calls' : c.kind = "share" /\ c.ticket = ticket' =>
                              RouteTo(c.slug, c.path) = location'
    BY <1>1, <1>2, <1>3
  <1> QED BY <1>4, <1>5 DEF Followed

LEMMA ServeFollowed ==
    ASSUME Typed, Followed, NEW c \in calls, Serve(c)
    PROVE  Followed'
  <1>1. c \in Calls(ticket) /\ UNCHANGED <<browser, ticket, crossed>>
    BY DEF Typed, TypedCalls, Serve
  <1>2. PICK state, open : Serves(c, state, open)
    BY DEF Serve
  <1>3. PICK d : d = [c EXCEPT !.state = state, !.open = open]
    OBVIOUS
  <1>4. d.kind = c.kind /\ d.ticket = c.ticket /\ d.slug = c.slug /\ d.path = c.path
    BY <1>1, <1>3 DEF Calls
  <1>5. calls' = (calls \ {c}) \cup {d}
    BY <1>2, <1>3 DEF Serves
  <1>6. location' = location
    BY <1>1, KeptBrowser DEF Typed
  <1>7. \A a \in calls' : \E b \in calls : a.kind = b.kind /\ a.ticket = b.ticket
                             /\ a.slug = b.slug /\ a.path = b.path
    BY <1>4, <1>5
  <1> QED BY <1>1, <1>6, <1>7 DEF Followed

LEMMA UserFollowed ==
    ASSUME Typed, Followed,
           \/ \E i \in 1..MaxHistory : PopState(i)
           \/ Reconnect
           \/ \E s \in Shares : OpenRow(s)
           \/ GoHome
           \/ \E p \in Paths : Navigate(p)
           \/ SubmitPassword \/ CancelPassword
           \/ Lock
           \/ OpenExit \/ CancelExit \/ ConfirmExit
    PROVE  Followed'
  <1>1. CASE \E i \in 1..MaxHistory : PopState(i)
    <2>1. PICK i : PopState(i)
      BY <1>1
    <2>2. i \in 1..Len(history) /\ at' = i /\ history' = history
      BY <2>1 DEF PopState, Typed, TypedBrowser
    <2>3. PICK r \in Routes : r = history[i]
      BY <2>2, ElementOfSeq DEF Typed, TypedBrowser
    <2>4. Sync(r, FALSE, calls) /\ location' = r
      BY <2>1, <2>2, <2>3 DEF PopState, location
    <2> QED BY <2>4, SyncFollowed
  <1>2. CASE \E s \in Shares : OpenRow(s)
    <2>1. PICK s \in Shares : OpenRow(s)
      BY <1>2
    <2>2. UNCHANGED <<calls, crossed>>
      BY <2>1 DEF OpenRow
    <2>3. Aside
      BY <2>2 DEF Aside
    <2>4. CASE ticket' = ticket + 1
      BY <2>3, <2>4, FollowedMoved
    <2>5. CASE UNCHANGED <<browser, ticket>>
      BY <2>2, <2>3, <2>5, KeptBrowser, FollowedKept DEF Typed
    <2> QED BY <2>1, <2>4, <2>5 DEF OpenRow
  <1>3. CASE \E p \in Paths : Navigate(p)
    <2>1. UNCHANGED calls /\ ticket' = ticket + 1
      BY <1>3 DEF Navigate
    <2>2. Aside
      BY <2>1 DEF Aside
    <2> QED BY <2>1, <2>2, FollowedMoved
  <1>4. CASE GoHome \/ CancelPassword
    <2>1. ticket' = ticket + 1 /\ Send(calls, "refresh", None, Top, 0, FALSE)
      BY <1>4 DEF GoHome, CancelPassword
    <2>2. Aside
      <3>1. \E kind \in {"refresh"} : Send(calls, kind, None, Top, 0, FALSE)
        BY <2>1
      <3> QED BY <3>1, SendAside
    <2> QED BY <2>1, <2>2, FollowedMoved
  <1>5. CASE Reconnect \/ SubmitPassword \/ Lock \/ ConfirmExit
    <2>1. UNCHANGED <<browser, ticket, crossed>>
      BY <1>5 DEF Reconnect, SubmitPassword, Lock, ConfirmExit
    <2>2. \E kind \in {"site", "unlock", "lock", "logout"} : \E slug, boot :
              Send(calls, kind, slug, Top, 0, boot)
      BY <1>5 DEF Reconnect, SubmitPassword, Lock, ConfirmExit
    <2>3. Aside
      BY <2>2, SendAside
    <2> QED BY <2>1, <2>3, KeptBrowser, FollowedKept DEF Typed
  <1>6. CASE OpenExit \/ CancelExit
    <2>1. UNCHANGED <<browser, ticket, calls, crossed>>
      BY <1>6 DEF OpenExit, CancelExit
    <2>2. Aside
      BY <2>1 DEF Aside
    <2> QED BY <2>1, <2>2, KeptBrowser, FollowedKept DEF Typed
  <1> QED BY <1>1, <1>2, <1>3, <1>4, <1>5, <1>6

LEMMA AnswerFollowed ==
    ASSUME Typed, Followed, NEW c \in calls, Answer(c)
    PROVE  Followed'
  <1>1. calls \ {c} \in SUBSET calls
    OBVIOUS
  <1>2. CASE SiteAnswer(c)
    <2>1. UNCHANGED <<browser, crossed>> /\ location' = location
      BY <1>2, KeptBrowser DEF SiteAnswer, Typed
    <2>2. CASE Sync(location, TRUE, calls \ {c})
      <3>1. PICK r \in Routes : r = location
        BY LocationType DEF Typed
      <3>2. Sync(r, TRUE, calls \ {c}) /\ location' = r
        BY <2>1, <2>2, <3>1
      <3> QED BY <1>1, <3>2, SyncFollowed
    <2>3. CASE calls' = calls \ {c} /\ UNCHANGED ticket
      <3>1. Aside
        BY <2>3 DEF Aside
      <3> QED BY <2>1, <2>3, <3>1, FollowedKept
    <2> QED BY <1>2, <2>2, <2>3 DEF SiteAnswer
  <1>3. CASE HomeAnswer(c) \/ ShareAnswer(c) \/ RefreshAnswer(c)
    <2>1. calls' = calls \ {c} /\ UNCHANGED <<browser, ticket, crossed>>
      BY <1>3 DEF HomeAnswer, ShareAnswer, RefreshAnswer
    <2>2. Aside
      BY <2>1 DEF Aside
    <2> QED BY <2>1, <2>2, KeptBrowser, FollowedKept DEF Typed
  <1>4. CASE UnlockAnswer(c)
    <2>1. calls' = calls \ {c}
      BY <1>4 DEF UnlockAnswer
    <2>2. Aside
      BY <2>1 DEF Aside
    <2>3. (crossed.address = TRUE => crossed'.address = TRUE) /\ crossed'.home = crossed.home
      <3>1. CASE Succeeded(c)
        BY <1>4, <3>1, UnlockCrosses DEF TypedCrossed
      <3>2. CASE ~Succeeded(c)
        BY <1>4, <3>2 DEF UnlockAnswer
      <3> QED BY <3>1, <3>2
    <2>4. CASE ticket' = ticket + 1
      BY <2>2, <2>4, FollowedMoved
    <2>5. CASE UNCHANGED <<browser, ticket>>
      BY <2>2, <2>3, <2>5, KeptBrowser, FollowedKept DEF Typed
    <2> QED BY <1>4, <2>4, <2>5 DEF UnlockAnswer
  <1>5. CASE LockAnswer(c)
    <2>1. calls' = calls \ {c} /\ UNCHANGED crossed
      BY <1>5 DEF LockAnswer
    <2>2. Aside
      BY <2>1 DEF Aside
    <2>3. CASE ticket' = ticket + 1
      BY <2>2, <2>3, FollowedMoved
    <2>4. CASE UNCHANGED <<browser, ticket>>
      BY <2>1, <2>2, <2>4, KeptBrowser, FollowedKept DEF Typed
    <2> QED BY <1>5, <2>3, <2>4 DEF LockAnswer
  <1>6. CASE LogoutAnswer(c)
    <2>1. UNCHANGED <<browser, crossed>>
      BY <1>6 DEF LogoutAnswer
    <2>2. CASE ticket' = ticket + 1 /\ Send(calls \ {c}, "left", None, Top, ticket + 1, FALSE)
      <3>1. PICK n : /\ Sent(n, "left", None, Top, ticket + 1, FALSE)
                     /\ calls' = (calls \ {c}) \cup {n}
        BY <2>2, SendsOne
      <3>2. \A d \in calls' : d.kind = "share" => d.ticket # ticket'
        BY <2>2, <3>1, Behind DEF Sent
      <3> QED BY <3>2 DEF Followed
    <2>3. CASE calls' = calls \ {c} /\ UNCHANGED ticket
      <3>1. Aside
        BY <2>3 DEF Aside
      <3> QED BY <2>1, <2>3, <3>1, KeptBrowser, FollowedKept DEF Typed
    <2> QED BY <1>6, <2>2, <2>3 DEF LogoutAnswer
  <1>7. CASE LeftAnswer(c)
    <2>1. calls' = calls \ {c} /\ UNCHANGED ticket /\ c.kind = "left"
      BY <1>7 DEF LeftAnswer, Answered
    <2>2. Aside
      BY <2>1 DEF Aside
    <2>3. CASE ~Succeeded(c)
      <3>1. /\ UNCHANGED browser
            /\ crossed.address = TRUE => crossed'.address = TRUE
            /\ crossed'.home = crossed.home
        BY <1>7, <2>3, LeftCrosses DEF LeftAnswer, TypedCrossed
      <3> QED BY <2>1, <2>2, <3>1, KeptBrowser, FollowedKept DEF Typed
    <2>4. CASE Succeeded(c)
      <3>1. crossed'.home = ticket' /\ (crossed'.address = TRUE \/ c.ticket = ticket)
        BY <1>7, <2>1, <2>4, LeftCrosses DEF TypedCrossed
      <3>2. crossed'.address = TRUE \/ \A d \in calls' : d.kind = "share" => d.ticket # ticket'
        BY <2>1, <3>1 DEF Followed
      <3>3. \A a, d \in calls' : a.kind = "share" /\ d.kind = "left"
                                    => a.ticket # ticket' \/ d.ticket # ticket'
        BY <2>1 DEF Followed
      <3> QED BY <3>1, <3>2, <3>3 DEF Followed
    <2> QED BY <2>3, <2>4
  <1> QED BY <1>2, <1>3, <1>4, <1>5, <1>6, <1>7 DEF Answer

LEMMA NextFollowed ==
    ASSUME Typed, Followed, [Next]_vars
    PROVE  Followed'
  <1>1. CASE UNCHANGED vars
    <2>1. UNCHANGED <<browser, ticket, calls, crossed>>
      BY <1>1 DEF vars
    <2>2. Aside
      BY <2>1 DEF Aside
    <2> QED BY <2>1, <2>2, KeptBrowser, FollowedKept DEF Typed
  <1> QED BY <1>1, ServeFollowed, AnswerFollowed, UserFollowed DEF Next

-----------------------------------------------------------------------------
(* Why the page may disagree with the address bar.                         *)

Agrees == location = IF active = None THEN Home ELSE RouteTo(active, path)

Asks(kind) == \E c \in calls : c.kind = kind
AsksNow(kind) == \E c \in calls : c.kind = kind /\ c.ticket = ticket

\* The password dialog of the route in the address bar.
Locked == target # None /\ pending.push = FALSE /\ location = RouteTo(target, pending.path)

Explained ==
    crossed.address = FALSE =>
        \/ Agrees
        \/ failed = TRUE
        \/ Asks("site")
        \/ AsksNow("share")
        \/ Locked
        \/ active = None /\ AsksNow("left")

LEMMA InitExplained == Init => Explained
  <1> SUFFICES ASSUME Init
               PROVE  Explained
    OBVIOUS
  <1>1. PICK c : c = [kind |-> "site", id |-> 0, slug |-> None, path |-> Top,
                      ticket |-> 0, boot |-> TRUE, state |-> "sent", open |-> {}]
    OBVIOUS
  <1>2. c \in calls /\ c.kind = "site"
    BY <1>1 DEF Init
  <1> QED BY <1>2 DEF Explained, Asks

\* The step leaves in flight every request that explains something.
Waiting ==
    /\ ticket' = ticket
    /\ \A c \in calls : c.kind \in {"site", "share", "left"} =>
          \E d \in calls' : d.kind = c.kind /\ d.ticket = c.ticket

LEMMA WaitingKept ==
    ASSUME Waiting
    PROVE  /\ Asks("site") => Asks("site")'
           /\ AsksNow("share") => AsksNow("share")'
           /\ AsksNow("left") => AsksNow("left")'
  BY DEF Waiting, Asks, AsksNow

(* A step that changes nothing of what the user sees.                      *)
LEMMA ExplainedKept ==
    ASSUME Explained, Waiting, UNCHANGED <<browser, shown, target, pending>>,
           location' = location,
           failed = TRUE => failed' = TRUE,
           crossed'.address = FALSE => crossed.address = FALSE
    PROVE  Explained'
  <1>1. (Agrees => Agrees') /\ (Locked => Locked')
    BY DEF Agrees, Locked, Home, RouteTo, shown
  <1> QED BY <1>1, WaitingKept DEF Explained, shown

(* A route that is followed comes to agree, or is asked for.               *)
LEMMA SyncExplained ==
    ASSUME NEW r \in Routes, NEW boot, NEW others, Sync(r, boot, others), location' = r
    PROVE  Explained'
  <1>1. (r.slug = None => r = Home) /\ r = RouteTo(r.slug, r.path)
    BY AppAssumption, RouteParts
  <1>2. CASE r.slug = None
    <2>1. active' = None /\ location' = Home
      BY <1>1, <1>2 DEF Sync
    <2>2. Agrees'
      BY <2>1 DEF Agrees, Home, RouteTo
    <2> QED BY <2>2 DEF Explained
  <1>3. CASE r.slug # None /\ active = r.slug /\ active \in Shares
    <2>1. active' = r.slug /\ path' = r.path /\ active' # None
      BY <1>3 DEF Sync
    <2>2. location' = RouteTo(active', path')
      BY <1>1, <2>1
    <2>3. Agrees'
      BY <2>1, <2>2 DEF Agrees, Home, RouteTo
    <2> QED BY <2>3 DEF Explained
  <1>4. CASE r.slug # None /\ ~(active = r.slug /\ active \in Shares)
    <2>1. Send(others, "share", r.slug, r.path, ticket + 1, boot) /\ ticket' = ticket + 1
      BY <1>4 DEF Sync
    <2>2. PICK n : Sent(n, "share", r.slug, r.path, ticket + 1, boot)
                   /\ calls' = others \cup {n}
      BY <2>1, SendsOne
    <2>3. AsksNow("share")'
      BY <2>1, <2>2 DEF AsksNow, Sent
    <2> QED BY <2>3 DEF Explained
  <1> QED BY <1>2, <1>3, <1>4

LEMMA ServeExplained ==
    ASSUME Typed, Explained, NEW c \in calls, Serve(c)
    PROVE  Explained'
  <1>1. c \in Calls(ticket) /\ UNCHANGED <<browser, shown, dialogs, screen, ticket, crossed>>
    BY DEF Typed, TypedCalls, Serve
  <1>2. PICK state, open : Serves(c, state, open)
    BY DEF Serve
  <1>3. PICK d : d = [c EXCEPT !.state = state, !.open = open]
    OBVIOUS
  <1>4. d.kind = c.kind /\ d.ticket = c.ticket
    BY <1>1, <1>3 DEF Calls
  <1>5. calls' = (calls \ {c}) \cup {d}
    BY <1>2, <1>3 DEF Serves
  <1>6. Waiting
    BY <1>1, <1>4, <1>5 DEF Waiting
  <1>7. location' = location
    BY <1>1, KeptBrowser DEF Typed
  <1> QED BY <1>1, <1>6, <1>7, ExplainedKept DEF dialogs, screen

LEMMA UserExplained ==
    ASSUME Typed, Explained,
           \/ \E i \in 1..MaxHistory : PopState(i)
           \/ Reconnect
           \/ \E s \in Shares : OpenRow(s)
           \/ GoHome
           \/ \E p \in Paths : Navigate(p)
           \/ SubmitPassword \/ CancelPassword
           \/ Lock
           \/ OpenExit \/ CancelExit \/ ConfirmExit
    PROVE  Explained'
  <1> USE AppAssumption
  <1>1. CASE \E i \in 1..MaxHistory : PopState(i)
    <2>1. PICK i : PopState(i)
      BY <1>1
    <2>2. i \in 1..Len(history) /\ at' = i /\ history' = history
      BY <2>1 DEF PopState, Typed, TypedBrowser
    <2>3. PICK r \in Routes : r = history[i]
      BY <2>2, ElementOfSeq DEF Typed, TypedBrowser
    <2>4. Sync(r, FALSE, calls) /\ location' = r
      BY <2>1, <2>2, <2>3 DEF PopState, location
    <2> QED BY <2>4, SyncExplained
  <1>2. CASE Reconnect
    <2>1. Send(calls, "site", None, Top, 0, TRUE)
      BY <1>2 DEF Reconnect
    <2>2. PICK n : Sent(n, "site", None, Top, 0, TRUE) /\ calls' = calls \cup {n}
      BY <2>1, SendsOne
    <2>3. Asks("site")'
      BY <2>2 DEF Asks, Sent
    <2> QED BY <2>3 DEF Explained
  <1>3. CASE \E s \in Shares : OpenRow(s)
    <2>1. PICK s \in Shares : OpenRow(s)
      BY <1>3
    <2>2. CASE s \in rows
      <3>1. active' = s /\ path' = Top /\ Push(RouteTo(s, Top))
        BY <2>1, <2>2 DEF OpenRow
      <3>2. PICK r \in Routes : r = RouteTo(s, Top)
        BY RouteTypes DEF AppAssumption
      <3>3. Push(r)
        BY <3>1, <3>2
      <3>4. location' = r
        BY <3>3, Pushed DEF Typed
      <3>5. s # None
        BY DEF AppAssumption
      <3>6. Agrees'
        BY <3>1, <3>2, <3>4, <3>5 DEF Agrees, Home, RouteTo
      <3> QED BY <3>6 DEF Explained
    <2>3. CASE s \notin rows
      <3>1. target = None /\ UNCHANGED <<browser, shown, ticket, screen, calls, crossed>>
        BY <2>1, <2>3 DEF OpenRow, ListShown, Modal
      <3>2. location' = location
        BY <3>1, KeptBrowser DEF Typed
      <3>3. Waiting
        BY <3>1 DEF Waiting
      <3>4. (Agrees => Agrees') /\ ~Locked
        BY <3>1, <3>2 DEF Agrees, Locked, Home, RouteTo, shown
      <3> QED BY <3>1, <3>3, <3>4, WaitingKept DEF Explained, shown, screen
    <2> QED BY <2>2, <2>3
  <1>4. CASE GoHome
    <2>1. active' = None /\ Push(Home)
      BY <1>4 DEF GoHome
    <2>2. location' = Home
      BY <2>1, RouteTypes, Pushed DEF Typed
    <2>3. Agrees'
      BY <2>1, <2>2 DEF Agrees, Home, RouteTo
    <2> QED BY <2>3 DEF Explained
  <1>5. CASE \E p \in Paths : Navigate(p)
    <2>1. PICK p \in Paths : Navigate(p)
      BY <1>5
    <2>2. path' = p /\ active' = active /\ active \in Shares \cup {Nameless} /\ active # None
      BY <2>1 DEF Navigate, ViewShown, Typed, TypedPage
    <2>3. PICK r \in Routes : r = RouteTo(active, p)
      BY <2>2, RouteTypes
    <2>4. location' = r
      <3>1. CASE location = RouteTo(active, p)
        <4>1. UNCHANGED browser
          BY <2>1, <3>1 DEF Navigate
        <4> QED BY <2>3, <3>1, <4>1, KeptBrowser DEF Typed
      <3>2. CASE location # RouteTo(active, p)
        <4>1. Push(r)
          BY <2>1, <2>3, <3>2 DEF Navigate
        <4> QED BY <4>1, Pushed DEF Typed
      <3> QED BY <3>1, <3>2
    <2>5. Agrees'
      BY <2>2, <2>3, <2>4 DEF Agrees, Home, RouteTo
    <2> QED BY <2>5 DEF Explained
  <1>6. CASE SubmitPassword \/ Lock \/ ConfirmExit
    <2>1. UNCHANGED <<browser, shown, target, pending, screen, ticket, crossed>>
      BY <1>6 DEF SubmitPassword, Lock, ConfirmExit, dialogs
    <2>2. \E kind, slug : Send(calls, kind, slug, Top, 0, FALSE)
      BY <1>6 DEF SubmitPassword, Lock, ConfirmExit
    <2>3. Waiting
      BY <2>1, <2>2, SendsOne DEF Waiting
    <2>4. location' = location
      BY <2>1, KeptBrowser DEF Typed
    <2> QED BY <2>1, <2>3, <2>4, ExplainedKept DEF screen
  <1>7. CASE OpenExit \/ CancelExit
    <2>1. UNCHANGED <<browser, shown, dialogs, screen, ticket, calls, crossed>>
      BY <1>7 DEF OpenExit, CancelExit
    <2>2. Waiting
      BY <2>1 DEF Waiting
    <2>3. location' = location
      BY <2>1, KeptBrowser DEF Typed
    <2> QED BY <2>1, <2>2, <2>3, ExplainedKept DEF screen, dialogs
  <1>8. CASE CancelPassword
    <2>1. UNCHANGED shown /\ (crossed'.address = FALSE => active = None)
      BY <1>8, CancelCrosses DEF CancelPassword
    <2>2. location' = Home
      <3>1. CASE location # Home
        <4>1. Replace(Home)
          BY <1>8, <3>1 DEF CancelPassword
        <4> QED BY <4>1, RouteTypes, Replaced DEF Typed
      <3>2. CASE location = Home
        <4>1. UNCHANGED browser
          BY <1>8, <3>2 DEF CancelPassword
        <4> QED BY <3>2, <4>1, KeptBrowser DEF Typed
      <3> QED BY <3>1, <3>2
    <2>3. crossed'.address = FALSE => Agrees'
      BY <2>1, <2>2 DEF Agrees, Home, RouteTo, shown
    <2> QED BY <2>3 DEF Explained
  <1> QED BY <1>1, <1>2, <1>3, <1>4, <1>5, <1>6, <1>7, <1>8

LEMMA AnswerExplained ==
    ASSUME Typed, Followed, Explained, NEW c \in calls, Answer(c)
    PROVE  Explained'
  <1> USE AppAssumption
  <1>1. Sort(c)
    BY DEF Typed, Sorts
  <1>2. CASE SiteAnswer(c)
    <2>1. CASE Sync(location, TRUE, calls \ {c})
      <3>1. PICK r \in Routes : r = location
        BY LocationType DEF Typed
      <3>2. location' = location
        BY <1>2, KeptBrowser DEF SiteAnswer, Typed
      <3>3. Sync(r, TRUE, calls \ {c}) /\ location' = r
        BY <2>1, <3>1, <3>2
      <3> QED BY <3>3, SyncExplained
    <2>2. CASE failed' = TRUE
      BY <2>2 DEF Explained
    <2> QED BY <1>2, <2>1, <2>2 DEF SiteAnswer
  <1>3. CASE HomeAnswer(c) \/ RefreshAnswer(c)
    <2>1. /\ c.kind \in {"home", "refresh"} /\ calls' = calls \ {c}
          /\ UNCHANGED <<browser, shown, dialogs, ticket, crossed>>
      BY <1>3 DEF HomeAnswer, RefreshAnswer, Answered
    <2>2. Waiting
      BY <2>1 DEF Waiting
    <2>3. failed = TRUE => failed' = TRUE
      BY <1>3 DEF HomeAnswer, RefreshAnswer, screen
    <2>4. location' = location
      BY <2>1, KeptBrowser DEF Typed
    <2> QED BY <2>1, <2>2, <2>3, <2>4, ExplainedKept DEF dialogs
  <1>4. CASE ShareAnswer(c)
    <2>1. /\ c.kind = "share" /\ calls' = calls \ {c} /\ UNCHANGED <<browser, ticket, crossed>>
      BY <1>4 DEF ShareAnswer, Answered
    <2>2. location' = location /\ c.slug # None
      BY <1>1, <2>1, KeptBrowser DEF Typed, Sort
    <2>3. CASE ~Succeeded(c)
      <3>1. failed' = TRUE
        BY <1>4, <2>3 DEF ShareAnswer
      <3> QED BY <3>1 DEF Explained
    <2>4. CASE Succeeded(c) /\ c.ticket # ticket
      <3>1. UNCHANGED <<shown, dialogs>> /\ (failed = TRUE => failed' = TRUE)
        BY <1>4, <2>4 DEF ShareAnswer, Current
      <3>2. (Agrees => Agrees') /\ (Locked => Locked')
        BY <2>2, <3>1 DEF Agrees, Locked, Home, RouteTo, shown, dialogs
      <3>3. /\ Asks("site") => Asks("site")'
            /\ AsksNow("share") => AsksNow("share")'
            /\ AsksNow("left") => AsksNow("left")'
        BY <2>1, <2>4 DEF Asks, AsksNow
      <3> QED BY <2>1, <3>1, <3>2, <3>3 DEF Explained, shown
    <2>5. CASE Succeeded(c) /\ c.ticket = ticket
      <3>1. crossed.address = FALSE => RouteTo(c.slug, c.path) = location
        BY <2>1, <2>5 DEF Followed
      <3>2. CASE Open(c)
        <4>1. active' = c.slug /\ path' = c.path
          BY <1>4, <2>5, <3>2 DEF ShareAnswer, Current
        <4>2. crossed.address = FALSE => Agrees'
          BY <2>2, <3>1, <4>1 DEF Agrees, Home, RouteTo
        <4> QED BY <2>1, <4>2 DEF Explained
      <3>3. CASE ~Open(c)
        <4>1. target' = c.slug /\ pending' = [path |-> c.path, push |-> FALSE]
          BY <1>4, <2>5, <3>3 DEF ShareAnswer, Current
        <4>2. pending'.path = c.path /\ pending'.push = FALSE
          BY <4>1
        <4>3. crossed.address = FALSE => Locked'
          BY <2>2, <3>1, <4>1, <4>2 DEF Locked, RouteTo
        <4> QED BY <2>1, <4>3 DEF Explained
      <3> QED BY <3>2, <3>3
    <2> QED BY <2>3, <2>4, <2>5
  <1>5. CASE UnlockAnswer(c)
    <2>1. c.kind = "unlock" /\ calls' = calls \ {c}
      BY <1>5 DEF UnlockAnswer, Answered
    <2>2. CASE ~Succeeded(c)
      <3>1. UNCHANGED <<browser, shown, target, pending, screen, ticket, crossed>>
        BY <1>5, <2>2 DEF UnlockAnswer
      <3>2. Waiting
        BY <2>1, <3>1 DEF Waiting
      <3>3. location' = location
        BY <3>1, KeptBrowser DEF Typed
      <3> QED BY <3>1, <3>2, <3>3, ExplainedKept DEF screen
    <2>3. CASE Succeeded(c)
      <3>1. active' = Unlocked /\ path' = pending.path
        BY <1>5, <2>3 DEF UnlockAnswer
      <3>2. crossed'.address = FALSE =>
                target = c.slug /\ (pending.push = FALSE => location = RouteTo(target, pending.path))
        BY <1>5, <2>3, UnlockCrosses
      <3>3. crossed'.address = FALSE => Unlocked = target /\ target \in Shares /\ target # None
        BY <1>1, <2>1, <3>2 DEF Sort, Unlocked, AppAssumption
      <3>4. PICK r \in Routes : r = RouteTo(Unlocked, pending.path)
        <4>1. Unlocked \in Shares \cup {Nameless} /\ pending.path \in Paths
          BY DEF Unlocked, Typed, TypedPage
        <4> QED BY <4>1, RouteTypes
      <3>5. crossed'.address = FALSE => location' = r
        <4>1. CASE pending.push
          <5>1. Push(r)
            BY <1>5, <2>3, <3>4, <4>1 DEF UnlockAnswer
          <5> QED BY <5>1, Pushed DEF Typed
        <4>2. CASE ~pending.push
          <5>1. UNCHANGED browser
            BY <1>5, <2>3, <4>2 DEF UnlockAnswer
          <5>2. crossed'.address = FALSE => location = RouteTo(target, pending.path)
            BY <3>2, <4>2 DEF Typed, TypedPage
          <5>3. location' = location
            BY <5>1, KeptBrowser DEF Typed
          <5> QED BY <3>3, <3>4, <5>2, <5>3
        <4> QED BY <4>1, <4>2
      <3>6. crossed'.address = FALSE => Agrees'
        BY <3>1, <3>3, <3>4, <3>5 DEF Agrees, RouteTo
      <3> QED BY <3>6 DEF Explained
    <2> QED BY <2>2, <2>3
  <1>6. CASE LockAnswer(c)
    <2>1. c.kind = "lock" /\ calls' = calls \ {c}
      BY <1>6 DEF LockAnswer, Answered
    <2>2. CASE ~Succeeded(c)
      <3>1. UNCHANGED <<browser, shown, dialogs, screen, ticket, crossed>>
        BY <1>6, <2>2 DEF LockAnswer
      <3>2. Waiting
        BY <2>1, <3>1 DEF Waiting
      <3>3. location' = location
        BY <3>1, KeptBrowser DEF Typed
      <3> QED BY <3>1, <3>2, <3>3, ExplainedKept DEF screen, dialogs
    <2>3. CASE Succeeded(c)
      <3>1. active' = None /\ Replace(Home)
        BY <1>6, <2>3 DEF LockAnswer
      <3>2. location' = Home
        BY <3>1, RouteTypes, Replaced DEF Typed
      <3>3. Agrees'
        BY <3>1, <3>2 DEF Agrees, Home, RouteTo
      <3> QED BY <3>3 DEF Explained
    <2> QED BY <2>2, <2>3
  <1>7. CASE LogoutAnswer(c)
    <2>1. c.kind = "logout"
      BY <1>7 DEF LogoutAnswer, Answered
    <2>2. CASE ~Succeeded(c)
      <3>1. UNCHANGED <<browser, shown, dialogs, screen, ticket, crossed>> /\ calls' = calls \ {c}
        BY <1>7, <2>2 DEF LogoutAnswer
      <3>2. Waiting
        BY <2>1, <3>1 DEF Waiting
      <3>3. location' = location
        BY <3>1, KeptBrowser DEF Typed
      <3> QED BY <3>1, <3>2, <3>3, ExplainedKept DEF screen, dialogs
    <2>3. CASE Succeeded(c)
      <3>1. /\ active' = None /\ ticket' = ticket + 1
            /\ Send(calls \ {c}, "left", None, Top, ticket + 1, FALSE)
        BY <1>7, <2>3 DEF LogoutAnswer
      <3>2. PICK n : /\ Sent(n, "left", None, Top, ticket + 1, FALSE)
                     /\ calls' = (calls \ {c}) \cup {n}
        BY <3>1, SendsOne
      <3>3. AsksNow("left")'
        BY <3>1, <3>2 DEF AsksNow, Sent
      <3> QED BY <3>1, <3>3 DEF Explained
    <2> QED BY <2>2, <2>3
  <1>8. CASE LeftAnswer(c)
    <2>1. c.kind = "left" /\ calls' = calls \ {c} /\ UNCHANGED <<shown, dialogs, screen, ticket>>
      BY <1>8 DEF LeftAnswer, Answered
    <2>2. CASE Succeeded(c)
      <3>1. Replace(Home) /\ (crossed'.address = FALSE => active = None)
        BY <1>8, <2>2, LeftCrosses DEF LeftAnswer
      <3>2. location' = Home
        BY <3>1, RouteTypes, Replaced DEF Typed
      <3>3. crossed'.address = FALSE => Agrees'
        BY <2>1, <3>1, <3>2 DEF Agrees, Home, RouteTo, shown
      <3> QED BY <3>3 DEF Explained
    <2>3. CASE ~Succeeded(c)
      <3>1. /\ UNCHANGED browser
            /\ crossed'.address = FALSE => crossed.address = FALSE /\ location = Home
        BY <1>8, <2>3, LeftCrosses DEF LeftAnswer
      <3>2. location' = location
        BY <3>1, KeptBrowser DEF Typed
      <3>3. (Agrees => Agrees') /\ (Locked => Locked')
        BY <2>1, <3>2 DEF Agrees, Locked, Home, RouteTo, shown, dialogs
      <3>4. (Asks("site") => Asks("site")') /\ (AsksNow("share") => AsksNow("share")')
        BY <2>1 DEF Asks, AsksNow
      <3>5. crossed'.address = FALSE /\ active = None => Agrees
        BY <3>1 DEF Agrees
      <3> QED BY <2>1, <3>1, <3>3, <3>4, <3>5 DEF Explained, screen
    <2> QED BY <2>2, <2>3
  <1> QED BY <1>2, <1>3, <1>4, <1>5, <1>6, <1>7, <1>8 DEF Answer

LEMMA NextExplained ==
    ASSUME Typed, Followed, Explained, [Next]_vars
    PROVE  Explained'
  <1>1. CASE UNCHANGED vars
    <2>1. UNCHANGED <<browser, shown, dialogs, screen, ticket, calls, crossed>>
      BY <1>1 DEF vars
    <2>2. Waiting
      BY <2>1 DEF Waiting
    <2>3. location' = location
      BY <2>1, KeptBrowser DEF Typed
    <2> QED BY <2>1, <2>2, <2>3, ExplainedKept DEF screen, dialogs
  <1> QED BY <1>1, ServeExplained, AnswerExplained, UserExplained DEF Next

LEMMA AlwaysExplained == Spec => [](Typed /\ Spinning /\ Followed /\ Explained)
  BY InitTyped, NextTyped, InitSpinning, NextSpinning, InitFollowed, NextFollowed,
     InitExplained, NextExplained, PTL DEF Spec

(* AddressAgrees: once nothing is on its way, the address bar names the    *)
(* share and the folder the page shows, so that a reload or a bookmark     *)
(* leads where the user is; crossed.address says after which steps it may  *)
(* not.                                                                    *)
THEOREM AddressBarAgrees == Spec => []AddressAgrees
  <1>1. ASSUME Typed, Spinning, Explained, Settled, ~crossed.address
        PROVE  Agrees
    <2>1. /\ crossed.address = FALSE /\ failed # TRUE /\ booting # TRUE
          /\ leaving # TRUE /\ target = None
      BY <1>1 DEF Settled, Modal, Spinning, Typed, TypedFlags, TypedCrossed
    <2>2. ~Asks("site")
      BY <1>1, <2>1 DEF Asks, Typed, Sorts, Sort, Spinning, Owed, Boots
    <2>3. ~AsksNow("share")
      BY <1>1 DEF Settled, Current, AsksNow
    <2>4. ~AsksNow("left")
      BY <1>1, <2>1 DEF AsksNow, Spinning, Owed, Leaves
    <2> QED BY <1>1, <2>1, <2>2, <2>3, <2>4 DEF Explained, Locked
  <1>2. Typed /\ Spinning /\ Explained => AddressAgrees
    BY <1>1 DEF AddressAgrees, Agrees
  <1> QED BY <1>2, AlwaysExplained, PTL

LEMMA AlwaysFollowed == Spec => [](Typed /\ Followed)
  BY InitTyped, NextTyped, InitFollowed, NextFollowed, PTL DEF Spec

(* RouteAnswersCurrent: the answer about a share changes what is on show,  *)
(* or opens the password dialog, only while that share's route is in the   *)
(* address bar.  One answer may come late and take the user back: that of  *)
(* the route that was followed when a logout's list sent the address home. *)
THEOREM RouteAnswersAreCurrent == Spec => RouteAnswersCurrent
  <1> DEFINE Only == \A c \in calls \ calls' :
                        /\ c.kind = "share"
                        /\ shown' # shown \/ target' # target
                        => location = RouteTo(c.slug, c.path) \/ c.ticket = crossed.home
  <1>1. ASSUME Typed, Followed, [Next]_vars
        PROVE  Only
    <2> SUFFICES ASSUME NEW c \in calls, c \notin calls', c.kind = "share",
                        shown' # shown \/ target' # target
                 PROVE  location = RouteTo(c.slug, c.path) \/ c.ticket = crossed.home
      OBVIOUS
    <2>1. ~UNCHANGED vars
      BY DEF vars
    <2>2. ASSUME NEW e \in calls, Serve(e)
          PROVE  FALSE
      BY <2>2 DEF Serve, dialogs
    <2>3. ASSUME NEW e \in calls, Answer(e)
          PROVE  ShareAnswer(c)
      <3>1. calls \ {e} \subseteq calls'
        <4>1. CASE SiteAnswer(e)
          <5>1. CASE calls' = calls \ {e}
            BY <5>1
          <5>2. CASE Sync(location, TRUE, calls \ {e})
            <6>1. PICK r, others : r = location /\ others = calls \ {e}
              OBVIOUS
            <6>2. Sync(r, TRUE, others)
              BY <5>2, <6>1
            <6>3. \/ calls' = others
                  \/ \E kind, slug, p : Send(others, kind, slug, p, ticket + 1, TRUE)
              BY <6>2, SyncSends
            <6> QED BY <6>1, <6>3, SendsOne
          <5> QED BY <4>1, <5>1, <5>2 DEF SiteAnswer
        <4>2. CASE LogoutAnswer(e)
          <5>1. CASE calls' = calls \ {e}
            BY <5>1
          <5>2. CASE Send(calls \ {e}, "left", None, Top, ticket + 1, FALSE)
            BY <5>2, SendsOne
          <5> QED BY <4>2, <5>1, <5>2 DEF LogoutAnswer
        <4>3. CASE ~SiteAnswer(e) /\ ~LogoutAnswer(e)
          <5>1. calls' = calls \ {e}
            BY <2>3, <4>3 DEF Answer, HomeAnswer, ShareAnswer, RefreshAnswer,
                              UnlockAnswer, LockAnswer, LeftAnswer
          <5> QED BY <5>1
        <4> QED BY <4>1, <4>2, <4>3
      <3>2. e = c
        BY <3>1
      <3> QED BY <2>3, <3>2 DEF Answer, SiteAnswer, HomeAnswer, RefreshAnswer,
                  UnlockAnswer, LockAnswer, LogoutAnswer, LeftAnswer, Answered
    <2>4. CASE ShareAnswer(c)
      <3>1. c.ticket = ticket
        BY <2>4 DEF ShareAnswer, Current, dialogs
      <3> QED BY <1>1, <3>1 DEF Followed
    <2>5. ASSUME calls \subseteq calls'
          PROVE  FALSE
      BY <2>5
    <2>6. ASSUME UNCHANGED calls \/ \E kind, slug, p, t, boot : Send(calls, kind, slug, p, t, boot)
          PROVE  calls \subseteq calls'
      BY <2>6, SendsOne
    <2>7. ASSUME NEW i, PopState(i)
          PROVE  calls \subseteq calls'
      <3>1. PICK r : r = history[i]
        OBVIOUS
      <3>2. Sync(r, FALSE, calls)
        BY <2>7, <3>1 DEF PopState
      <3>3. calls' = calls \/ \E kind, slug, p : Send(calls, kind, slug, p, ticket + 1, FALSE)
        BY <3>2, SyncSends
      <3> QED BY <3>3, SendsOne
    <2>8. ASSUME \/ Reconnect
                 \/ \E s \in Shares : OpenRow(s)
                 \/ GoHome
                 \/ \E p \in Paths : Navigate(p)
                 \/ SubmitPassword \/ CancelPassword
                 \/ Lock
                 \/ OpenExit \/ CancelExit \/ ConfirmExit
          PROVE  calls \subseteq calls'
      <3>1. UNCHANGED calls \/ \E kind, slug, p, t, boot : Send(calls, kind, slug, p, t, boot)
        BY <2>8 DEF Reconnect, OpenRow, GoHome, Navigate, SubmitPassword, CancelPassword,
                    Lock, OpenExit, CancelExit, ConfirmExit
      <3> QED BY <2>6, <3>1
    <2> QED BY <1>1, <2>1, <2>2, <2>3, <2>4, <2>5, <2>7, <2>8 DEF Next
  <1>2. Typed /\ Followed /\ [Next]_vars => [Only]_vars
    BY <1>1
  <1>3. [][Only]_vars => RouteAnswersCurrent
    BY DEF RouteAnswersCurrent
  <1> HIDE DEF Only
  <1> QED BY <1>2, <1>3, AlwaysFollowed, PTL DEF Spec

-----------------------------------------------------------------------------
(* The folder view.  Its requests.                                         *)

\* What the view asks for, but for the listing that a further page continues.
Made(n, kind, id, s, p, page) ==
    n.kind = kind /\ n.id = id /\ n.share = s /\ n.path = p /\ n.page = page

LEMMA CallMade ==
    ASSUME loads \in Nat, NEW kind \in RequestKinds, NEW id \in Nat, NEW s \in Slugs,
           NEW p \in Folders \cup Files, NEW page \in Nat
    PROVE  \E n \in CallRecords :
              /\ n = Call(kind, id, s, p, page)
              /\ Made(n, kind, id, s, p, page)
              /\ kind = "more" => n.since = loads
  <1>1. PICK since : since = IF kind = "more" THEN loads ELSE 0
    OBVIOUS
  <1>2. since \in Nat /\ (kind = "more" => since = loads)
    BY <1>1
  <1>3. PICK n : n = [kind |-> kind, id |-> id, share |-> s, path |-> p, page |-> page,
                      since |-> since]
    OBVIOUS
  <1>4. n \in CallRecords /\ Made(n, kind, id, s, p, page) /\ n.since = since
    BY <1>2, <1>3 DEF CallRecords, Made
  <1>5. n = Call(kind, id, s, p, page)
    BY <1>1, <1>3 DEF Call
  <1> QED BY <1>2, <1>4, <1>5

LEMMA RequestType ==
    ASSUME NEW c \in CallRecords
    PROVE  /\ c.kind \in RequestKinds /\ c.id \in Nat /\ c.share \in Slugs
           /\ c.path \in Folders \cup Files /\ c.page \in Nat /\ c.since \in Nat
  BY DEF CallRecords

LEMMA RequestKindTypes ==
    "entries" \in RequestKinds /\ "more" \in RequestKinds /\ "metadata" \in RequestKinds
    /\ "text" \in RequestKinds
  BY DEF RequestKinds

(* A place for one more request is a number.                               *)
LEMMA FreePlace ==
    ASSUME BrowserAssumption, NEW kind \in RequestKinds, FreeIds(kind) # {}
    PROVE  Min(FreeIds(kind)) \in Nat
  <1>1. MaxCalls[kind] \in Nat
    BY DEF BrowserAssumption
  <1>2. FreeIds(kind) \in SUBSET Nat
    BY <1>1 DEF FreeIds
  <1>3. PICK S \in SUBSET Nat : S = FreeIds(kind)
    BY <1>2
  <1>4. Min(S) \in S
    BY <1>3, LeastNatural
  <1> QED BY <1>3, <1>4

LEMMA TextsMade ==
    ASSUME BrowserAssumption, loads \in Nat, NEW s \in Slugs, NEW e \in Files
    PROVE  \A d \in Texts(s, e) :
              d \in CallRecords /\ d.kind = "text" /\ d.share = s /\ d.path = e
  <1>1. CASE e \in TextFiles /\ s \in PreviewShares /\ FreeIds("text") # {}
    <2>1. PICK id \in Nat : id = Min(FreeIds("text"))
      BY <1>1, FreePlace, RequestKindTypes
    <2>2. Texts(s, e) = {Call("text", id, s, e, 0)}
      BY <1>1, <2>1 DEF Texts
    <2>3. \E n \in CallRecords : n = Call("text", id, s, e, 0)
                                 /\ Made(n, "text", id, s, e, 0)
      BY <2>1, CallMade, RequestKindTypes
    <2> QED BY <2>2, <2>3 DEF Made
  <1>2. CASE ~(e \in TextFiles /\ s \in PreviewShares /\ FreeIds("text") # {})
    BY <1>2 DEF Texts
  <1> QED BY <1>1, <1>2

-----------------------------------------------------------------------------
(* Types of the view.                                                      *)

TypedListing ==
    /\ share \in Slugs \cup {Null}
    /\ initialPath \in Folders \cup {Null}
    /\ folder \in Folders \cup {Null}
    /\ requested \in Folders \cup {Null}
    /\ loads \in Nat /\ loads <= MaxLoads
    /\ cursor \in Nat
    /\ pages \in Seq(PageRecords)

TypedDialog ==
    /\ preview \in Files \cup {Null}
    /\ text \in [share : Slugs, path : Files] \cup {Null}

TypedSigns ==
    /\ loading \in BOOLEAN
    /\ loadingMore \in BOOLEAN
    /\ errored \in BOOLEAN
    /\ textLoading \in BOOLEAN
    /\ textFailed \in BOOLEAN
    /\ switched \in BOOLEAN
    /\ mixed \in BOOLEAN
    /\ replaced \in BOOLEAN

\* What each kind of request is about.
Fits(c) ==
    /\ c \in CallRecords
    /\ c.kind \in {"entries", "more"} => c.path \in Folders /\ c.page # 0
    /\ c.kind \in {"metadata", "text"} => c.path \in Files

TypedRequests == \A c \in requests : Fits(c)

\* Nothing is asked for, and no dialog is open, while the view is down; while
\* it is up, it is in the folder that the shell asked for.
Mounted ==
    /\ share = Null => requests = {} /\ preview = Null
    /\ share # Null =>
          initialPath \in Folders /\ folder = initialPath /\ requested = initialPath

\* The button for a further page waits exactly for the request it sent.
Paging == Owed(loadingMore, Outstanding("more"))

ViewTyped ==
    /\ TypedListing
    /\ TypedDialog
    /\ TypedSigns
    /\ TypedRequests
    /\ Mounted
    /\ Paging

LEMMA InitViewTyped == ViewInit => ViewTyped
  <1> SUFFICES ASSUME ViewInit
               PROVE  ViewTyped
    OBVIOUS
  <1>1. TypedListing
    <2>1. loads \in Nat /\ loads <= MaxLoads /\ cursor \in Nat
      BY BrowserAssumption DEF ViewInit, BrowserAssumption
    <2>2. pages \in Seq(PageRecords)
      BY DEF ViewInit
    <2> QED BY <2>1, <2>2 DEF ViewInit, TypedListing
  <1>2. TypedDialog /\ TypedSigns /\ TypedRequests /\ Mounted
    BY DEF ViewInit, TypedDialog, TypedSigns, TypedRequests, Mounted
  <1>3. Paging
    BY DEF ViewInit, Paging, Owed, Outstanding
  <1> QED BY <1>1, <1>2, <1>3 DEF ViewTyped

(* Reading a folder, beside some of the requests and the dialog's.         *)
LEMMA LoadMade ==
    ASSUME BrowserAssumption, ViewTyped, NEW s \in Slugs, NEW p \in Folders, NEW others,
           \A d \in others : Fits(d), LoadOf(s, p, others)
    PROVE  \E n \in CallRecords :
              /\ n.kind = "entries" /\ n.id = loads + 1 /\ n.share = s /\ n.path = p
              /\ n.page = 1
              /\ requests' = others \cup {n}
              /\ loads' = loads + 1 /\ loads' \in Nat /\ loads' <= MaxLoads
              /\ TypedRequests'
  <1>1. loads \in Nat /\ loads < MaxLoads /\ MaxLoads \in Nat
    BY DEF ViewTyped, TypedListing, LoadOf, BrowserAssumption
  <1>2. PICK id \in Nat : id = loads + 1
    BY <1>1
  <1>3. p \in Folders \cup Files /\ 1 \in Nat
    OBVIOUS
  <1>4. PICK n \in CallRecords : /\ n = Call("entries", id, s, p, 1)
                                 /\ Made(n, "entries", id, s, p, 1)
    BY <1>1, <1>2, <1>3, CallMade, RequestKindTypes
  <1>5. requests' = others \cup {n} /\ loads' = loads + 1
    BY <1>2, <1>4 DEF LoadOf
  <1>6. loads' \in Nat /\ loads' <= MaxLoads
    BY <1>1, <1>5
  <1>7. Fits(n)
    BY <1>4 DEF Fits, Made
  <1>8. TypedRequests'
    BY <1>5, <1>7 DEF TypedRequests, Fits, CallRecords
  <1> QED BY <1>2, <1>4, <1>5, <1>6, <1>8 DEF Made

LEMMA PagingKept ==
    ASSUME Paging, loadingMore' = loadingMore,
           \A d : d.kind = "more" => (d \in requests' <=> d \in requests)
    PROVE  Paging'
  <1>1. Outstanding("more")' = Outstanding("more")
    BY DEF Outstanding
  <1>2. PICK S, T, flag : /\ S = Outstanding("more") /\ T = Outstanding("more")'
                          /\ flag = loadingMore /\ S = T
    BY <1>1
  <1> QED BY <1>1, <1>2 DEF Paging, Owed

(* The dialog reads its text anew, or stays as it is.                      *)
LEMMA ReadTextTyped ==
    ASSUME ViewTyped, NEW s, NEW e, ReadText(s, e)
    PROVE  /\ text' = Null \/ text' = text
           /\ text' \in [share : Slugs, path : Files] \cup {Null}
           /\ textLoading' \in BOOLEAN /\ textFailed' \in BOOLEAN
  <1>1. CASE e \in TextFiles /\ s \in PreviewShares
    <2>1. text' = Null /\ textLoading' = TRUE /\ textFailed' = FALSE
      BY <1>1 DEF ReadText
    <2> QED BY <2>1
  <1>2. CASE ~(e \in TextFiles /\ s \in PreviewShares)
    <2>1. UNCHANGED <<text, textLoading, textFailed>>
      BY <1>2 DEF ReadText
    <2> QED BY <2>1 DEF ViewTyped, TypedDialog, TypedSigns
  <1> QED BY <1>1, <1>2

LEMMA MountTyped ==
    ASSUME ViewTyped, NEW s \in Slugs, NEW p \in Folders, Mount(s, p)
    PROVE  ViewTyped'
  <1>1. LoadOf(s, p, requests) /\ UNCHANGED <<cursor, pages, mixed, loadingMore, dialog>>
        /\ share' = s /\ initialPath' = p
    BY DEF Mount, Load
  <1>2. \A d \in requests : Fits(d)
    BY DEF ViewTyped, TypedRequests
  <1>3. PICK n \in CallRecords :
              /\ n.kind = "entries" /\ n.id = loads + 1 /\ n.share = s /\ n.path = p
              /\ n.page = 1
              /\ requests' = requests \cup {n}
              /\ loads' = loads + 1 /\ loads' \in Nat /\ loads' <= MaxLoads
              /\ TypedRequests'
    BY <1>1, <1>2, BrowserAssumption, LoadMade
  <1>4. folder' = p /\ requested' = p /\ loading' = TRUE /\ errored' = FALSE
        /\ switched' = FALSE
    BY <1>1 DEF LoadOf
  <1>5. TypedListing'
    BY <1>1, <1>3, <1>4 DEF ViewTyped, TypedListing
  <1>6. TypedDialog'
    BY <1>1 DEF ViewTyped, TypedDialog, dialog
  <1>7. TypedSigns'
    BY <1>1, <1>4 DEF ViewTyped, TypedSigns, dialog
  <1>8. s # Null
    BY BrowserAssumption DEF BrowserAssumption
  <1>9. Mounted'
    BY <1>1, <1>4, <1>8 DEF Mounted
  <1>10. Paging'
    BY <1>1, <1>3, PagingKept DEF ViewTyped
  <1> QED BY <1>3, <1>5, <1>6, <1>7, <1>9, <1>10 DEF ViewTyped

LEMMA UnmountTyped ==
    ASSUME ViewTyped, Unmount
    PROVE  ViewTyped'
  <1>1. TypedListing'
    <2>1. loads' \in Nat /\ loads' <= MaxLoads /\ cursor' \in Nat
      BY BrowserAssumption DEF Unmount, BrowserAssumption
    <2>2. pages' \in Seq(PageRecords)
      BY DEF Unmount
    <2> QED BY <2>1, <2>2 DEF Unmount, TypedListing
  <1>2. TypedDialog' /\ TypedSigns' /\ TypedRequests' /\ Mounted'
    BY DEF Unmount, TypedDialog, TypedSigns, TypedRequests, Mounted
  <1>3. Paging'
    BY DEF Unmount, Paging, Owed, Outstanding
  <1> QED BY <1>1, <1>2, <1>3 DEF ViewTyped

(* What the dialog asks for beside the requests in flight, if anything.    *)
Beside(s) == requests \cup IF s # share /\ preview # Null THEN Texts(s, preview) ELSE {}

LEMMA BesideMade ==
    ASSUME ViewTyped, NEW s \in Slugs
    PROVE  \A d \in Beside(s) :
              /\ Fits(d)
              /\ d \in requests \/ (/\ d.kind = "text" /\ d.share = s /\ d.path = preview
                                    /\ s # share /\ preview # Null)
  <1>1. CASE s # share /\ preview # Null
    <2>1. preview \in Files /\ loads \in Nat
      BY <1>1 DEF ViewTyped, TypedDialog, TypedListing
    <2>2. PICK e \in Files : e = preview
      BY <2>1
    <2>3. \A d \in Texts(s, e) : d \in CallRecords /\ d.kind = "text" /\ d.share = s /\ d.path = e
      BY <2>1, BrowserAssumption, TextsMade
    <2>4. \A d \in Texts(s, e) : Fits(d)
      BY <2>2, <2>3 DEF Fits
    <2>5. Beside(s) = requests \cup Texts(s, e)
      BY <1>1, <2>2 DEF Beside
    <2> QED BY <1>1, <2>2, <2>3, <2>4, <2>5 DEF ViewTyped, TypedRequests
  <1>2. CASE ~(s # share /\ preview # Null)
    BY <1>2 DEF Beside, ViewTyped, TypedRequests
  <1> QED BY <1>1, <1>2

\* What changing the properties makes of the view.
LEMMA ChangePropsMakes ==
    ASSUME NEW s, NEW p, ChangeProps(s, p)
    PROVE  /\ share # Null /\ share' = s /\ initialPath' = p
           /\ UNCHANGED <<loadingMore, preview>>
           /\ replaced' = (replaced \/ (s # share /\ preview # Null))
           /\ IF s # share /\ preview # Null
              THEN ReadText(s, preview)
              ELSE UNCHANGED <<text, textLoading, textFailed>>
           /\ \/ p # requested /\ Load(s, p, Beside(s))
              \/ /\ p = requested /\ NoLoad(Beside(s)) /\ UNCHANGED mixed
                 /\ switched' = (switched \/ s # share)
  BY DEF ChangeProps, Beside

LEMMA ChangePropsTyped ==
    ASSUME ViewTyped, NEW s \in Slugs, NEW p \in Folders, ChangeProps(s, p)
    PROVE  ViewTyped'
  <1>1. /\ share # Null /\ share' = s /\ initialPath' = p
        /\ UNCHANGED <<loadingMore, preview>>
        /\ s # Null
    BY ChangePropsMakes, BrowserAssumption DEF BrowserAssumption
  <1>2. \A d \in Beside(s) : Fits(d) /\ (d \in requests \/ d.kind = "text")
    BY BesideMade
  <1>3. requests \subseteq Beside(s)
    BY DEF Beside
  <1>4. replaced' \in BOOLEAN
    BY ChangePropsMakes
  <1>5. /\ text' \in [share : Slugs, path : Files] \cup {Null}
        /\ textLoading' \in BOOLEAN /\ textFailed' \in BOOLEAN
    <2>1. CASE ReadText(s, preview)
      <3>1. PICK e : e = preview
        OBVIOUS
      <3>2. ReadText(s, e)
        BY <2>1, <3>1
      <3> QED BY <3>2, ReadTextTyped
    <2>2. CASE UNCHANGED <<text, textLoading, textFailed>>
      BY <2>2 DEF ViewTyped, TypedDialog, TypedSigns
    <2> QED BY <2>1, <2>2, ChangePropsMakes
  <1>6. TypedDialog'
    BY <1>1, <1>5 DEF ViewTyped, TypedDialog
  <1>7. CASE Load(s, p, Beside(s))
    <2>1. LoadOf(s, p, Beside(s)) /\ UNCHANGED <<cursor, pages, mixed>>
      BY <1>7 DEF Load
    <2>2. PICK others : others = Beside(s)
      OBVIOUS
    <2>3. LoadOf(s, p, others) /\ \A d \in others : Fits(d)
      BY <1>2, <2>1, <2>2
    <2>4. PICK n \in CallRecords :
              /\ n.kind = "entries" /\ n.id = loads + 1 /\ n.share = s /\ n.path = p
              /\ n.page = 1
              /\ requests' = others \cup {n}
              /\ loads' = loads + 1 /\ loads' \in Nat /\ loads' <= MaxLoads
              /\ TypedRequests'
      BY <2>3, BrowserAssumption, LoadMade
    <2>5. folder' = p /\ requested' = p /\ loading' = TRUE /\ errored' = FALSE
          /\ switched' = FALSE
      BY <2>1 DEF LoadOf
    <2>6. TypedListing'
      BY <1>1, <2>1, <2>4, <2>5 DEF ViewTyped, TypedListing
    <2>7. TypedSigns'
      BY <1>1, <1>4, <1>5, <2>1, <2>5 DEF ViewTyped, TypedSigns
    <2>8. Mounted'
      BY <1>1, <2>5 DEF Mounted
    <2>9. Paging'
      BY <1>1, <1>2, <1>3, <2>2, <2>4, PagingKept DEF ViewTyped
    <2> QED BY <1>6, <2>4, <2>6, <2>7, <2>8, <2>9 DEF ViewTyped
  <1>8. CASE /\ p = requested /\ NoLoad(Beside(s)) /\ UNCHANGED mixed
             /\ switched' = (switched \/ s # share)
    <2>1. requests' = Beside(s) /\ UNCHANGED listing
      BY <1>8 DEF NoLoad
    <2>2. TypedListing'
      BY <1>1, <2>1 DEF ViewTyped, TypedListing, listing
    <2>3. TypedSigns'
      <3>1. switched' \in BOOLEAN
        BY <1>8
      <3> QED BY <1>1, <1>4, <1>5, <1>8, <2>1, <3>1 DEF ViewTyped, TypedSigns, listing
    <2>4. Mounted'
      BY <1>1, <1>8, <2>1 DEF ViewTyped, Mounted, listing
    <2>5. TypedRequests'
      BY <1>2, <2>1 DEF TypedRequests, Fits, CallRecords
    <2>6. Paging'
      BY <1>1, <1>2, <1>3, <2>1, PagingKept DEF ViewTyped
    <2> QED BY <1>6, <2>2, <2>3, <2>4, <2>5, <2>6 DEF ViewTyped
  <1> QED BY <1>7, <1>8, ChangePropsMakes

LEMMA RefreshTyped ==
    ASSUME ViewTyped, Refresh
    PROVE  ViewTyped'
  <1>1. /\ share # Null /\ LoadOf(share, folder, requests)
        /\ UNCHANGED <<cursor, pages, mixed, props, loadingMore, dialog>>
    BY DEF Refresh, Load
  <1>2. share \in Slugs /\ folder \in Folders /\ folder = initialPath
    BY <1>1 DEF ViewTyped, TypedListing, Mounted
  <1>3. PICK s \in Slugs, p \in Folders : s = share /\ p = folder
    BY <1>2
  <1>4. \A d \in requests : Fits(d)
    BY DEF ViewTyped, TypedRequests
  <1>5. LoadOf(s, p, requests)
    BY <1>1, <1>3
  <1>6. PICK n \in CallRecords :
              /\ n.kind = "entries" /\ n.id = loads + 1 /\ n.share = s /\ n.path = p
              /\ n.page = 1
              /\ requests' = requests \cup {n}
              /\ loads' = loads + 1 /\ loads' \in Nat /\ loads' <= MaxLoads
              /\ TypedRequests'
    BY <1>4, <1>5, BrowserAssumption, LoadMade
  <1>7. folder' = p /\ requested' = p /\ loading' = TRUE /\ errored' = FALSE
        /\ switched' = FALSE
    BY <1>5 DEF LoadOf
  <1>8. TypedListing'
    BY <1>1, <1>6, <1>7 DEF ViewTyped, TypedListing, props
  <1>9. TypedDialog' /\ TypedSigns'
    BY <1>1, <1>7 DEF ViewTyped, TypedDialog, TypedSigns, dialog
  <1>10. Mounted'
    BY <1>1, <1>2, <1>3, <1>7 DEF Mounted, props
  <1>11. Paging'
    BY <1>1, <1>6, PagingKept DEF ViewTyped
  <1> QED BY <1>6, <1>8, <1>9, <1>10, <1>11 DEF ViewTyped

(* The request for a further page is for the folder and the page that the  *)
(* cursor points to.                                                       *)
LEMMA MoreMade ==
    ASSUME ViewTyped, LoadMore
    PROVE  \E n : /\ Fits(n)
                  /\ n.kind = "more" /\ n.share = share /\ n.path = folder
                  /\ n.page = cursor /\ n.since = loads
                  /\ requests' = requests \cup {n}
  <1>1. /\ share \in Slugs /\ folder \in Folders /\ cursor \in Nat /\ cursor # 0
        /\ loads \in Nat
    BY DEF LoadMore, ViewTyped, TypedListing, Mounted
  <1>2. PICK id \in Nat : id = Min(FreeIds("more"))
    BY BrowserAssumption, FreePlace, RequestKindTypes DEF LoadMore
  <1>3. PICK s \in Slugs, p \in Folders, page \in Nat : s = share /\ p = folder /\ page = cursor
    BY <1>1
  <1>4. requests' = requests \cup {Call("more", id, s, p, page)}
    BY <1>2, <1>3 DEF LoadMore
  <1>5. p \in Folders \cup Files
    OBVIOUS
  <1>6. PICK n \in CallRecords : /\ n = Call("more", id, s, p, page)
                                 /\ Made(n, "more", id, s, p, page)
                                 /\ n.since = loads
    BY <1>1, <1>5, CallMade, RequestKindTypes
  <1>7. Fits(n)
    BY <1>1, <1>3, <1>6 DEF Fits, Made
  <1> QED BY <1>3, <1>4, <1>6, <1>7 DEF Made

LEMMA LoadMoreTyped ==
    ASSUME ViewTyped, LoadMore
    PROVE  ViewTyped'
  <1>1. PICK n : /\ Fits(n)
                 /\ n.kind = "more" /\ n.share = share /\ n.path = folder
                 /\ n.page = cursor /\ n.since = loads
                 /\ requests' = requests \cup {n}
    BY MoreMade
  <1>2. /\ share # Null /\ loadingMore # TRUE /\ loadingMore' = TRUE
        /\ UNCHANGED <<props, listing, dialog, switched, mixed>>
    BY DEF LoadMore
  <1>3. TypedListing' /\ TypedDialog' /\ TypedSigns'
    BY <1>2 DEF ViewTyped, TypedListing, TypedDialog, TypedSigns, props, listing, dialog
  <1>4. Mounted'
    BY <1>2 DEF ViewTyped, Mounted, props, listing
  <1>5. TypedRequests'
    BY <1>1 DEF ViewTyped, TypedRequests, Fits, CallRecords
  <1>6. Paging'
    <2> Outstanding("more")' = Outstanding("more") \cup {n}
      BY <1>1 DEF Outstanding
    <2>1. PICK S, T : S = Outstanding("more") /\ T = Outstanding("more")' /\ T = S \cup {n}
      OBVIOUS
    <2>2. PICK flag : flag = loadingMore /\ flag # TRUE /\ Owed(flag, S)
      BY <1>2, <2>1 DEF ViewTyped, Paging
    <2>3. Owed(TRUE, S \cup {n})
      BY <2>2, OwedBegun
    <2> QED BY <1>2, <2>1, <2>3 DEF Paging, Owed
  <1> QED BY <1>3, <1>4, <1>5, <1>6 DEF ViewTyped

LEMMA OpenFileTyped ==
    ASSUME ViewTyped, NEW e \in Files, OpenFile(e)
    PROVE  /\ ViewTyped'
           /\ \E n : n.kind = "metadata" /\ requests' = requests \cup {n}
  <1>1. /\ share # Null /\ share \in Slugs /\ loads \in Nat
        /\ UNCHANGED <<props, listing, loadingMore, dialog, switched, mixed>>
    BY DEF OpenFile, ViewTyped, TypedListing
  <1>2. PICK id \in Nat : id = Min(FreeIds("metadata"))
    BY BrowserAssumption, FreePlace, RequestKindTypes DEF OpenFile
  <1>3. PICK s \in Slugs : s = share
    BY <1>1
  <1>4. requests' = requests \cup {Call("metadata", id, s, e, 0)}
    BY <1>2, <1>3 DEF OpenFile
  <1>5. e \in Folders \cup Files /\ 0 \in Nat
    OBVIOUS
  <1>6. PICK n \in CallRecords : /\ n = Call("metadata", id, s, e, 0)
                                 /\ Made(n, "metadata", id, s, e, 0)
    BY <1>1, <1>5, CallMade, RequestKindTypes
  <1>7. Fits(n) /\ n.kind = "metadata"
    BY <1>6 DEF Fits, Made
  <1>8. requests' = requests \cup {n}
    BY <1>4, <1>6
  <1>9. TypedListing' /\ TypedDialog' /\ TypedSigns' /\ Mounted'
    BY <1>1 DEF ViewTyped, TypedListing, TypedDialog, TypedSigns, Mounted, props, listing, dialog
  <1>10. TypedRequests'
    BY <1>7, <1>8 DEF ViewTyped, TypedRequests, Fits, CallRecords
  <1>11. Paging'
    BY <1>1, <1>7, <1>8, PagingKept DEF ViewTyped
  <1> QED BY <1>7, <1>8, <1>9, <1>10, <1>11 DEF ViewTyped

LEMMA ClosePreviewTyped ==
    ASSUME ViewTyped, ClosePreview
    PROVE  ViewTyped'
  <1>1. /\ preview' = Null /\ text' = Null /\ textLoading' = FALSE /\ textFailed' = FALSE
        /\ replaced' = FALSE /\ requests' = requests \ Outstanding("text")
        /\ UNCHANGED <<props, listing, loadingMore, switched, mixed>>
    BY DEF ClosePreview
  <1>2. TypedListing' /\ TypedDialog' /\ TypedSigns'
    BY <1>1 DEF ViewTyped, TypedListing, TypedDialog, TypedSigns, props, listing
  <1>3. Mounted'
    BY <1>1 DEF ViewTyped, Mounted, props, listing
  <1>4. TypedRequests'
    BY <1>1 DEF ViewTyped, TypedRequests, Fits, CallRecords
  <1>5. Paging'
    BY <1>1, PagingKept DEF ViewTyped, Outstanding
  <1> QED BY <1>2, <1>3, <1>4, <1>5 DEF ViewTyped

\* What an answer to the last folder request makes of the view.
ListedLoading(c, p) ==
    /\ cursor' = NextCursor(p, 1) /\ pages' = <<Page(c, p)>> /\ mixed' = FALSE
    /\ initialPath # p
    /\ LoadOf(share, initialPath, requests \ {c})

ListedShown(c, p) ==
    /\ cursor' = NextCursor(p, 1) /\ pages' = <<Page(c, p)>> /\ mixed' = FALSE
    /\ initialPath = p /\ folder' = p /\ requested' = p /\ loading' = FALSE
    /\ requests' = requests \ {c}
    /\ UNCHANGED <<loads, errored, switched>>

LEMMA EntriesAnswerMakes ==
    ASSUME BrowserAssumption, ViewTyped, NEW c \in requests, EntriesAnswer(c)
    PROVE  /\ c.kind = "entries" /\ Fits(c) /\ share \in Slugs /\ initialPath \in Folders
           /\ initialPath = folder
           /\ UNCHANGED <<props, loadingMore, dialog>>
           /\ \/ /\ c.id = loads
                 /\ \E p \in Folders : p = Canonical[c.path]
                                       /\ (ListedLoading(c, p) \/ ListedShown(c, p))
              \/ c.id = loads /\ LoadFailed(c)
              \/ c.id # loads /\ requests' = requests \ {c} /\ UNCHANGED <<listing, switched, mixed>>
  <1>1. c.kind = "entries" /\ Fits(c) /\ UNCHANGED <<props, loadingMore, dialog>>
    BY DEF EntriesAnswer, Outstanding, ViewTyped, TypedRequests
  <1>2. share \in Slugs /\ initialPath \in Folders /\ initialPath = folder
    BY DEF ViewTyped, TypedListing, Mounted
  <1>3. Canonical[c.path] \in Folders
    BY <1>1 DEF Fits, BrowserAssumption
  <1>4. CASE c.id = loads /\ Listed(c)
    <2>1. PICK p \in Folders : p = Canonical[c.path]
      BY <1>3
    <2>2. ListedLoading(c, p) \/ ListedShown(c, p)
      BY <1>4, <2>1 DEF Listed, ListedLoading, ListedShown
    <2> QED BY <1>1, <1>2, <1>4, <2>1, <2>2
  <1>5. CASE c.id = loads /\ LoadFailed(c)
    BY <1>1, <1>2, <1>5
  <1>6. CASE c.id # loads /\ NoLoad(requests \ {c}) /\ UNCHANGED <<switched, mixed>>
    BY <1>1, <1>2, <1>6 DEF NoLoad
  <1> QED BY <1>4, <1>5, <1>6 DEF EntriesAnswer, Latest

(* The first page of a listing.                                            *)
LEMMA FirstPage ==
    ASSUME BrowserAssumption, NEW c, Fits(c), c.kind \in {"entries", "more"}, NEW p \in Folders
    PROVE  /\ Page(c, p) \in PageRecords /\ <<Page(c, p)>> \in Seq(PageRecords)
           /\ Page(c, p).share = c.share /\ Page(c, p).path = p /\ Page(c, p).page = c.page
           /\ \A n \in Nat : NextCursor(p, n) \in Nat
  <1>1. c.share \in Slugs /\ c.page \in Nat \ {0}
    BY RequestType DEF Fits
  <1>2. Page(c, p) \in PageRecords
    BY <1>1 DEF Page, PageRecords
  <1>3. \A n \in Nat : NextCursor(p, n) \in Nat
    BY DEF NextCursor
  <1> QED BY <1>2, <1>3 DEF Page

LEMMA EntriesAnswerTyped ==
    ASSUME ViewTyped, NEW c \in requests, EntriesAnswer(c)
    PROVE  ViewTyped'
  <1> USE BrowserAssumption
  <1>1. /\ c.kind = "entries" /\ Fits(c) /\ share \in Slugs /\ initialPath \in Folders
        /\ initialPath = folder
        /\ UNCHANGED <<props, loadingMore, dialog>>
    BY EntriesAnswerMakes
  <1>2. TypedDialog'
    BY <1>1 DEF ViewTyped, TypedDialog, dialog
  <1>3. \A d \in requests \ {c} : Fits(d)
    BY DEF ViewTyped, TypedRequests
  <1>4. share' # Null
    BY <1>1 DEF BrowserAssumption, props
  <1>5. ASSUME requests' = requests \ {c}
        PROVE  TypedRequests' /\ Paging'
    <2>1. TypedRequests'
      BY <1>3, <1>5 DEF TypedRequests, Fits, CallRecords
    <2>2. Paging'
      BY <1>1, <1>5, PagingKept DEF ViewTyped
    <2> QED BY <2>1, <2>2
  <1>6. ASSUME NEW p \in Folders, p = Canonical[c.path], ListedLoading(c, p)
        PROVE  ViewTyped'
    <2>o. PICK others : others = requests \ {c}
      OBVIOUS
    <2>s. PICK s \in Slugs : s = share
      BY <1>1
    <2>q. PICK q \in Folders : q = initialPath
      BY <1>1
    <2>1. others = requests \ {c} /\ s = share /\ q = initialPath
      BY <2>o, <2>s, <2>q
    <2>2. LoadOf(s, q, others) /\ \A d \in others : Fits(d)
      BY <1>3, <1>6, <2>1 DEF ListedLoading
    <2>3. PICK n \in CallRecords :
              /\ n.kind = "entries" /\ n.id = loads + 1 /\ n.share = s /\ n.path = q
              /\ n.page = 1
              /\ requests' = others \cup {n}
              /\ loads' = loads + 1 /\ loads' \in Nat /\ loads' <= MaxLoads
              /\ TypedRequests'
      BY <2>2, LoadMade
    <2>4. folder' = q /\ requested' = q /\ loading' = TRUE /\ errored' = FALSE
          /\ switched' = FALSE
      BY <2>2 DEF LoadOf
    <2>5. cursor' \in Nat /\ pages' \in Seq(PageRecords) /\ mixed' = FALSE
      BY <1>1, <1>6, FirstPage DEF ListedLoading
    <2>6. TypedListing'
      BY <1>1, <2>1, <2>3, <2>4, <2>5 DEF ViewTyped, TypedListing, props
    <2>7. TypedSigns'
      BY <1>1, <2>4, <2>5 DEF ViewTyped, TypedSigns, dialog
    <2>8. Mounted'
      BY <1>1, <1>4, <2>1, <2>4 DEF Mounted, props
    <2>9. Paging'
      BY <1>1, <2>1, <2>3, PagingKept DEF ViewTyped
    <2> QED BY <1>2, <2>3, <2>6, <2>7, <2>8, <2>9 DEF ViewTyped
  <1>7. ASSUME NEW p \in Folders, p = Canonical[c.path], ListedShown(c, p)
        PROVE  ViewTyped'
    <2>1. cursor' \in Nat /\ pages' \in Seq(PageRecords) /\ mixed' = FALSE
      BY <1>1, <1>7, FirstPage DEF ListedShown
    <2>2. TypedListing'
      BY <1>1, <1>7, <2>1 DEF ViewTyped, TypedListing, ListedShown, props
    <2>3. TypedSigns'
      BY <1>1, <1>7, <2>1 DEF ViewTyped, TypedSigns, ListedShown, dialog
    <2>4. Mounted'
      BY <1>1, <1>4, <1>7 DEF Mounted, ListedShown, props
    <2>5. TypedRequests' /\ Paging'
      BY <1>5, <1>7 DEF ListedShown
    <2> QED BY <1>2, <2>2, <2>3, <2>4, <2>5 DEF ViewTyped
  <1>8. CASE LoadFailed(c)
    <2>1. TypedListing' /\ TypedSigns'
      BY <1>1, <1>8 DEF ViewTyped, TypedListing, TypedSigns, LoadFailed, props, dialog
    <2>2. Mounted'
      BY <1>1, <1>4, <1>8 DEF ViewTyped, Mounted, LoadFailed, props
    <2>3. TypedRequests' /\ Paging'
      BY <1>5, <1>8 DEF LoadFailed
    <2> QED BY <1>2, <2>1, <2>2, <2>3 DEF ViewTyped
  <1>9. CASE requests' = requests \ {c} /\ UNCHANGED <<listing, switched, mixed>>
    <2>1. TypedListing' /\ TypedSigns'
      BY <1>1, <1>9 DEF ViewTyped, TypedListing, TypedSigns, listing, props, dialog
    <2>2. Mounted'
      BY <1>1, <1>4, <1>9 DEF ViewTyped, Mounted, listing, props
    <2>3. TypedRequests' /\ Paging'
      BY <1>5, <1>9
    <2> QED BY <1>2, <2>1, <2>2, <2>3 DEF ViewTyped
  <1> QED BY <1>6, <1>7, <1>8, <1>9, EntriesAnswerMakes

\* What an answer for a further page makes of the view.
LEMMA MoreAnswerMakes ==
    ASSUME BrowserAssumption, ViewTyped, NEW c \in requests, MoreAnswer(c)
    PROVE  /\ c.kind = "more" /\ Fits(c) /\ loadingMore' = FALSE
           /\ requests' = requests \ {c}
           /\ UNCHANGED <<props, folder, requested, loads, loading, dialog, switched>>
           /\ \/ \E p \in Folders : /\ p = Canonical[c.path]
                                    /\ pages' = Append(pages, Page(c, p))
                                    /\ cursor' = NextCursor(p, c.page)
                                    /\ mixed' = (mixed \/ c.since # loads)
                                    /\ UNCHANGED errored
              \/ errored' = TRUE /\ UNCHANGED <<pages, cursor, mixed>>
  <1>1. c.kind = "more" /\ Fits(c)
    BY DEF MoreAnswer, Outstanding, ViewTyped, TypedRequests
  <1>2. Canonical[c.path] \in Folders
    BY <1>1 DEF Fits, BrowserAssumption
  <1>3. PICK p \in Folders : p = Canonical[c.path]
    BY <1>2
  <1> QED BY <1>1, <1>3 DEF MoreAnswer

LEMMA MoreAnswerTyped ==
    ASSUME ViewTyped, NEW c \in requests, MoreAnswer(c)
    PROVE  ViewTyped'
  <1>1. /\ c.kind = "more" /\ Fits(c) /\ loadingMore' = FALSE
        /\ requests' = requests \ {c}
        /\ UNCHANGED <<props, folder, requested, loads, loading, dialog, switched>>
    BY BrowserAssumption, MoreAnswerMakes
  <1>2. pages' \in Seq(PageRecords) /\ cursor' \in Nat /\ mixed' \in BOOLEAN /\ errored' \in BOOLEAN
    <2>1. ASSUME NEW p \in Folders, pages' = Append(pages, Page(c, p)),
                 cursor' = NextCursor(p, c.page), mixed' = (mixed \/ c.since # loads),
                 UNCHANGED errored
          PROVE  pages' \in Seq(PageRecords) /\ cursor' \in Nat /\ mixed' \in BOOLEAN
                 /\ errored' \in BOOLEAN
      <3>1. c.page \in Nat
        BY <1>1, RequestType DEF Fits
      <3>2. Page(c, p) \in PageRecords /\ NextCursor(p, c.page) \in Nat
        BY <1>1, <3>1, BrowserAssumption, FirstPage
      <3>3. PICK page \in PageRecords : page = Page(c, p)
        BY <3>2
      <3>4. pages' = Append(pages, page)
        BY <2>1, <3>3
      <3>5. pages' \in Seq(PageRecords)
        BY <3>4 DEF ViewTyped, TypedListing
      <3> QED BY <2>1, <3>2, <3>5 DEF ViewTyped, TypedSigns
    <2>2. CASE errored' = TRUE /\ UNCHANGED <<pages, cursor, mixed>>
      BY <2>2 DEF ViewTyped, TypedListing, TypedSigns
    <2> QED BY <2>1, <2>2, BrowserAssumption, MoreAnswerMakes
  <1>3. TypedListing' /\ TypedDialog' /\ TypedSigns'
    BY <1>1, <1>2 DEF ViewTyped, TypedListing, TypedDialog, TypedSigns, props, dialog
  <1>4. Mounted'
    BY <1>1 DEF ViewTyped, Mounted, props, dialog
  <1>5. TypedRequests'
    BY <1>1 DEF ViewTyped, TypedRequests, Fits, CallRecords
  <1>6. Paging'
    <2>1. Outstanding("more")' = Outstanding("more") \ {c} /\ c \in Outstanding("more")
      BY <1>1 DEF Outstanding
    <2>2. PICK S : S = Outstanding("more")
      OBVIOUS
    <2>3. PICK T : T = Outstanding("more")'
      OBVIOUS
    <2>4. PICK flag : flag = loadingMore
      OBVIOUS
    <2>5. Owed(flag, S) /\ c \in S /\ T = S \ {c}
      BY <2>1, <2>2, <2>3, <2>4 DEF ViewTyped, Paging
    <2>6. Owed(FALSE, T)
      BY <2>5, OwedEnded
    <2> QED BY <1>1, <2>3, <2>6 DEF Paging, Owed
  <1> QED BY <1>3, <1>4, <1>5, <1>6 DEF ViewTyped

\* What an answer about the entry of a row makes of the view.
LEMMA MetadataAnswerMakes ==
    ASSUME BrowserAssumption, ViewTyped, NEW c \in requests, MetadataAnswer(c)
    PROVE  /\ c.kind = "metadata" /\ Fits(c) /\ c.path \in Files /\ share \in Slugs
           /\ UNCHANGED <<props, folder, requested, loads, cursor, pages, loading>>
           /\ UNCHANGED <<loadingMore, switched, mixed>>
           /\ \/ \E T : /\ \A d \in T : /\ Fits(d) /\ d.kind = "text"
                                        /\ d.share = share /\ d.path = c.path
                        /\ preview' = c.path
                        /\ ReadText(share, c.path)
                        /\ requests' = (requests \ {c}) \cup T
                        /\ replaced' = (replaced \/ preview # Null)
                        /\ UNCHANGED errored
              \/ errored' = TRUE /\ requests' = requests \ {c} /\ UNCHANGED dialog
  <1>1. c.kind = "metadata" /\ Fits(c) /\ c.path \in Files
    BY DEF MetadataAnswer, Outstanding, ViewTyped, TypedRequests, Fits
  <1>2. share \in Slugs /\ loads \in Nat
    BY DEF ViewTyped, TypedListing, Mounted
  <1>3. PICK s \in Slugs : s = share
    BY <1>2
  <1>4. PICK e \in Files : e = c.path
    BY <1>1
  <1>5. \A d \in Texts(s, e) : d \in CallRecords /\ d.kind = "text" /\ d.share = s /\ d.path = e
    BY <1>2, TextsMade
  <1>6. \A d \in Texts(s, e) : Fits(d)
    BY <1>5 DEF Fits
  <1>7. PICK T : T = Texts(s, e)
    OBVIOUS
  <1>8. T = Texts(share, c.path)
        /\ \A d \in T : Fits(d) /\ d.kind = "text" /\ d.share = share /\ d.path = c.path
    BY <1>3, <1>4, <1>5, <1>6, <1>7
  <1> QED BY <1>1, <1>2, <1>8 DEF MetadataAnswer

LEMMA MetadataAnswerTyped ==
    ASSUME ViewTyped, NEW c \in requests, MetadataAnswer(c)
    PROVE  ViewTyped'
  <1>1. /\ c.kind = "metadata" /\ c.path \in Files /\ share \in Slugs
        /\ UNCHANGED <<props, folder, requested, loads, cursor, pages, loading>>
        /\ UNCHANGED <<loadingMore, switched, mixed>>
    BY BrowserAssumption, MetadataAnswerMakes
  <1>2. share' # Null /\ TypedListing'
    BY <1>1, BrowserAssumption DEF ViewTyped, TypedListing, BrowserAssumption, props
  <1>3. Mounted'
    BY <1>1, <1>2 DEF ViewTyped, Mounted, props
  <1>4. ASSUME NEW T, \A d \in T : Fits(d) /\ d.kind = "text" /\ d.share = share /\ d.path = c.path,
               preview' = c.path, ReadText(share, c.path), requests' = (requests \ {c}) \cup T,
               replaced' = (replaced \/ preview # Null), UNCHANGED errored
        PROVE  ViewTyped'
    <2>1. PICK s : s = share
      OBVIOUS
    <2>2. PICK e : e = c.path
      OBVIOUS
    <2>3. ReadText(s, e)
      BY <1>4, <2>1, <2>2
    <2>4. /\ text' \in [share : Slugs, path : Files] \cup {Null}
          /\ textLoading' \in BOOLEAN /\ textFailed' \in BOOLEAN
      BY <2>3, ReadTextTyped
    <2>5. replaced' \in BOOLEAN
      BY <1>4
    <2>6. TypedDialog' /\ TypedSigns'
      BY <1>1, <1>4, <2>4, <2>5 DEF ViewTyped, TypedDialog, TypedSigns
    <2>7. TypedRequests'
      BY <1>4 DEF ViewTyped, TypedRequests, Fits, CallRecords
    <2>8. Paging'
      BY <1>1, <1>4, PagingKept DEF ViewTyped
    <2> QED BY <1>2, <1>3, <2>6, <2>7, <2>8 DEF ViewTyped
  <1>5. CASE errored' = TRUE /\ requests' = requests \ {c} /\ UNCHANGED dialog
    <2>1. TypedDialog' /\ TypedSigns'
      BY <1>1, <1>5 DEF ViewTyped, TypedDialog, TypedSigns, dialog
    <2>2. TypedRequests'
      BY <1>5 DEF ViewTyped, TypedRequests, Fits, CallRecords
    <2>3. Paging'
      BY <1>1, <1>5, PagingKept DEF ViewTyped
    <2> QED BY <1>2, <1>3, <2>1, <2>2, <2>3 DEF ViewTyped
  <1> QED BY <1>4, <1>5, BrowserAssumption, MetadataAnswerMakes

LEMMA TextAnswerTyped ==
    ASSUME ViewTyped, NEW c \in requests, TextAnswer(c)
    PROVE  /\ ViewTyped'
           /\ c.kind = "text" /\ Fits(c)
  <1>1. /\ c.kind = "text" /\ Fits(c) /\ requests' = requests \ {c} /\ textLoading' = FALSE
        /\ UNCHANGED <<props, listing, loadingMore, preview, replaced>>
        /\ UNCHANGED <<switched, mixed>>
    BY DEF TextAnswer, Outstanding, ViewTyped, TypedRequests
  <1>2. c.share \in Slugs /\ c.path \in Files
    BY <1>1, RequestType DEF Fits
  <1>3. text' \in [share : Slugs, path : Files] \cup {Null} /\ textFailed' \in BOOLEAN
    <2>1. [share |-> c.share, path |-> c.path] \in [share : Slugs, path : Files]
      BY <1>2
    <2>2. textFailed \in BOOLEAN /\ text \in [share : Slugs, path : Files] \cup {Null}
      BY DEF ViewTyped, TypedDialog, TypedSigns
    <2>3. \/ text' = [share |-> c.share, path |-> c.path] /\ textFailed' = textFailed
          \/ textFailed' = TRUE /\ text' = text
      BY DEF TextAnswer
    <2> QED BY <2>1, <2>2, <2>3
  <1>4. TypedListing' /\ TypedDialog' /\ TypedSigns'
    BY <1>1, <1>3 DEF ViewTyped, TypedListing, TypedDialog, TypedSigns, props, listing
  <1>5. Mounted'
    BY <1>1 DEF ViewTyped, Mounted, props, listing
  <1>6. TypedRequests'
    BY <1>1 DEF ViewTyped, TypedRequests, Fits, CallRecords
  <1>7. Paging'
    BY <1>1, PagingKept DEF ViewTyped
  <1> QED BY <1>1, <1>4, <1>5, <1>6, <1>7 DEF ViewTyped

LEMMA ViewIdleTyped ==
    ASSUME ViewTyped, UNCHANGED viewVars
    PROVE  ViewTyped'
  <1>1. TypedListing' /\ TypedDialog' /\ TypedSigns' /\ TypedRequests' /\ Mounted'
    BY DEF ViewTyped, TypedListing, TypedDialog, TypedSigns, TypedRequests, Fits, CallRecords,
           Mounted, viewVars, props, listing, dialog
  <1>2. Paging'
    BY PagingKept DEF ViewTyped, viewVars
  <1> QED BY <1>1, <1>2 DEF ViewTyped

LEMMA NextViewTyped == ViewTyped /\ [ViewNext]_viewVars => ViewTyped'
  <1> SUFFICES ASSUME ViewTyped, [ViewNext]_viewVars
               PROVE  ViewTyped'
    OBVIOUS
  <1>1. ASSUME NEW s \in Slugs, NEW p \in Folders, Mount(s, p)
        PROVE  ViewTyped'
    BY <1>1, MountTyped
  <1>2. ASSUME NEW s \in Slugs, NEW p \in Folders, ChangeProps(s, p)
        PROVE  ViewTyped'
    BY <1>2, ChangePropsTyped
  <1>3. CASE Unmount
    BY <1>3, UnmountTyped
  <1>4. CASE Refresh
    BY <1>4, RefreshTyped
  <1>5. CASE LoadMore
    BY <1>5, LoadMoreTyped
  <1>6. ASSUME NEW e \in Files, OpenFile(e)
        PROVE  ViewTyped'
    BY <1>6, OpenFileTyped
  <1>7. CASE ClosePreview
    BY <1>7, ClosePreviewTyped
  <1>8. ASSUME NEW c \in requests, ViewAnswer(c)
        PROVE  ViewTyped'
    BY <1>8, EntriesAnswerTyped, MoreAnswerTyped, MetadataAnswerTyped, TextAnswerTyped
       DEF ViewAnswer
  <1>9. CASE UNCHANGED viewVars
    BY <1>9, ViewIdleTyped
  <1> QED BY <1>1, <1>2, <1>3, <1>4, <1>5, <1>6, <1>7, <1>8, <1>9 DEF ViewNext

LEMMA AlwaysViewTyped == ViewSpec => []ViewTyped
  BY InitViewTyped, NextViewTyped, PTL DEF ViewSpec

(* The view keeps its types, and reads at most one further page at a time: *)
(* the button is disabled exactly while the request that J sent is open.   *)
THEOREM ViewTypeCorrect == ViewSpec => []ViewTypeOK
  <1>1. ViewTyped => ViewTypeOK
    <2> SUFFICES ASSUME ViewTyped
                 PROVE  ViewTypeOK
      OBVIOUS
    <2>1. loads \in 0..MaxLoads
      BY BrowserAssumption DEF ViewTyped, TypedListing, BrowserAssumption
    <2>2. requests \subseteq CallRecords
      BY DEF ViewTyped, TypedRequests, Fits
    <2>3. loadingMore = (Outstanding("more") # {})
      BY DEF ViewTyped, TypedSigns, Paging, Owed
    <2>4. PICK S : S = Outstanding("more")
      OBVIOUS
    <2>5. Cardinality(S) <= 1
      BY <2>4, AtMostOne DEF ViewTyped, Paging, Owed
    <2>6. Cardinality(Outstanding("more")) <= 1
      BY <2>4, <2>5
    <2> QED BY <2>1, <2>2, <2>3, <2>6
            DEF ViewTyped, TypedListing, TypedDialog, TypedSigns, ViewTypeOK
  <1> QED BY <1>1, AlwaysViewTyped, PTL

-----------------------------------------------------------------------------
(* What the steps of the view do to the listing: they ask for a folder,    *)
(* take the view down, show a first page, ask for a further page, append   *)
(* one, or leave the listing alone.                                        *)

Listings(d) == d.kind \in {"entries", "more"}

AsksForFolder ==
    \E n : /\ n.kind = "entries" /\ n.id = loads' /\ n.page = 1
           /\ n.path = folder' /\ n.share = share'
           /\ n \in requests'
           /\ \A d \in requests' : Listings(d) => d = n \/ d \in requests
           /\ loads' = loads + 1 /\ loading' = TRUE

TakenDown == share' = Null /\ requests' = {}

ShowsFirst ==
    \E c \in requests :
        /\ c.kind = "entries" /\ c.id = loads
        /\ Canonical[c.path] = folder /\ folder \in Folders
        /\ cursor' = NextCursor(folder, 1) /\ pages' = <<Page(c, folder)>> /\ mixed' = FALSE
        /\ loading' = FALSE
        /\ requests' = requests \ {c}
        /\ UNCHANGED <<share, folder, loads, errored, switched>>

AsksForMore ==
    \E n : /\ n.kind = "more" /\ n.share = share /\ n.path = folder
           /\ n.page = cursor /\ n.since = loads
           /\ requests' = requests \cup {n}
           /\ loading = FALSE
           /\ UNCHANGED <<share, listing, switched, mixed>>

Appends ==
    \E c \in requests : \E p \in Folders :
        /\ c.kind = "more" /\ Fits(c) /\ p = Canonical[c.path]
        /\ pages' = Append(pages, Page(c, p)) /\ cursor' = NextCursor(p, c.page)
        /\ mixed' = (mixed \/ c.since # loads)
        /\ requests' = requests \ {c}
        /\ UNCHANGED <<share, folder, loads, loading, errored, switched>>

LeavesListing ==
    /\ \A d \in requests' : Listings(d) => d \in requests
    /\ \/ loading' = loading
       \/ loading' = FALSE /\ \A d \in requests' : d.kind = "entries" => d.id # loads
    /\ \/ errored' = errored /\ loading' = loading
       \/ errored' = TRUE
    /\ \/ share' = share /\ switched' = switched
       \/ share # Null /\ switched' = TRUE
    /\ UNCHANGED <<folder, loads, cursor, pages, mixed>>

ListingStep ==
    AsksForFolder \/ TakenDown \/ ShowsFirst \/ AsksForMore \/ Appends \/ LeavesListing

\* Folder requests are numbered, each once; only the last one is still for the
\* folder and the share on show, and only while the view is loading.  No
\* further page has been asked for since.
Numbered ==
    /\ \A c \in Outstanding("entries") : c.id <= loads /\ c.page = 1
    /\ \A c, d \in Outstanding("entries") : c.id = d.id => c = d
    /\ \A c \in Outstanding("entries") : c.id = loads =>
          loading = TRUE /\ c.path = folder /\ (switched = FALSE => c.share = share)
    /\ \A c \in Outstanding("more") :
          c.since <= loads /\ (loading = TRUE => c.since # loads)

LEMMA AsksForFolderOf ==
    ASSUME BrowserAssumption, ViewTyped, NEW s \in Slugs, NEW p \in Folders, NEW others,
           \A d \in others : Fits(d) /\ (d \in requests \/ d.kind = "text"),
           LoadOf(s, p, others), share' = s
    PROVE  AsksForFolder
  <1>1. PICK n \in CallRecords :
              /\ n.kind = "entries" /\ n.id = loads + 1 /\ n.share = s /\ n.path = p
              /\ n.page = 1
              /\ requests' = others \cup {n}
              /\ loads' = loads + 1 /\ loads' \in Nat /\ loads' <= MaxLoads
              /\ TypedRequests'
    BY LoadMade
  <1>2. folder' = p /\ loading' = TRUE
    BY DEF LoadOf
  <1> QED BY <1>1, <1>2 DEF AsksForFolder, Listings

(* Answers to folder requests.                                             *)
LEMMA EntriesAnswerLists ==
    ASSUME ViewTyped, NEW c \in requests, EntriesAnswer(c), Numbered
    PROVE  AsksForFolder \/ ShowsFirst \/ LeavesListing
  <1> USE BrowserAssumption
  <1>1. /\ c.kind = "entries" /\ Fits(c) /\ share \in Slugs /\ initialPath \in Folders
        /\ initialPath = folder
        /\ UNCHANGED <<props, loadingMore, dialog>>
    BY EntriesAnswerMakes
  <1>2. ASSUME NEW p \in Folders, p = Canonical[c.path], ListedLoading(c, p)
        PROVE  AsksForFolder
    <2>1. PICK others : others = requests \ {c}
      OBVIOUS
    <2>2. PICK s \in Slugs : s = share
      BY <1>1
    <2>3. PICK q \in Folders : q = initialPath
      BY <1>1
    <2>4. LoadOf(s, q, others) /\ share' = s
      BY <1>1, <1>2, <2>1, <2>2, <2>3 DEF ListedLoading, props
    <2>5. \A d \in others : Fits(d) /\ (d \in requests \/ d.kind = "text")
      BY <2>1 DEF ViewTyped, TypedRequests
    <2> QED BY <2>4, <2>5, AsksForFolderOf
  <1>3. ASSUME NEW p \in Folders, p = Canonical[c.path], ListedShown(c, p), c.id = loads
        PROVE  ShowsFirst
    BY <1>1, <1>3 DEF ListedShown, ShowsFirst, props
  <1>4. CASE c.id = loads /\ LoadFailed(c)
    <2>1. /\ errored' = TRUE /\ loading' = FALSE /\ requests' = requests \ {c}
          /\ UNCHANGED <<share, folder, loads, cursor, pages, switched, mixed>>
      BY <1>1, <1>4 DEF LoadFailed, props
    <2>2. \A d \in requests' : d.kind = "entries" => d.id # loads
      BY <1>1, <1>4, <2>1 DEF Numbered, Outstanding
    <2> QED BY <2>1, <2>2 DEF LeavesListing
  <1>5. CASE requests' = requests \ {c} /\ UNCHANGED <<listing, switched, mixed>>
    BY <1>1, <1>5 DEF LeavesListing, listing, props
  <1> QED BY <1>2, <1>3, <1>4, <1>5, EntriesAnswerMakes

LEMMA ViewStepLists ==
    ASSUME ViewTyped, Numbered, [ViewNext]_viewVars
    PROVE  ListingStep
  <1>1. ASSUME NEW s \in Slugs, NEW p \in Folders, Mount(s, p)
        PROVE  AsksForFolder
    <2>1. LoadOf(s, p, requests) /\ share' = s
      BY <1>1 DEF Mount, Load
    <2>2. \A d \in requests : Fits(d)
      BY DEF ViewTyped, TypedRequests
    <2> QED BY <2>1, <2>2, BrowserAssumption, AsksForFolderOf
  <1>2. ASSUME NEW s \in Slugs, NEW p \in Folders, ChangeProps(s, p)
        PROVE  AsksForFolder \/ LeavesListing
    <2>1. share # Null /\ share' = s
      BY <1>2, ChangePropsMakes
    <2>2. \A d \in Beside(s) : Fits(d) /\ (d \in requests \/ d.kind = "text")
      BY BesideMade
    <2>3. PICK others : others = Beside(s)
      OBVIOUS
    <2>4. CASE Load(s, p, Beside(s))
      <3>1. LoadOf(s, p, others)
        BY <2>3, <2>4 DEF Load
      <3> QED BY <2>1, <2>2, <2>3, <3>1, BrowserAssumption, AsksForFolderOf
    <2>5. CASE NoLoad(Beside(s)) /\ UNCHANGED mixed /\ switched' = (switched \/ s # share)
      <3>1. requests' = others /\ UNCHANGED <<listing, mixed>>
        BY <2>3, <2>5 DEF NoLoad
      <3>2. \A d \in requests' : Listings(d) => d \in requests
        BY <2>2, <2>3, <3>1 DEF Listings
      <3>3. \/ share' = share /\ switched' = switched
            \/ share # Null /\ switched' = TRUE
        <4>1. switched \in BOOLEAN
          BY DEF ViewTyped, TypedSigns
        <4>2. CASE s = share
          BY <2>1, <2>5, <4>1, <4>2
        <4>3. CASE s # share
          BY <2>1, <2>5, <4>3
        <4> QED BY <4>2, <4>3
      <3> QED BY <3>1, <3>2, <3>3 DEF LeavesListing, listing
    <2> QED BY <1>2, <2>4, <2>5, ChangePropsMakes
  <1>3. CASE Unmount
    BY <1>3 DEF Unmount, TakenDown, ListingStep
  <1>4. CASE Refresh
    <2>1. share # Null /\ LoadOf(share, folder, requests) /\ UNCHANGED props
      BY <1>4 DEF Refresh, Load
    <2>2. share \in Slugs /\ folder \in Folders
      BY <2>1 DEF ViewTyped, TypedListing, Mounted
    <2>3. PICK s \in Slugs : s = share
      BY <2>2
    <2>4. PICK p \in Folders : p = folder
      BY <2>2
    <2>5. LoadOf(s, p, requests) /\ share' = s
      BY <2>1, <2>3, <2>4 DEF props
    <2>6. \A d \in requests : Fits(d)
      BY DEF ViewTyped, TypedRequests
    <2> QED BY <2>5, <2>6, BrowserAssumption, AsksForFolderOf DEF ListingStep
  <1>5. CASE LoadMore
    <2>1. PICK n : /\ Fits(n)
                   /\ n.kind = "more" /\ n.share = share /\ n.path = folder
                   /\ n.page = cursor /\ n.since = loads
                   /\ requests' = requests \cup {n}
      BY <1>5, MoreMade
    <2>2. loading = FALSE /\ UNCHANGED <<share, listing, switched, mixed>>
      BY <1>5 DEF LoadMore, ViewTyped, TypedSigns, props
    <2>3. AsksForMore
      BY <2>1, <2>2 DEF AsksForMore
    <2> QED BY <2>3 DEF ListingStep
  <1>6. ASSUME NEW e \in Files, OpenFile(e)
        PROVE  LeavesListing
    <2>1. PICK n : n.kind = "metadata" /\ requests' = requests \cup {n}
      BY <1>6, OpenFileTyped
    <2>2. UNCHANGED <<share, listing, switched, mixed>>
      BY <1>6 DEF OpenFile, props
    <2> QED BY <2>1, <2>2 DEF LeavesListing, Listings, listing
  <1>7. CASE ClosePreview
    <2>1. LeavesListing
      BY <1>7 DEF ClosePreview, LeavesListing, props, listing
    <2> QED BY <2>1 DEF ListingStep
  <1>8. ASSUME NEW c \in requests, EntriesAnswer(c)
        PROVE  AsksForFolder \/ ShowsFirst \/ LeavesListing
    BY <1>8, EntriesAnswerLists
  <1>9. ASSUME NEW c \in requests, MoreAnswer(c)
        PROVE  Appends \/ LeavesListing
    <2>1. /\ c.kind = "more" /\ Fits(c) /\ requests' = requests \ {c}
          /\ UNCHANGED <<share, folder, loads, loading, switched>>
          /\ \/ \E p \in Folders : /\ p = Canonical[c.path]
                                   /\ pages' = Append(pages, Page(c, p))
                                   /\ cursor' = NextCursor(p, c.page)
                                   /\ mixed' = (mixed \/ c.since # loads)
                                   /\ UNCHANGED errored
             \/ errored' = TRUE /\ UNCHANGED <<pages, cursor, mixed>>
      BY <1>9, BrowserAssumption, MoreAnswerMakes DEF props
    <2>2. CASE errored' = TRUE /\ UNCHANGED <<pages, cursor, mixed>>
      BY <2>1, <2>2 DEF LeavesListing
    <2>3. ASSUME NEW p \in Folders, p = Canonical[c.path],
                 pages' = Append(pages, Page(c, p)), cursor' = NextCursor(p, c.page),
                 mixed' = (mixed \/ c.since # loads), UNCHANGED errored
          PROVE  Appends
      BY <2>1, <2>3 DEF Appends
    <2> QED BY <2>1, <2>2, <2>3
  <1>10. ASSUME NEW c \in requests, MetadataAnswer(c)
         PROVE  LeavesListing
    <2>1. UNCHANGED <<share, folder, loads, cursor, pages, loading, switched, mixed>>
      BY <1>10 DEF MetadataAnswer, props
    <2>2. /\ \A d \in requests' : Listings(d) => d \in requests
          /\ errored' = errored \/ errored' = TRUE
      BY <1>10, BrowserAssumption, MetadataAnswerMakes DEF Listings
    <2> QED BY <2>1, <2>2 DEF LeavesListing
  <1>11. ASSUME NEW c \in requests, TextAnswer(c)
         PROVE  LeavesListing
    BY <1>11 DEF TextAnswer, LeavesListing, props, listing
  <1>12. CASE UNCHANGED viewVars
    <2>1. LeavesListing
      BY <1>12 DEF LeavesListing, viewVars, props, listing
    <2> QED BY <2>1 DEF ListingStep
  <1> QED BY <1>1, <1>2, <1>3, <1>4, <1>5, <1>6, <1>7, <1>8, <1>9, <1>10, <1>11, <1>12
          DEF ViewNext, ViewAnswer, ListingStep

-----------------------------------------------------------------------------
(* The listing.                                                            *)

\* A view that has settled shows its folder, by the name the service uses.
FirstShown ==
    ViewSettled =>
        /\ pages # <<>> /\ Head(pages).path = folder /\ Canonical[folder] = folder
        /\ switched = FALSE => Head(pages).share = share

\* A further page that was asked for since continues the listing.
Continued ==
    ViewSettled /\ switched = FALSE =>
        \A c \in Outstanding("more") : c.since = loads =>
            c.share = share /\ c.path = folder /\ c.page = cursor

\* As ListingWhole, page by page.
Gapless ==
    ViewSettled /\ mixed = FALSE /\ switched = FALSE =>
        /\ \A i \in 1..Len(pages) : pages[i].share = share /\ pages[i].path = folder
                                    /\ pages[i].page = i
        /\ cursor = NextCursor(folder, Len(pages))

ListingKept == Numbered /\ FirstShown /\ Continued /\ Gapless

LEMMA AsksKeeps ==
    ASSUME ViewTyped, ListingKept, AsksForFolder
    PROVE  ListingKept'
  <1>1. PICK n : /\ n.kind = "entries" /\ n.id = loads' /\ n.page = 1
                 /\ n.path = folder' /\ n.share = share'
                 /\ n \in requests'
                 /\ \A d \in requests' : Listings(d) => d = n \/ d \in requests
                 /\ loads' = loads + 1 /\ loading' = TRUE
    BY DEF AsksForFolder
  <1>2. loads \in Nat /\ \A d \in requests : d.id \in Nat /\ d.since \in Nat
    BY RequestType DEF ViewTyped, TypedListing, TypedRequests, Fits
  <1>3. Numbered
    BY DEF ListingKept
  <1>4. \A d \in requests' : d.kind = "entries" =>
            d = n \/ (d \in requests /\ d.id <= loads /\ d.page = 1)
    BY <1>1, <1>3 DEF Listings, Numbered, Outstanding
  <1>5. \A d \in requests' : d.kind = "entries" =>
            d = n \/ (d \in requests /\ d.id <= loads' /\ d.id # loads' /\ d.page = 1)
    BY <1>1, <1>2, <1>4
  <1>6. \A d \in requests' : d.kind = "more" => d \in requests /\ d.since <= loads
    BY <1>1, <1>3 DEF Listings, Numbered, Outstanding
  <1>7. \A d \in requests' : d.kind = "more" => d.since <= loads' /\ d.since # loads'
    BY <1>1, <1>2, <1>6
  <1>8. \A d \in requests' : d.kind = "entries" => d.id <= loads' /\ d.page = 1
    <2>1. loads' <= loads'
      BY <1>1, <1>2
    <2> QED BY <1>1, <1>5, <2>1
  <1>9. \A c, d \in requests' : c.kind = "entries" /\ d.kind = "entries" /\ c.id = d.id => c = d
    BY <1>1, <1>3, <1>5 DEF Numbered, Outstanding
  <1>10. \A d \in requests' : d.kind = "entries" /\ d.id = loads' => d = n
    BY <1>5
  <1>11. Numbered'
    BY <1>1, <1>7, <1>8, <1>9, <1>10 DEF Numbered, Outstanding
  <1>12. ~ViewSettled'
    BY <1>1 DEF ViewSettled
  <1> QED BY <1>11, <1>12 DEF ListingKept, FirstShown, Continued, Gapless

LEMMA TakenDownKeeps ==
    ASSUME TakenDown
    PROVE  ListingKept'
  BY DEF TakenDown, ListingKept, Numbered, FirstShown, Continued, Gapless, ViewSettled, Outstanding

LEMMA ShowsFirstKeeps ==
    ASSUME ViewTyped, ListingKept, ShowsFirst
    PROVE  ListingKept'
  <1>1. PICK c \in requests :
        /\ c.kind = "entries" /\ c.id = loads
        /\ Canonical[c.path] = folder /\ folder \in Folders
        /\ cursor' = NextCursor(folder, 1) /\ pages' = <<Page(c, folder)>> /\ mixed' = FALSE
        /\ loading' = FALSE
        /\ requests' = requests \ {c}
        /\ UNCHANGED <<share, folder, loads, errored, switched>>
    BY DEF ShowsFirst
  <1>2. Numbered
    BY DEF ListingKept
  <1>3. /\ loading = TRUE /\ c.path = folder /\ c.page = 1
        /\ switched = FALSE => c.share = share
    BY <1>1, <1>2 DEF Numbered, Outstanding
  <1>4. \A d \in requests' : d.kind = "entries" => d.id # loads
    BY <1>1, <1>2 DEF Numbered, Outstanding
  <1>5. \A d \in requests' : d.kind = "more" => d.since # loads
    BY <1>1, <1>2, <1>3 DEF Numbered, Outstanding
  <1>6. Numbered'
    BY <1>1, <1>2, <1>4 DEF Numbered, Outstanding
  <1>7. Page(c, folder).share = c.share /\ Page(c, folder).path = folder
        /\ Page(c, folder).page = 1
    BY <1>3 DEF Page
  <1>8. PICK first : /\ first = Page(c, folder) /\ first.share = c.share /\ first.path = folder
                     /\ first.page = 1
    BY <1>7
  <1>9. pages' = <<first>> /\ pages' # <<>> /\ Head(pages') = first /\ Len(pages') = 1
        /\ pages'[1] = first
    BY <1>1, <1>8
  <1>10. FirstShown'
    BY <1>1, <1>3, <1>8, <1>9 DEF FirstShown
  <1>11. Continued'
    BY <1>1, <1>5 DEF Continued, Outstanding
  <1>12. Gapless'
    <2>1. \A i \in 1..Len(pages') : i = 1
      BY <1>9
    <2>2. cursor' = NextCursor(folder', Len(pages'))
      BY <1>1, <1>9 DEF NextCursor
    <2> QED BY <1>1, <1>3, <1>8, <1>9, <2>1, <2>2 DEF Gapless, NextCursor
  <1> QED BY <1>6, <1>10, <1>11, <1>12 DEF ListingKept

LEMMA AsksForMoreKeeps ==
    ASSUME ViewTyped, ListingKept, AsksForMore
    PROVE  ListingKept'
  <1>1. PICK n : /\ n.kind = "more" /\ n.share = share /\ n.path = folder
                 /\ n.page = cursor /\ n.since = loads
                 /\ requests' = requests \cup {n}
                 /\ loading = FALSE
                 /\ UNCHANGED <<share, listing, switched, mixed>>
    BY DEF AsksForMore
  <1>2. UNCHANGED <<folder, loads, cursor, pages, loading, errored>> /\ loads \in Nat
    BY <1>1 DEF listing, ViewTyped, TypedListing
  <1>3. loads <= loads
    BY <1>2
  <1>4. Numbered'
    BY <1>1, <1>2, <1>3 DEF ListingKept, Numbered, Outstanding
  <1>5. ViewSettled' = ViewSettled
    BY <1>1, <1>2 DEF ViewSettled
  <1>6. FirstShown'
    BY <1>1, <1>2, <1>5 DEF ListingKept, FirstShown
  <1>7. Continued'
    BY <1>1, <1>2, <1>5 DEF ListingKept, Continued, Outstanding
  <1>8. Gapless'
    BY <1>1, <1>2, <1>5 DEF ListingKept, Gapless, NextCursor
  <1> QED BY <1>4, <1>6, <1>7, <1>8 DEF ListingKept

LEMMA LeavesListingKeeps ==
    ASSUME ViewTyped, ListingKept, LeavesListing
    PROVE  ListingKept'
  <1>1. /\ \A d \in requests' : Listings(d) => d \in requests
        /\ \/ loading' = loading
           \/ loading' = FALSE /\ \A d \in requests' : d.kind = "entries" => d.id # loads
        /\ \/ errored' = errored /\ loading' = loading
           \/ errored' = TRUE
        /\ \/ share' = share /\ switched' = switched
           \/ share # Null /\ switched' = TRUE
        /\ UNCHANGED <<folder, loads, cursor, pages, mixed>>
    BY DEF LeavesListing
  <1>2. Numbered'
    <2>1. \A d \in requests' : d.kind = "entries" => d \in requests
      BY <1>1 DEF Listings
    <2>2. \A d \in requests' : d.kind = "more" => d \in requests
      BY <1>1 DEF Listings
    <2>3. Numbered
      BY DEF ListingKept
    <2>4. \A c \in requests' : c.kind = "entries" /\ c.id = loads =>
            loading' = TRUE /\ c.path = folder /\ (switched' = FALSE => c.share = share')
      BY <1>1, <2>1, <2>3 DEF Numbered, Outstanding
    <2>5. loading' = TRUE => loading = TRUE
      BY <1>1
    <2> QED BY <1>1, <2>1, <2>2, <2>3, <2>4, <2>5 DEF Numbered, Outstanding
  <1>3. ViewSettled' => ViewSettled /\ (switched' = FALSE => share' = share /\ switched = FALSE)
    BY <1>1 DEF ViewSettled
  <1>4. FirstShown'
    BY <1>1, <1>3 DEF ListingKept, FirstShown
  <1>5. Continued'
    BY <1>1, <1>3 DEF ListingKept, Continued, Outstanding, Listings
  <1>6. Gapless'
    BY <1>1, <1>3 DEF ListingKept, Gapless, NextCursor
  <1> QED BY <1>2, <1>4, <1>5, <1>6 DEF ListingKept

(* A further page of the listing on show is the next one.                  *)
LEMMA AppendsKeeps ==
    ASSUME BrowserAssumption, ViewTyped, ListingKept, Appends, ViewTyped'
    PROVE  ListingKept'
  <1>1. PICK c \in requests : \E p \in Folders :
        /\ c.kind = "more" /\ Fits(c) /\ p = Canonical[c.path]
        /\ pages' = Append(pages, Page(c, p)) /\ cursor' = NextCursor(p, c.page)
        /\ mixed' = (mixed \/ c.since # loads)
        /\ requests' = requests \ {c}
        /\ UNCHANGED <<share, folder, loads, loading, errored, switched>>
    BY DEF Appends
  <1>2. PICK p \in Folders :
        /\ c.kind = "more" /\ Fits(c) /\ p = Canonical[c.path]
        /\ pages' = Append(pages, Page(c, p)) /\ cursor' = NextCursor(p, c.page)
        /\ mixed' = (mixed \/ c.since # loads)
        /\ requests' = requests \ {c}
        /\ UNCHANGED <<share, folder, loads, loading, errored, switched>>
    BY <1>1
  <1>3. Numbered'
    BY <1>2 DEF ListingKept, Numbered, Outstanding
  <1>4. Page(c, p) \in PageRecords /\ Page(c, p).share = c.share /\ Page(c, p).path = p
        /\ Page(c, p).page = c.page
    BY <1>2, FirstPage
  <1>5. PICK next \in PageRecords : /\ next = Page(c, p) /\ next.share = c.share
                                    /\ next.path = p /\ next.page = c.page
    BY <1>4
  <1>6. pages \in Seq(PageRecords) /\ loading \in BOOLEAN /\ errored \in BOOLEAN
        /\ mixed \in BOOLEAN /\ mixed' \in BOOLEAN
    BY DEF ViewTyped, TypedListing, TypedSigns
  <1>7. pages' = Append(pages, next)
    BY <1>2, <1>5
  <1>8. /\ Len(pages') = Len(pages) + 1 /\ Len(pages) \in Nat
        /\ pages'[Len(pages) + 1] = next
        /\ \A i \in 1..Len(pages) : pages'[i] = pages[i]
        /\ pages' # <<>>
    BY <1>6, <1>7
  <1>9. pages # <<>> => Head(pages') = Head(pages)
    <2>1. pages # <<>> => 1 \in 1..Len(pages)
      BY <1>6
    <2>2. Head(pages') = pages'[1] /\ (pages # <<>> => Head(pages) = pages[1])
      BY <1>6, <1>7, <1>8
    <2> QED BY <1>8, <2>1, <2>2
  <1>10. ViewSettled' => ViewSettled
    BY <1>2 DEF ViewSettled
  <1>11. FirstShown'
    BY <1>2, <1>8, <1>9, <1>10 DEF ListingKept, FirstShown
  <1>12. Continued'
    <2>1. \A d \in Outstanding("more") : d = c
      BY <1>2 DEF ViewTyped, Paging, Owed, Outstanding
    <2>2. Outstanding("more")' = {}
      BY <1>2, <2>1 DEF Outstanding
    <2> QED BY <2>2 DEF Continued
  <1>13. ASSUME ViewSettled', mixed' = FALSE, switched' = FALSE
         PROVE  /\ \A i \in 1..Len(pages') : pages'[i].share = share' /\ pages'[i].path = folder'
                                             /\ pages'[i].page = i
                /\ cursor' = NextCursor(folder', Len(pages'))
    <2>1. mixed = FALSE /\ c.since = loads
      BY <1>2, <1>6, <1>13
    <2>2. ViewSettled /\ switched = FALSE
      BY <1>2, <1>10, <1>13
    <2>3. /\ c.share = share /\ c.path = folder /\ c.page = cursor
          /\ Canonical[folder] = folder
      BY <1>2, <2>1, <2>2 DEF ListingKept, Continued, FirstShown, Outstanding
    <2>4. /\ \A i \in 1..Len(pages) : pages[i].share = share /\ pages[i].path = folder
                                      /\ pages[i].page = i
          /\ cursor = NextCursor(folder, Len(pages))
      BY <2>1, <2>2 DEF ListingKept, Gapless
    <2>5. c.page # 0
      BY <1>2 DEF Fits
    <2>6. cursor = Len(pages) + 1
      BY <2>3, <2>4, <2>5 DEF NextCursor
    <2>7. p = folder
      BY <1>2, <2>3
    <2>8. next.share = share /\ next.path = folder /\ next.page = Len(pages) + 1
      BY <1>5, <2>3, <2>6, <2>7
    <2>9. \A i \in 1..Len(pages') : i \in 1..Len(pages) \/ i = Len(pages) + 1
      BY <1>8
    <2>10. \A i \in 1..Len(pages') : pages'[i].share = share /\ pages'[i].path = folder
                                     /\ pages'[i].page = i
      BY <1>8, <2>4, <2>8, <2>9
    <2>11. cursor' = NextCursor(folder, Len(pages'))
      BY <1>2, <1>8, <2>3, <2>6, <2>7
    <2>12. folder' = folder /\ share' = share
      BY <1>2
    <2> QED BY <2>10, <2>11, <2>12 DEF NextCursor
  <1>14. Gapless'
    BY <1>13 DEF Gapless, NextCursor
  <1> QED BY <1>3, <1>11, <1>12, <1>14 DEF ListingKept

LEMMA NextListingKept ==
    ViewTyped /\ ViewTyped' /\ ListingKept /\ [ViewNext]_viewVars => ListingKept'
  <1> SUFFICES ASSUME ViewTyped, ViewTyped', ListingKept, [ViewNext]_viewVars
               PROVE  ListingKept'
    OBVIOUS
  <1>1. ListingStep
    BY ViewStepLists DEF ListingKept
  <1> QED BY <1>1, BrowserAssumption, AsksKeeps, TakenDownKeeps, ShowsFirstKeeps,
             AsksForMoreKeeps, AppendsKeeps, LeavesListingKeeps DEF ListingStep

LEMMA AlwaysListingKept == ViewSpec => [](ViewTyped /\ ListingKept)
  <1>1. ViewInit => ListingKept
    BY DEF ViewInit, ListingKept, Numbered, FirstShown, Continued, Gapless, ViewSettled,
           Outstanding
  <1> QED BY <1>1, InitViewTyped, NextViewTyped, NextListingKept, PTL DEF ViewSpec

(* Whatever order answers come in, a view that is not loading and shows no *)
(* error is on the folder the shell asked for, of the right share unless   *)
(* the shell switched it under an unchanged path.                          *)
THEOREM ViewShowsRequested == ViewSpec => []ShowsRequested
  <1>1. ViewTyped /\ ListingKept => ShowsRequested
    BY DEF ViewTyped, Mounted, TypedSigns, ListingKept, FirstShown, ShowsRequested, ViewSettled
  <1> QED BY <1>1, AlwaysListingKept, PTL

(* A listing has no gap, no repetition and the right cursor, unless a page *)
(* that was asked for before the listing was appended to it.               *)
THEOREM ListingIsWhole == ViewSpec => []ListingWhole
  <1>1. ASSUME ViewTyped, ListingKept, ViewSettled, ~mixed, ~switched
        PROVE  /\ \A i \in DOMAIN pages : pages[i] = [Head(pages) EXCEPT !.page = i]
               /\ cursor = NextCursor(folder, Len(pages))
    <2>1. mixed = FALSE /\ switched = FALSE /\ pages \in Seq(PageRecords)
      BY <1>1 DEF ViewTyped, TypedSigns, TypedListing
    <2>2. /\ \A i \in 1..Len(pages) : pages[i].share = share /\ pages[i].path = folder
                                      /\ pages[i].page = i
          /\ cursor = NextCursor(folder, Len(pages))
          /\ pages # <<>>
      BY <1>1, <2>1 DEF ListingKept, Gapless, FirstShown
    <2>3. PICK seq \in Seq(PageRecords) : seq = pages
      BY <2>1
    <2>4. PICK head : head = Head(pages)
      OBVIOUS
    <2>5. head = seq[1] /\ 1 \in 1..Len(seq) /\ DOMAIN seq = 1..Len(seq)
      BY <2>2, <2>3, <2>4
    <2>6. ASSUME NEW i \in DOMAIN seq
          PROVE  seq[i] = [head EXCEPT !.page = i]
      <3>1. seq[i] \in PageRecords /\ head \in PageRecords
        BY <2>5, <2>6
      <3>2. /\ seq[i].share = share /\ seq[i].path = folder /\ seq[i].page = i
            /\ head.share = share /\ head.path = folder
        BY <2>2, <2>3, <2>5, <2>6
      <3>3. seq[i] = [share |-> share, path |-> folder, page |-> i]
        BY <3>1, <3>2 DEF PageRecords
      <3>4. [head EXCEPT !.page = i] = [share |-> share, path |-> folder, page |-> i]
        BY <3>1, <3>2 DEF PageRecords
      <3> QED BY <3>3, <3>4
    <2> QED BY <2>2, <2>3, <2>4, <2>6
  <1>2. ViewTyped /\ ListingKept => ListingWhole
    BY <1>1 DEF ListingWhole
  <1> QED BY <1>2, AlwaysListingKept, PTL

-----------------------------------------------------------------------------
(* The preview dialog.                                                     *)

\* Its requests and its text are about the entry and the share on show, unless
\* one of the two was replaced under the open dialog; without a dialog there is
\* neither.
Texted ==
    /\ preview = Null => text = Null /\ Outstanding("text") = {}
    /\ preview # Null /\ replaced = FALSE =>
          /\ \A c \in Outstanding("text") : c.share = share /\ c.path = preview
          /\ text # Null => text = [share |-> share, path |-> preview]

\* The dialog stays as it is.
DialogKept ==
    /\ share' = share \/ preview = Null
    /\ UNCHANGED dialog
    /\ \A d \in requests' : d.kind = "text" => d \in requests

LEMMA DialogKeptTexted ==
    ASSUME Texted, DialogKept
    PROVE  Texted'
  <1>1. /\ preview' = preview /\ text' = text /\ replaced' = replaced
        /\ \A d \in requests' : d.kind = "text" => d \in requests
        /\ share' = share \/ preview = Null
    BY DEF DialogKept, dialog
  <1>2. CASE preview = Null
    BY <1>1, <1>2 DEF Texted, Outstanding
  <1>3. CASE share' = share
    BY <1>1, <1>3 DEF Texted, Outstanding
  <1> QED BY <1>1, <1>2, <1>3

(* Reading a folder is nothing to the dialog.                              *)
LEMMA LoadLeavesTexts ==
    ASSUME NEW s, NEW p, NEW others, LoadOf(s, p, others)
    PROVE  \A d \in requests' : d.kind = "text" => d \in others
  BY DEF LoadOf, Call

LEMMA ChangePropsTexted ==
    ASSUME ViewTyped, Texted, NEW s \in Slugs, NEW p \in Folders, ChangeProps(s, p)
    PROVE  Texted'
  <1>1. /\ share' = s /\ preview' = preview
        /\ replaced' = (replaced \/ (s # share /\ preview # Null))
    BY ChangePropsMakes
  <1>2. CASE s # share /\ preview # Null
    BY <1>1, <1>2 DEF Texted
  <1>3. CASE ~(s # share /\ preview # Null)
    <2>1. UNCHANGED <<text, textLoading, textFailed>>
      BY <1>3, ChangePropsMakes
    <2>2. Beside(s) = requests
      BY <1>3 DEF Beside
    <2>3. \A d \in requests' : d.kind = "text" => d \in requests
      <3>1. CASE Load(s, p, Beside(s))
        BY <2>2, <3>1, LoadLeavesTexts DEF Load
      <3>2. CASE NoLoad(Beside(s))
        BY <2>2, <3>2 DEF NoLoad
      <3> QED BY <3>1, <3>2, ChangePropsMakes
    <2>4. replaced' = replaced
      BY <1>1, <1>3 DEF ViewTyped, TypedSigns
    <2>5. UNCHANGED dialog
      BY <1>1, <2>1, <2>4 DEF dialog
    <2> QED BY <1>1, <1>3, <2>3, <2>5, DialogKeptTexted DEF DialogKept
  <1> QED BY <1>2, <1>3

LEMMA MetadataAnswerTexted ==
    ASSUME ViewTyped, Texted, NEW c \in requests, MetadataAnswer(c)
    PROVE  Texted'
  <1>1. /\ c.kind = "metadata" /\ c.path \in Files /\ share' = share
    BY BrowserAssumption, MetadataAnswerMakes DEF props
  <1>2. c.path # Null
    BY <1>1, BrowserAssumption DEF BrowserAssumption
  <1>3. ASSUME NEW T, \A d \in T : Fits(d) /\ d.kind = "text" /\ d.share = share /\ d.path = c.path,
               preview' = c.path, ReadText(share, c.path), requests' = (requests \ {c}) \cup T,
               replaced' = (replaced \/ preview # Null), UNCHANGED errored
        PROVE  Texted'
    <2>1. CASE preview # Null
      BY <1>2, <1>3, <2>1 DEF Texted
    <2>2. CASE preview = Null
      <3>1. text = Null /\ \A d \in requests : d.kind # "text"
        BY <2>2 DEF Texted, Outstanding
      <3>2. text' = Null
        <4>1. PICK s : s = share
          OBVIOUS
        <4>2. PICK e : e = c.path
          OBVIOUS
        <4>3. ReadText(s, e)
          BY <1>3, <4>1, <4>2
        <4> QED BY <3>1, <4>3, ReadTextTyped
      <3>3. \A d \in requests' : d.kind = "text" => d.share = share /\ d.path = c.path
        BY <1>3, <3>1
      <3> QED BY <1>1, <1>2, <1>3, <3>2, <3>3 DEF Texted, Outstanding
    <2> QED BY <2>1, <2>2
  <1>4. CASE errored' = TRUE /\ requests' = requests \ {c} /\ UNCHANGED dialog
    BY <1>1, <1>4, DialogKeptTexted DEF DialogKept
  <1> QED BY <1>3, <1>4, BrowserAssumption, MetadataAnswerMakes

LEMMA TextAnswerTexted ==
    ASSUME ViewTyped, Texted, NEW c \in requests, TextAnswer(c)
    PROVE  Texted'
  <1>1. /\ c \in Outstanding("text") /\ requests' = requests \ {c}
        /\ preview' = preview /\ replaced' = replaced /\ share' = share
        /\ text' = [share |-> c.share, path |-> c.path] \/ text' = text
    BY DEF TextAnswer, props
  <1>2. preview # Null
    BY <1>1 DEF Texted
  <1> QED BY <1>1, <1>2 DEF Texted, Outstanding

LEMMA NextTexted == ViewTyped /\ Texted /\ [ViewNext]_viewVars => Texted'
  <1> SUFFICES ASSUME ViewTyped, Texted, [ViewNext]_viewVars
               PROVE  Texted'
    OBVIOUS
  <1>1. ASSUME NEW s \in Slugs, NEW p \in Folders, Mount(s, p)
        PROVE  Texted'
    <2>1. preview = Null /\ UNCHANGED dialog /\ LoadOf(s, p, requests)
      BY <1>1 DEF Mount, Load, ViewTyped, Mounted
    <2> QED BY <2>1, LoadLeavesTexts, DialogKeptTexted DEF DialogKept
  <1>2. ASSUME NEW s \in Slugs, NEW p \in Folders, ChangeProps(s, p)
        PROVE  Texted'
    BY <1>2, ChangePropsTexted
  <1>3. CASE Unmount
    BY <1>3 DEF Unmount, Texted, Outstanding
  <1>4. CASE Refresh
    <2>1. UNCHANGED <<props, dialog>> /\ LoadOf(share, folder, requests)
      BY <1>4 DEF Refresh, Load
    <2>2. \A d \in requests' : d.kind = "text" => d \in requests
      BY <2>1 DEF LoadOf, Call
    <2> QED BY <2>1, <2>2, DialogKeptTexted DEF DialogKept, props
  <1>5. CASE LoadMore
    <2>1. \A d \in requests' : d.kind = "text" => d \in requests
      BY <1>5, MoreMade
    <2> QED BY <1>5, <2>1, DialogKeptTexted DEF LoadMore, DialogKept, props
  <1>6. ASSUME NEW e \in Files, OpenFile(e)
        PROVE  Texted'
    <2>1. PICK n : n.kind = "metadata" /\ requests' = requests \cup {n}
      BY <1>6, OpenFileTyped
    <2> QED BY <1>6, <2>1, DialogKeptTexted DEF OpenFile, DialogKept, props
  <1>7. CASE ClosePreview
    BY <1>7 DEF ClosePreview, Texted, Outstanding
  <1>8. ASSUME NEW c \in requests, EntriesAnswer(c)
        PROVE  Texted'
    <2>1. UNCHANGED <<props, dialog>>
      BY <1>8 DEF EntriesAnswer
    <2>2. \A d \in requests' : d.kind = "text" => d \in requests
      BY <1>8 DEF EntriesAnswer, Listed, LoadFailed, NoLoad, LoadOf, Call
    <2> QED BY <2>1, <2>2, DialogKeptTexted DEF DialogKept, props
  <1>9. ASSUME NEW c \in requests, MoreAnswer(c)
        PROVE  Texted'
    BY <1>9, DialogKeptTexted DEF MoreAnswer, DialogKept, props
  <1>10. ASSUME NEW c \in requests, MetadataAnswer(c)
         PROVE  Texted'
    BY <1>10, MetadataAnswerTexted
  <1>11. ASSUME NEW c \in requests, TextAnswer(c)
         PROVE  Texted'
    BY <1>11, TextAnswerTexted
  <1>12. CASE UNCHANGED viewVars
    BY <1>12, DialogKeptTexted DEF DialogKept, viewVars, props
  <1> QED BY <1>1, <1>2, <1>3, <1>4, <1>5, <1>6, <1>7, <1>8, <1>9, <1>10, <1>11, <1>12
          DEF ViewNext, ViewAnswer

(* The dialog shows the text of the entry it names, whatever was opened    *)
(* and closed before: So is taken down with its requests, so that an       *)
(* earlier dialog's text cannot arrive in a later one.                     *)
THEOREM PreviewIsOfEntry == ViewSpec => []PreviewShowsEntry
  <1>1. ViewInit => Texted
    BY DEF ViewInit, Texted, Outstanding
  <1>2. ViewTyped /\ Texted => PreviewShowsEntry
    BY DEF ViewTyped, TypedSigns, Texted, PreviewShowsEntry
  <1> QED BY <1>1, <1>2, InitViewTyped, NextViewTyped, NextTexted, PTL DEF ViewSpec
=============================================================================
