---------------------------- MODULE CanvasHistory ----------------------------
(***************************************************************************)
(* The history of the image canvas: the browser tabs that generate images  *)
(* and show them, the browser's stores (localStorage and IndexedDB, one    *)
(* entry per account), the server's table, and the completion events the   *)
(* relay publishes on a WebSocket.                                         *)
(*                                                                         *)
(* Every handler is a chain of awaits.  It works on what it captured when  *)
(* it started (the history of its render, the account of the tab), while   *)
(* its calls to the server act for whoever the browser is signed in as     *)
(* when they are made, and a save that has been sent goes on when its page *)
(* is gone.  An image is named by the generation that made it; the lists   *)
(* are far from their limits (500 and 2000), so that a list is the set of  *)
(* its images.                                                             *)
(***************************************************************************)
EXTENDS Naturals, FiniteSets

CONSTANTS
    Tab, User, NoUser,
    Generation, NoTab,
    Admin,        \* the accounts with the administrator's role
    Legacy,       \* images of the time before histories were kept per account
    MaxSwitches,  \* bound: sign-outs followed by a sign-in
    MaxVisits,    \* bound: times the canvas is entered
    MaxFaults,    \* bound: failing requests and stores
    Overlapping   \* whether a user acts while a handler that replaces the list runs

ASSUME CanvasAssumption ==
    /\ NoUser \notin User /\ NoTab \notin Tab
    /\ Admin \subseteq User /\ Legacy \cap Generation = {}
    /\ MaxSwitches \in Nat /\ MaxVisits \in Nat /\ MaxFaults \in Nat
    /\ Overlapping \in BOOLEAN

VARIABLES
    session,      \* the account of the cookie and of localStorage's uid
    tab,          \* the tabs
    restore,      \* the effect of a tab that loads the history
    refresh,      \* the answers a tab's refreshes have got and not yet applied
    due,          \* whether a tab is about to refresh
    sock,         \* the account a tab's WebSocket was opened for
    events,       \* the events on their way to a tab
    gen,          \* the generations
    server, local, idb,       \* the stored histories
    legacyLocal, legacyIdb,   \* the histories that belong to nobody
    flag,         \* the stored generation states
    idbDeletes, deletes,      \* the deletions on their way to IndexedDB and the server
    cleared,      \* history variable: the images a user has cleared
    posts,        \* the saves on their way whose page has been left or unloaded
    crossed,      \* history variable: whether a save or a refresh and a Clear, or a
                  \* save and the next page, have crossed on their way
    mixed,        \* history variable: whether an account came in while something of
                  \* another account was open or under way
    switches, visits, faults

tabVars == <<session, tab, restore, refresh, due, sock, events>>
storeVars == <<server, local, idb, legacyLocal, legacyIdb, flag>>
clearVars == <<idbDeletes, deletes, cleared, posts, crossed, mixed>>
bounds == <<switches, visits>>
vars == <<tabVars, gen, storeVars, clearVars, bounds, faults>>

Image == Generation \cup Legacy
Event == {"completed", "failed"}

TabType == [user : User, mounted : BOOLEAN, view : SUBSET Image,
            generating : BOOLEAN]
NewTab(u) == [user |-> u, mounted |-> FALSE, view |-> {}, generating |-> FALSE]

RestoreType ==
    {r \in [pc : {"none", "asked", "answered", "failed", "indexed", "upload"},
            live : BOOLEAN, user : User \cup {NoUser}, to : User \cup {NoUser},
            remote : SUBSET Image] :
        r.pc # "none" => r.user \in User}
NoRestore == [pc |-> "none", live |-> FALSE, user |-> NoUser, to |-> NoUser, remote |-> {}]

Running == {"key", "upstream", "response", "save", "fetch", "merge", "publish", "persist",
            "idb", "finally"}
GenType ==
    [pc : Running \cup {"idle", "done", "dead"}, tab : Tab \cup {NoTab},
     user : User \cup {NoUser}, to : User \cup {NoUser}, live : BOOLEAN, got : BOOLEAN,
     base : SUBSET Image, remote : SUBSET Image]
NotStarted == [pc |-> "idle", tab |-> NoTab, user |-> NoUser, to |-> NoUser, live |-> FALSE,
               got |-> FALSE, base |-> {}, remote |-> {}]

\* A save: for which account, the new image, and the whole list.
PostType == [user : User \cup {NoUser}, new : SUBSET Image, items : SUBSET Image]

TypeOK ==
    /\ session \in User
    /\ tab \in [Tab -> TabType]
    /\ restore \in [Tab -> RestoreType]
    /\ refresh \in [Tab -> SUBSET SUBSET Image]
    /\ due \in [Tab -> BOOLEAN]
    /\ sock \in [Tab -> User \cup {NoUser}]
    /\ events \in [Tab -> SUBSET Event]
    /\ gen \in [Generation -> GenType]
    /\ server \in [User -> SUBSET Image] /\ local \in [User -> SUBSET Image]
    /\ idb \in [User -> SUBSET Image]
    /\ legacyLocal \in SUBSET Legacy /\ legacyIdb \in SUBSET Legacy
    /\ flag \in [User -> BOOLEAN]
    /\ idbDeletes \in [Tab -> SUBSET User] /\ deletes \in SUBSET User
    /\ cleared \in SUBSET Image /\ mixed \in BOOLEAN
    /\ posts \in SUBSET PostType /\ crossed \in BOOLEAN
    /\ switches \in Nat /\ visits \in Nat /\ faults \in Nat

Init ==
    /\ session \in User
    /\ tab = [t \in Tab |-> NewTab(session)]
    /\ restore = [t \in Tab |-> NoRestore]
    /\ refresh = [t \in Tab |-> {}] /\ due = [t \in Tab |-> FALSE]
    /\ sock = [t \in Tab |-> NoUser] /\ events = [t \in Tab |-> {}]
    /\ gen = [g \in Generation |-> NotStarted]
    /\ server = [u \in User |-> {}] /\ local = [u \in User |-> {}]
    /\ idb = [u \in User |-> {}]
    /\ legacyLocal = Legacy /\ legacyIdb = Legacy
    /\ flag = [u \in User |-> FALSE]
    /\ idbDeletes = [t \in Tab |-> {}] /\ deletes = {} /\ cleared = {} /\ mixed = FALSE
    /\ posts = {} /\ crossed = FALSE
    /\ switches = 0 /\ visits = 0 /\ faults = 0

Faulty == faults < MaxFaults /\ faults' = faults + 1

-----------------------------------------------------------------------------
(***************************************************************************)
(* Tabs: signing in, reloading, entering and leaving the canvas.           *)
(***************************************************************************)

\* The saves a tab has sent.  They are sent with what the browser was signed in
\* as, and are not taken back when their page goes.
Sent(t) ==
    {[user |-> gen[g].to, new |-> {g}, items |-> {g} \cup gen[g].base] :
        g \in {h \in Generation : gen[h].tab = t /\ gen[h].pc = "save"}}

SentByRestore(t) ==
    {[user |-> r.to, new |-> {}, items |-> r.remote] :
        r \in {q \in {restore[t]} : q.pc = "upload"}}

\* What a page load ends: the handlers of the tab, and its connection.
Unload(t, u) ==
    /\ tab' = [tab EXCEPT ![t] = NewTab(u)]
    /\ restore' = [restore EXCEPT ![t] = NoRestore]
    /\ refresh' = [refresh EXCEPT ![t] = {}] /\ due' = [due EXCEPT ![t] = FALSE]
    /\ sock' = [sock EXCEPT ![t] = NoUser] /\ events' = [events EXCEPT ![t] = {}]
    /\ idbDeletes' = [idbDeletes EXCEPT ![t] = {}]
    /\ posts' = posts \cup Sent(t) \cup SentByRestore(t)
    /\ gen' = [g \in Generation |->
                 IF gen[g].tab = t /\ gen[g].pc \in Running
                 THEN [gen[g] EXCEPT !.pc = "dead"] ELSE gen[g]]

\* What leaving the canvas ends: its state and its connection.  The handlers go
\* on, but set no state any more; to a restore that has only its save left that
\* makes no difference.
Leave(t, u) ==
    /\ tab' = [tab EXCEPT ![t] = NewTab(u)]
    /\ restore' = [restore EXCEPT ![t] = IF @.pc = "upload" THEN NoRestore
                                         ELSE [@ EXCEPT !.live = FALSE]]
    /\ posts' = posts \cup SentByRestore(t)
    /\ refresh' = [refresh EXCEPT ![t] = {}]
    /\ sock' = [sock EXCEPT ![t] = NoUser] /\ events' = [events EXCEPT ![t] = {}]
    /\ gen' = [g \in Generation |->
                 IF gen[g].tab = t THEN [gen[g] EXCEPT !.live = FALSE] ELSE gen[g]]

OthersOpen(t, u) == \E w \in Tab \ {t} : tab[w].user # u

\* The handlers of a tab that replace its list.
Replacing(t) ==
    restore[t].pc # "none" \/ \E g \in Generation : gen[g].tab = t /\ gen[g].pc \in Running

Clearing(t) == idbDeletes[t] # {} \/ deletes # {}

Free(t) == Overlapping \/ (~Replacing(t) /\ ~Clearing(t))

\* Mutant: signing out does not load the page again.
SwitchInPlace(t, u) ==
    /\ u # tab[t].user /\ switches < MaxSwitches
    /\ switches' = switches + 1 /\ session' = u
    /\ Leave(t, u)
    /\ mixed' = (mixed \/ OthersOpen(t, u))
    /\ UNCHANGED <<due, storeVars, idbDeletes, deletes, cleared, crossed, visits, faults>>

\* handleSignOut, which loads the page again, and a sign-in as someone else.
SwitchAccount(t, u) ==
    /\ u # tab[t].user /\ switches < MaxSwitches
    /\ switches' = switches + 1 /\ session' = u
    /\ Unload(t, u)
    /\ mixed' = (mixed \/ OthersOpen(t, u))
    /\ UNCHANGED <<storeVars, deletes, cleared, crossed, visits, faults>>

\* The session has expired: the page shows the sign-in form without being loaded
\* again, and its handlers go on.
SignInAgain(t, u) ==
    /\ switches < MaxSwitches
    /\ switches' = switches + 1 /\ session' = u
    /\ Leave(t, u)
    /\ mixed' = (mixed \/ OthersOpen(t, u) \/ (u # tab[t].user /\ Replacing(t)))
    /\ UNCHANGED <<due, storeVars, idbDeletes, deletes, cleared, crossed, visits, faults>>

\* The route guard takes the account over from the session.
Reload(t) ==
    /\ Unload(t, session)
    /\ UNCHANGED <<session, storeVars, deletes, cleared, crossed, mixed, bounds, faults>>

\* The effects of a new canvas: the stored generation state is read (and removed
\* when it is older than 15 minutes), and the history is asked for.
Mount(t) ==
    LET u == tab[t].user
    IN  /\ ~tab[t].mounted /\ restore[t].pc = "none"
        /\ visits < MaxVisits /\ visits' = visits + 1
        /\ \E expired \in {b \in BOOLEAN : b => flag[u]} :
             /\ flag' = [flag EXCEPT ![u] = @ /\ ~expired]
             /\ tab' = [tab EXCEPT ![t] = [NewTab(u) EXCEPT !.mounted = TRUE,
                                             !.generating = flag[u] /\ ~expired]]
        /\ restore' = [restore EXCEPT ![t] =
                         [NoRestore EXCEPT !.pc = "asked", !.live = TRUE, !.user = u]]
        /\ Free(t)
        /\ UNCHANGED <<session, refresh, due, sock, events, gen, server, local, idb,
                       legacyLocal, legacyIdb, clearVars, switches, faults>>

\* Another page of the site.
Unmount(t) ==
    /\ tab[t].mounted
    /\ Leave(t, tab[t].user)
    /\ UNCHANGED <<session, due, storeVars, idbDeletes, deletes, cleared, crossed, mixed,
                   bounds, faults>>

-----------------------------------------------------------------------------
(***************************************************************************)
(* The server: its table, for the account of the session, and the events.  *)
(***************************************************************************)

\* SaveCanvasHistory writes item after item, the new image first, and stops at
\* the first one it cannot store.
SaveCanvasHistory(u, new, items) ==
    \/ server' = [server EXCEPT ![u] = @ \cup items] /\ UNCHANGED faults
    \/ /\ Faulty
       /\ \E S \in SUBSET items : /\ S = {} \/ new \subseteq S
                                  /\ server' = [server EXCEPT ![u] = @ \cup S]

\* Whether a tab of the account shows, or a handler works on, what it has read.
HasRead(t, u) ==
    tab[t].user = u /\ restore[t].pc # "asked" /\ (tab[t].mounted \/ Replacing(t))

\* The save of a page that is gone: the handler on the server goes on without it,
\* unless the request was broken off before it got there.  (One that is broken off
\* between two items, while it downloads an image, counts as a fault.)
LateSave(p) ==
    /\ p \in posts /\ posts' = posts \ {p}
    /\ \/ SaveCanvasHistory(p.user, p.new, p.items)
       \/ UNCHANGED <<server, faults>>
    /\ crossed' = (crossed \/ \E t \in Tab : HasRead(t, p.user))
    /\ UNCHANGED <<tabVars, gen, local, idb, legacyLocal, legacyIdb, flag, idbDeletes,
                   deletes, cleared, mixed, bounds>>

\* connect opens a socket for the session's account; it is tried again every two
\* seconds.
Connect(t) ==
    /\ tab[t].mounted /\ sock[t] = NoUser
    /\ sock' = [sock EXCEPT ![t] = session]
    /\ UNCHANGED <<session, tab, restore, refresh, due, events, gen, storeVars, clearVars,
                   bounds, faults>>

Disconnect(t) ==
    /\ sock[t] # NoUser
    /\ sock' = [sock EXCEPT ![t] = NoUser] /\ events' = [events EXCEPT ![t] = {}]
    /\ UNCHANGED <<session, tab, restore, refresh, due, gen, storeVars, clearVars,
                   bounds, faults>>

\* PublishCanvasEvent: to the open sockets of one account.
PublishCanvasEvent(u, e) ==
    events' = [t \in Tab |-> IF sock[t] = u THEN events[t] \cup {e} ELSE events[t]]

-----------------------------------------------------------------------------
(***************************************************************************)
(* Loading the history when the canvas is entered.                         *)
(***************************************************************************)

SetView(t, live, images) ==
    tab' = IF live THEN [tab EXCEPT ![t].view = images] ELSE tab

RestoreEnds(t) == restore' = [restore EXCEPT ![t] = NoRestore]

\* getCanvasHistory answers, or fails.
RestoreAnswer(t) ==
    /\ restore[t].pc = "asked"
    /\ \/ /\ restore' = [restore EXCEPT ![t] = [@ EXCEPT !.pc = "answered",
                                                         !.remote = server[session]]]
          /\ UNCHANGED faults
       \/ Faulty /\ restore' = [restore EXCEPT ![t].pc = "failed"]
    /\ UNCHANGED <<session, tab, refresh, due, sock, events, gen, storeVars, clearVars,
                   bounds>>

\* The server has images: those of the browser are added.
RestoreMerge(t) ==
    LET r == restore[t]
    IN  /\ r.pc = "answered" /\ r.remote # {}
        /\ SetView(t, r.live, r.remote \cup local[r.user] \cup idb[r.user])
        /\ RestoreEnds(t)
        /\ UNCHANGED <<session, refresh, due, sock, events, gen, storeVars, clearVars,
                       bounds, faults>>

\* Mutant: every account takes the old entry over.
RestoreLocalForAll(t) ==
    LET r == restore[t]
        restored == local[r.user] \cup legacyLocal
    IN  /\ r.pc = "answered" /\ r.remote = {}
        /\ local' = [local EXCEPT ![r.user] = restored] /\ legacyLocal' = {}
        /\ IF restored # {} THEN SetView(t, r.live, restored) /\ RestoreEnds(t)
                            ELSE /\ restore' = [restore EXCEPT ![t].pc = "indexed"]
                                 /\ UNCHANGED tab
        /\ UNCHANGED <<session, refresh, due, sock, events, gen, server, idb, legacyIdb, flag,
                       clearVars, bounds, faults>>

\* It has none: localStorage is used.  An administrator takes the old entry over
\* (or keeps it in memory when the store is full), for anybody else it is removed.
\* Setting the list of a canvas that is gone has no effect.
RestoreLocal(t) ==
    LET r == restore[t]
        mine == IF r.user \in Admin THEN legacyLocal ELSE {}
        restored == local[r.user] \cup mine
    IN  /\ r.pc = "answered" /\ r.remote = {}
        /\ \/ /\ local' = [local EXCEPT ![r.user] = restored] /\ legacyLocal' = {}
              /\ UNCHANGED faults
           \/ mine # {} /\ Faulty /\ UNCHANGED <<local, legacyLocal>>
        /\ IF restored # {} THEN SetView(t, r.live, restored) /\ RestoreEnds(t)
                            ELSE /\ restore' = [restore EXCEPT ![t].pc = "indexed"]
                                 /\ UNCHANGED tab
        /\ UNCHANGED <<session, refresh, due, sock, events, gen, server, idb, legacyIdb, flag,
                       clearVars, bounds>>

\* Nor has localStorage: IndexedDB is used, and what it has is sent to the server.
\* The old entry of an administrator is removed though it could not be taken over.
RestoreIndexed(t) ==
    LET r == restore[t]
        mine == IF r.user \in Admin THEN legacyIdb ELSE {}
        indexed == idb[r.user] \cup mine
    IN  /\ r.pc = "indexed"
        /\ \/ /\ idb' = [idb EXCEPT ![r.user] = indexed] /\ legacyIdb' = legacyIdb \ mine
              /\ UNCHANGED faults
           \/ mine # {} /\ Faulty /\ legacyIdb' = legacyIdb \ mine /\ UNCHANGED idb
           \/ /\ mine # {} /\ Faulty /\ UNCHANGED legacyIdb
              /\ idb' = [idb EXCEPT ![r.user] = indexed]
        /\ IF r.live /\ indexed # {}
           THEN /\ SetView(t, TRUE, indexed)
                /\ restore' = [restore EXCEPT ![t] = [@ EXCEPT !.pc = "upload", !.to = session,
                                                               !.remote = indexed]]
           ELSE RestoreEnds(t) /\ UNCHANGED tab
        /\ UNCHANGED <<session, refresh, due, sock, events, gen, server, local, legacyLocal,
                       flag, clearVars, bounds>>

RestoreUpload(t) ==
    /\ restore[t].pc = "upload"
    /\ SaveCanvasHistory(restore[t].to, {}, restore[t].remote)
    /\ RestoreEnds(t)
    /\ UNCHANGED <<session, tab, refresh, due, sock, events, gen, local, idb, legacyLocal,
                   legacyIdb, flag, clearVars, bounds>>

\* The server could not be asked.
RestoreFallback(t) ==
    LET r == restore[t]
    IN  /\ r.pc = "failed"
        /\ SetView(t, r.live /\ idb[r.user] # {}, idb[r.user])
        /\ RestoreEnds(t)
        /\ UNCHANGED <<session, refresh, due, sock, events, gen, storeVars, clearVars,
                       bounds, faults>>

Restore(t) ==
    \/ RestoreAnswer(t) \/ RestoreMerge(t) \/ RestoreLocal(t) \/ RestoreIndexed(t)
    \/ RestoreUpload(t) \/ RestoreFallback(t)

-----------------------------------------------------------------------------
(***************************************************************************)
(* handleGenerate.                                                         *)
(***************************************************************************)

\* Mutant: the earlier images are left out.
NewImageOnly(g) == {g}

\* next: the new image before the history of the render that was clicked.
NewList(g) == {g} \cup gen[g].base

\* Tab t stores the generation state and, if set, shows it.  The storage event
\* makes the account's canvases in other tabs follow a change; t gets none.
SetFlag(u, on, t, set) ==
    /\ flag' = [flag EXCEPT ![u] = on]
    /\ tab' = [w \in Tab |->
         IF IF w = t THEN set ELSE tab[w].mounted /\ tab[w].user = u /\ flag[u] # on
         THEN [tab[w] EXCEPT !.generating = on] ELSE tab[w]]

\* The button is disabled while the tab shows a generation.
Generate(g, t) ==
    LET u == tab[t].user
    IN  /\ gen[g].pc = "idle" /\ tab[t].mounted /\ ~tab[t].generating
        /\ gen' = [gen EXCEPT ![g] = [NotStarted EXCEPT !.pc = "key", !.tab = t, !.user = u,
                                        !.live = TRUE, !.base = tab[t].view]]
        /\ SetFlag(u, TRUE, t, TRUE)
        /\ Free(t)
        /\ UNCHANGED <<session, restore, refresh, due, sock, events, server, local, idb,
                       legacyLocal, legacyIdb, clearVars, bounds, faults>>

Go(g, pc) == gen' = [gen EXCEPT ![g].pc = pc]

\* fetchTokenKey reads a key of the tab's account with the session's rights.
FetchKey(g) ==
    /\ gen[g].pc = "key"
    /\ \/ session = gen[g].user /\ Go(g, "upstream")
       \/ Go(g, "finally")
    /\ UNCHANGED <<tabVars, storeVars, clearVars, bounds, faults>>

\* The relay ends the request and publishes it; the answer may hold no image.
Upstream(g) ==
    /\ gen[g].pc = "upstream"
    /\ \/ /\ gen' = [gen EXCEPT ![g].pc = "response", ![g].got = TRUE]
          /\ PublishCanvasEvent(gen[g].user, "completed")
       \/ Go(g, "finally") /\ PublishCanvasEvent(gen[g].user, "completed")
       \/ Go(g, "finally") /\ PublishCanvasEvent(gen[g].user, "failed")
    /\ UNCHANGED <<session, tab, restore, refresh, due, sock, storeVars, clearVars,
                   bounds, faults>>

\* The list with the new image is shown, and saveCanvasHistory sends the whole list.
ShowImage(g) ==
    /\ gen[g].pc = "response"
    /\ SetView(gen[g].tab, gen[g].live, NewList(g))
    /\ gen' = [gen EXCEPT ![g].pc = "save", ![g].to = session]
    /\ UNCHANGED <<session, restore, refresh, due, sock, events, storeVars, clearVars,
                   bounds, faults>>

\* The save is done, or has failed, and the page that waits for it goes on.
SaveToServer(g) ==
    /\ gen[g].pc = "save"
    /\ SaveCanvasHistory(gen[g].to, {g}, NewList(g))
    /\ Go(g, IF faults' = faults THEN "fetch" ELSE "publish")
    /\ UNCHANGED <<tabVars, local, idb, legacyLocal, legacyIdb, flag, clearVars,
                   bounds>>

FetchBack(g) ==
    /\ gen[g].pc = "fetch"
    /\ \/ /\ gen' = [gen EXCEPT ![g].pc = "merge", ![g].remote = server[session]]
          /\ UNCHANGED faults
       \/ Faulty /\ Go(g, "publish")
    /\ UNCHANGED <<tabVars, storeVars, clearVars, bounds>>

MergeBack(g) ==
    /\ gen[g].pc = "merge"
    /\ SetView(gen[g].tab, gen[g].live, gen[g].remote \cup NewList(g))
    /\ gen' = [gen EXCEPT ![g].pc = "publish", ![g].remote = {}]
    /\ UNCHANGED <<session, restore, refresh, due, sock, events, storeVars, clearVars,
                   bounds, faults>>

\* Mutant: the list is written under the old key, that of no account.
StoreUnscoped(g) ==
    /\ gen[g].pc \in {"publish", "persist"}
    /\ \/ legacyLocal' = NewList(g) /\ UNCHANGED faults
       \/ Faulty /\ UNCHANGED legacyLocal
    /\ Go(g, IF gen[g].pc = "publish" THEN "persist" ELSE "idb")
    /\ UNCHANGED <<tabVars, server, local, idb, legacyIdb, flag, clearVars, bounds>>

\* localStorage is written before and after the bytes of the image are stored.
StoreLocal(g) ==
    /\ gen[g].pc \in {"publish", "persist"}
    /\ \/ local' = [local EXCEPT ![gen[g].user] = NewList(g)] /\ UNCHANGED faults
       \/ Faulty /\ UNCHANGED local
    /\ Go(g, IF gen[g].pc = "publish" THEN "persist" ELSE "idb")
    /\ UNCHANGED <<tabVars, server, idb, legacyLocal, legacyIdb, flag, clearVars,
                   bounds>>

StoreIndexed(g) ==
    /\ gen[g].pc = "idb"
    /\ \/ idb' = [idb EXCEPT ![gen[g].user] = NewList(g)] /\ UNCHANGED faults
       \/ Faulty /\ UNCHANGED idb
    /\ Go(g, "finally")
    /\ UNCHANGED <<tabVars, server, local, legacyLocal, legacyIdb, flag, clearVars,
                   bounds>>

Finally(g) ==
    /\ gen[g].pc = "finally"
    /\ SetFlag(gen[g].user, FALSE, gen[g].tab, gen[g].live)
    /\ Go(g, "done")
    /\ UNCHANGED <<session, restore, refresh, due, sock, events, server, local, idb,
                   legacyLocal, legacyIdb, clearVars, bounds, faults>>

GenerateStep(g) ==
    \/ FetchKey(g) \/ Upstream(g) \/ ShowImage(g) \/ SaveToServer(g) \/ FetchBack(g)
    \/ MergeBack(g) \/ StoreLocal(g) \/ StoreIndexed(g) \/ Finally(g)

-----------------------------------------------------------------------------
(***************************************************************************)
(* The events, the refresh they cause, and the Clear button.               *)
(***************************************************************************)

\* onmessage: whatever request of the account has ended, the canvas takes it for
\* its own; 100 ms later it refreshes.
Deliver(t, e) ==
    /\ e \in events[t]
    /\ events' = [events EXCEPT ![t] = @ \ {e}]
    /\ SetFlag(tab[t].user, FALSE, t, TRUE)
    /\ due' = [due EXCEPT ![t] = TRUE]
    /\ UNCHANGED <<session, restore, refresh, sock, gen, server, local, idb, legacyLocal,
                   legacyIdb, clearVars, bounds, faults>>

\* refreshFromStorage asks the server, Clear or no Clear; an error counts as an
\* empty answer ...
RefreshRead(t) ==
    /\ due[t] /\ due' = [due EXCEPT ![t] = FALSE]
    /\ \/ ~tab[t].mounted /\ UNCHANGED <<refresh, faults>>
       \/ /\ tab[t].mounted /\ UNCHANGED faults
          /\ refresh' = [refresh EXCEPT ![t] = @ \cup {server[session]}]
       \/ tab[t].mounted /\ Faulty /\ refresh' = [refresh EXCEPT ![t] = @ \cup {{}}]
    /\ crossed' = (crossed \/ (tab[t].mounted /\ Clearing(t)))
    /\ UNCHANGED <<session, tab, restore, sock, events, gen, storeVars, idbDeletes, deletes,
                   cleared, posts, mixed, bounds>>

\* Mutant: what it finds replaces the list.
RefreshReplacing(t) ==
    \E remote \in refresh[t] :
        LET u == tab[t].user
            saved == IF local[u] # {} THEN local[u] ELSE idb[u]
            found == IF remote # {} THEN remote ELSE saved
        IN  /\ refresh' = [refresh EXCEPT ![t] = @ \ {remote}]
            /\ tab' = [tab EXCEPT ![t].view = IF found # {} THEN found ELSE @]
            /\ UNCHANGED <<session, restore, due, sock, events, gen, storeVars, clearVars,
                           bounds, faults>>

\* ... for which a store of the browser stands in; what it finds is added.
RefreshApply(t) ==
    \E remote \in refresh[t] :
        LET u == tab[t].user
            saved == IF local[u] # {} THEN local[u] ELSE idb[u]
            found == IF remote # {} THEN remote ELSE saved
        IN  /\ refresh' = [refresh EXCEPT ![t] = @ \ {remote}]
            /\ tab' = [tab EXCEPT ![t].view = @ \cup found]
            /\ UNCHANGED <<session, restore, due, sock, events, gen, storeVars, clearVars,
                           bounds, faults>>

\* The Clear button: the view and localStorage at once, the rest on its way.
Clear(t) ==
    LET u == tab[t].user
    IN  /\ tab[t].mounted /\ tab[t].view # {}
        /\ tab' = [tab EXCEPT ![t].view = {}]
        /\ local' = [local EXCEPT ![u] = {}]
        /\ idbDeletes' = [idbDeletes EXCEPT ![t] = @ \cup {u}]
        /\ deletes' = deletes \cup {session}
        /\ cleared' = cleared \cup tab[t].view \cup local[u]
        /\ crossed' = (crossed \/ refresh[t] # {} \/ posts # {})
        /\ Free(t)
        /\ UNCHANGED <<session, restore, refresh, due, sock, events, gen, server, idb,
                       legacyLocal, legacyIdb, flag, posts, mixed, bounds, faults>>

\* deleteHistoryFromIndexedDb.
ClearIndexed(t) ==
    \E u \in idbDeletes[t] :
        /\ idbDeletes' = [idbDeletes EXCEPT ![t] = @ \ {u}]
        /\ \/ /\ idb' = [idb EXCEPT ![u] = {}] /\ cleared' = cleared \cup idb[u]
              /\ UNCHANGED faults
           \/ Faulty /\ UNCHANGED <<idb, cleared>>
        /\ UNCHANGED <<tabVars, gen, server, local, legacyLocal, legacyIdb, flag, deletes,
                       posts, crossed, mixed, bounds>>

\* DeleteCanvasHistory.
DeleteCanvasHistory(u) ==
    /\ u \in deletes /\ deletes' = deletes \ {u}
    /\ \/ /\ server' = [server EXCEPT ![u] = {}] /\ cleared' = cleared \cup server[u]
          /\ UNCHANGED faults
       \/ Faulty /\ UNCHANGED <<server, cleared>>
    /\ UNCHANGED <<tabVars, gen, local, idb, legacyLocal, legacyIdb, flag, idbDeletes,
                   posts, crossed, mixed, bounds>>

Next ==
    \/ \E t \in Tab :
        \/ Reload(t) \/ Mount(t) \/ Unmount(t) \/ Connect(t) \/ Disconnect(t)
        \/ Restore(t) \/ RefreshRead(t) \/ RefreshApply(t) \/ Clear(t) \/ ClearIndexed(t)
        \/ \E u \in User : SwitchAccount(t, u) \/ SignInAgain(t, u)
        \/ \E e \in Event : Deliver(t, e)
        \/ \E g \in Generation : Generate(g, t)
    \/ \E g \in Generation : GenerateStep(g)
    \/ \E u \in User : DeleteCanvasHistory(u)
    \/ \E p \in posts : LateSave(p)

Spec == Init /\ [][Next]_vars

-----------------------------------------------------------------------------
(***************************************************************************)
(* Properties.                                                             *)
(***************************************************************************)

\* The images an account may see: those it generated and, though the comment on
\* the storage key has the old entry ignored, that of nobody for an administrator.
Own(u) == {g \in Generation : gen[g].user = u} \cup (IF u \in Admin THEN Legacy ELSE {})

\* "one account can never inherit another account's records after a login
\* switch": what is stored for an account, and what a tab shows it, is its own,
\* though handlers of any number of tabs overlap, unless the account was changed
\* with the other's tabs open or its handlers running.
AccountsApart ==
    ~mixed =>
        /\ \A u \in User : server[u] \cup local[u] \cup idb[u] \subseteq Own(u)
        /\ \A t \in Tab : tab[t].view \subseteq Own(tab[t].user)

\* "a refresh can always reconstruct history": an image whose generation came to
\* its end, and which was not cleared, is in one of the three stores, though
\* a request or a write of a store failed (handlers that do not overlap).
NothingLost ==
    \A g \in Generation :
        gen[g].pc = "done" /\ gen[g].got /\ g \notin cleared =>
            LET u == gen[g].user IN g \in server[u] \cup local[u] \cup idb[u]

Quiet(t) == /\ tab[t].mounted /\ ~Replacing(t) /\ ~Clearing(t) /\ refresh[t] = {}

\* "The server is authoritative": when nothing is on its way and nothing failed,
\* the canvas shows what the server has, over visits, reloads in the middle of a
\* save, refreshes and Clears (handlers that do not overlap, and no account that
\* came in while something of another one was open or under way).  It does not
\* when a refresh crosses a Clear, or when the save of a page that is gone takes
\* effect after a Clear or after the next page has read.
ViewMatchesServer ==
    faults = 0 /\ ~mixed /\ ~crossed => \A t \in Tab : Quiet(t) =>
        LET u == tab[t].user
        IN  server[u] \subseteq tab[t].view /\ tab[t].view \subseteq server[u] \cup Legacy

-----------------------------------------------------------------------------
(***************************************************************************)
(* The inductive invariant behind AccountsApart: what is open or under way *)
(* belongs to the account of the session, and carries its images only.     *)
(***************************************************************************)

TabOwn(t) ==
    /\ tab[t].user = session
    /\ restore[t].pc # "none" => /\ restore[t].user = session
                                /\ restore[t].remote \subseteq Own(session)
    /\ restore[t].pc = "upload" => restore[t].to = session
    /\ \A S \in refresh[t] : S \subseteq Own(session)

GenOwn(g) ==
    gen[g].pc \in Running => /\ gen[g].user = session /\ gen[g].tab \in Tab
                             /\ gen[g].base \cup gen[g].remote \subseteq Own(session)
                             /\ gen[g].pc = "save" => gen[g].to = session

ApartInv ==
    /\ TypeOK /\ AccountsApart
    /\ \A g \in Generation : gen[g].pc = "idle" => gen[g].user = NoUser
    /\ ~mixed => /\ (\A t \in Tab : TabOwn(t)) /\ (\A g \in Generation : GenOwn(g))
                 /\ \A p \in posts : p.user \in User /\ p.items \subseteq Own(p.user)
=============================================================================
