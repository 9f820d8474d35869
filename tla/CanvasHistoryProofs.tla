------------------------ MODULE CanvasHistoryProofs ------------------------
(***************************************************************************)
(* Type correctness and AccountsApart for any number of tabs, accounts,    *)
(* generations and faults, with overlapping handlers.                      *)
(*                                                                         *)
(* A step of ApartInv is cut into what it does to the generations, the     *)
(* tabs and the stores (GensKeep, TabsKeep, StoresKeep); the lemma         *)
(* Preserved puts the three together.  An account that comes in and a      *)
(* generation that starts change the images an account owns, or the        *)
(* session, and are proved on their own.                                   *)
(*                                                                         *)
(* Then NothingLost and ViewMatchesServer, for one tab whose handlers do   *)
(* not overlap.                                                            *)
(***************************************************************************)
EXTENDS CanvasHistory, TLAPS

-----------------------------------------------------------------------------
(* What the updates of the records do.                                      *)

\* SetView changes the list of one tab.
LEMMA ViewUpdate ==
    ASSUME NEW f \in [Tab -> TabType], NEW t \in Tab, NEW V \in SUBSET Image,
           NEW f2, f2 = [f EXCEPT ![t].view = V]
    PROVE  /\ f2 \in [Tab -> TabType]
           /\ \A w \in Tab : /\ f2[w].user = f[w].user
                             /\ f2[w].view = IF w = t THEN V ELSE f[w].view
<1>1. f[t] \in TabType
  OBVIOUS
<1>2. [f[t] EXCEPT !.view = V] \in TabType
  BY <1>1 DEF TabType
<1>3. /\ [f[t] EXCEPT !.view = V].user = f[t].user
      /\ [f[t] EXCEPT !.view = V].view = V
  BY <1>1 DEF TabType
<1>4. f2 = [f EXCEPT ![t] = [f[t] EXCEPT !.view = V]]
  OBVIOUS
<1> QED BY <1>2, <1>3, <1>4

PC == Running \cup {"idle", "done", "dead"}

\* Go moves one generation on.
LEMMA PcUpdate ==
    ASSUME NEW r \in GenType, NEW p \in PC
    PROVE  LET q == [r EXCEPT !.pc = p]
           IN  /\ q \in GenType /\ q.pc = p /\ q.tab = r.tab /\ q.user = r.user
               /\ q.to = r.to /\ q.base = r.base /\ q.remote = r.remote
BY DEF GenType, PC

LEMMA LiveUpdate ==
    ASSUME NEW r \in GenType, NEW b \in BOOLEAN
    PROVE  LET q == [r EXCEPT !.live = b]
           IN  /\ q \in GenType /\ q.pc = r.pc /\ q.tab = r.tab /\ q.user = r.user
               /\ q.to = r.to /\ q.base = r.base /\ q.remote = r.remote
BY DEF GenType

LEMMA GeneratingUpdate ==
    ASSUME NEW r \in TabType, NEW b \in BOOLEAN
    PROVE  LET q == [r EXCEPT !.generating = b]
           IN  q \in TabType /\ q.user = r.user /\ q.view = r.view
BY DEF TabType

-----------------------------------------------------------------------------
(* The parts of a step that keep the invariant.                             *)

\* The generations go on with what they started with.
GensKeep ==
    \A g \in Generation :
        /\ gen'[g].user = gen[g].user
        /\ gen'[g].pc = "idle" => gen[g].pc = "idle"
        /\ gen'[g].pc \in Running =>
             /\ gen[g].pc \in Running
             /\ gen'[g].tab = gen[g].tab /\ gen'[g].base = gen[g].base
             /\ ~mixed => /\ gen'[g].remote \subseteq Own(session)
                          /\ gen'[g].pc = "save" => gen'[g].to = session

\* The tabs show and receive images of the session's account.
TabsKeep ==
    ~mixed => \A t \in Tab :
        /\ tab'[t].user = session /\ tab'[t].view \subseteq Own(session)
        /\ restore'[t].pc # "none" => /\ restore'[t].user = session
                                      /\ restore'[t].remote \subseteq Own(session)
        /\ restore'[t].pc = "upload" => restore'[t].to = session
        /\ \A S \in refresh'[t] : S \subseteq Own(session)

\* The stores, and the saves on their way, keep to the images of their account.
StoresKeep ==
    ~mixed => /\ \A u \in User : server'[u] \cup local'[u] \cup idb'[u] \subseteq Own(u)
              /\ \A p \in posts' : p.user \in User /\ p.items \subseteq Own(p.user)

\* A step of these parts keeps the invariant.
LEMMA Preserved ==
    ASSUME ApartInv, TypeOK', session' = session, mixed' = mixed,
           GensKeep, TabsKeep, StoresKeep
    PROVE  ApartInv'
<1>1. \A u : Own(u)' = Own(u)
  BY DEF GensKeep, Own
<1>2. session \in User
  BY DEF ApartInv, TypeOK
<1>3. AccountsApart'
  BY <1>1, <1>2 DEF TabsKeep, StoresKeep, AccountsApart
<1>4. \A g \in Generation : gen'[g].pc = "idle" => gen'[g].user = NoUser
  BY DEF GensKeep, ApartInv
<1>5. ASSUME ~mixed', NEW t \in Tab PROVE TabOwn(t)'
  BY <1>1, <1>2, <1>5 DEF TabsKeep, TabOwn
<1>6. ASSUME ~mixed', NEW g \in Generation PROVE GenOwn(g)'
  BY <1>1, <1>2, <1>6 DEF GensKeep, GenOwn, ApartInv
<1>7. ASSUME ~mixed', NEW p \in posts' PROVE p.user \in User /\ p.items \subseteq Own(p.user)'
  BY <1>1, <1>7 DEF StoresKeep
<1> QED BY <1>3, <1>4, <1>5, <1>6, <1>7 DEF ApartInv

\* What is not touched is kept.
LEMMA GensFrame ==
    ASSUME ApartInv, gen' = gen PROVE GensKeep
BY DEF ApartInv, GenOwn, GensKeep

LEMMA TabsFrame ==
    ASSUME ApartInv, tab' = tab, restore' = restore, refresh' = refresh PROVE TabsKeep
BY DEF ApartInv, AccountsApart, TabOwn, TabsKeep

LEMMA StoresFrame ==
    ASSUME ApartInv, server' = server, local' = local, idb' = idb, posts' = posts
    PROVE  StoresKeep
BY DEF ApartInv, AccountsApart, StoresKeep

\* A generation that moves on.
LEMMA GoKeeps ==
    ASSUME ApartInv, NEW g \in Generation, gen[g].pc \in Running, 
           NEW p \in PC \ {"idle", "save"}, Go(g, p)
    PROVE  GensKeep /\ gen' \in [Generation -> GenType]
<1>1. gen \in [Generation -> GenType]
  BY DEF ApartInv, TypeOK
<1>2. gen' = [gen EXCEPT ![g] = [gen[g] EXCEPT !.pc = p]]
  BY DEF Go
<1>3. gen[g] \in GenType /\ p \in PC
  BY <1>1
<1>4. \A h \in Generation \ {g} : gen'[h] = gen[h]
  BY <1>1, <1>2
<1>5. gen'[g] = [gen[g] EXCEPT !.pc = p]
  BY <1>1, <1>2
<1>6. /\ gen'[g] \in GenType /\ gen'[g].pc = p /\ gen'[g].tab = gen[g].tab
      /\ gen'[g].user = gen[g].user
      /\ gen'[g].base = gen[g].base /\ gen'[g].remote = gen[g].remote
  BY <1>3, <1>5, PcUpdate
<1>7. gen' \in [Generation -> GenType]
  BY <1>1, <1>2, <1>5, <1>6
<1> QED BY <1>4, <1>6, <1>7 DEF ApartInv, GenOwn, GensKeep

\* What a handler of a generation works on is the account's.
LEMMA NewListOwn ==
    ASSUME ApartInv, NEW g \in Generation, gen[g].pc \in Running
    PROVE  /\ NewList(g) \in SUBSET Image
           /\ gen[g].user \in User \cup {NoUser}
           /\ gen[g].remote \in SUBSET Image
           /\ ~mixed => /\ gen[g].user = session /\ gen[g].tab \in Tab
                        /\ NewList(g) \subseteq Own(session)
                        /\ gen[g].pc = "save" => gen[g].to = session
                        /\ gen[g].remote \subseteq Own(session)
<1>1. gen[g] \in GenType
  BY DEF ApartInv, TypeOK
<1>2. gen[g].base \in SUBSET Image /\ gen[g].user \in User \cup {NoUser}
      /\ gen[g].remote \in SUBSET Image
  BY <1>1 DEF GenType
<1>3. NewList(g) \in SUBSET Image
  BY <1>2 DEF NewList, Image
<1>4. ~mixed => GenOwn(g)
  BY DEF ApartInv
<1> QED BY <1>2, <1>3, <1>4 DEF GenOwn, NewList, Own

\* A list of the account is shown.
LEMMA SetViewKeeps ==
    ASSUME ApartInv, NEW t \in Tab \cup {NoTab}, NEW b, NEW V \in SUBSET Image,
           ~mixed => V \subseteq Own(session), SetView(t, b, V)
    PROVE  /\ tab' \in [Tab -> TabType]
           /\ \A w \in Tab : /\ tab'[w].user = tab[w].user
                             /\ ~mixed => tab'[w].view \subseteq Own(session)
<1>1. tab \in [Tab -> TabType]
  BY DEF ApartInv, TypeOK
<1>2. \A w \in Tab : ~mixed => tab[w].view \subseteq Own(session)
  BY DEF ApartInv, AccountsApart, TabOwn
<1>3. CASE tab' = tab
  BY <1>1, <1>2, <1>3
<1>4. CASE t \in Tab /\ tab' = [tab EXCEPT ![t].view = V]
  BY <1>1, <1>2, <1>4, ViewUpdate
<1>5. ASSUME t = NoTab, tab' = [tab EXCEPT ![t].view = V] PROVE tab' = tab
  BY <1>1, <1>5, CanvasAssumption
<1> QED BY <1>3, <1>4, <1>5 DEF SetView

\* The generation state changes nothing of a list.
LEMMA SetFlagKeeps ==
    ASSUME ApartInv, NEW u \in User \cup {NoUser}, NEW b \in BOOLEAN, NEW t, NEW c, SetFlag(u, b, t, c)
    PROVE  /\ tab' \in [Tab -> TabType] /\ flag' \in [User -> BOOLEAN]
           /\ \A w \in Tab : /\ tab'[w].user = tab[w].user
                             /\ tab'[w].view = tab[w].view
<1>1. tab \in [Tab -> TabType] /\ flag \in [User -> BOOLEAN]
  BY DEF ApartInv, TypeOK
<1>2. ASSUME NEW w \in Tab
      PROVE  tab'[w] \in TabType /\ tab'[w].user = tab[w].user /\ tab'[w].view = tab[w].view
  <2>1. tab'[w] = tab[w] \/ tab'[w] = [tab[w] EXCEPT !.generating = b]
    BY DEF SetFlag
  <2>2. tab[w] \in TabType
    BY <1>1
  <2> QED BY <2>1, <2>2, GeneratingUpdate
<1>3. tab' \in [Tab -> TabType]
  BY <1>2 DEF SetFlag
<1>4. flag' \in [User -> BOOLEAN]
  BY <1>1 DEF SetFlag
<1> QED BY <1>2, <1>3, <1>4

\* What a page has sent belongs to the account it was sent for.
LEMMA SentOk ==
    ASSUME ApartInv, NEW t \in Tab
    PROVE  \A p \in Sent(t) \cup SentByRestore(t) :
               p \in PostType /\ (~mixed => p.user \in User /\ p.items \subseteq Own(p.user))
<1>1. ASSUME NEW p \in Sent(t)
      PROVE  p \in PostType /\ (~mixed => p.user \in User /\ p.items \subseteq Own(p.user))
  <2>1. PICK g \in Generation :
          /\ gen[g].pc = "save"
          /\ p = [user |-> gen[g].to, new |-> {g}, items |-> {g} \cup gen[g].base]
    BY <1>1 DEF Sent
  <2>2. gen[g].pc \in Running
    BY <2>1 DEF Running
  <2>3. gen[g].to \in User \cup {NoUser} /\ {g} \in SUBSET Image /\ session \in User
    BY DEF ApartInv, TypeOK, GenType, Image
  <2>4. /\ {g} \cup gen[g].base \in SUBSET Image
        /\ ~mixed => gen[g].to = session /\ {g} \cup gen[g].base \subseteq Own(session)
    BY <2>1, <2>2, NewListOwn DEF NewList
  <2>5. p.user = gen[g].to /\ p.items = {g} \cup gen[g].base
    BY <2>1
  <2>6. p \in PostType
    BY <2>1, <2>3, <2>4 DEF PostType
  <2> QED BY <2>3, <2>4, <2>5, <2>6
<1>2. ASSUME NEW p \in SentByRestore(t)
      PROVE  p \in PostType /\ (~mixed => p.user \in User /\ p.items \subseteq Own(p.user))
  <2>1. /\ restore[t].pc = "upload"
        /\ p = [user |-> restore[t].to, new |-> {}, items |-> restore[t].remote]
    BY <1>2 DEF SentByRestore
  <2>2. /\ restore[t].to \in User \cup {NoUser} /\ restore[t].remote \in SUBSET Image
    BY DEF ApartInv, TypeOK, RestoreType
  <2>3. p.user = restore[t].to /\ p.items = restore[t].remote
    BY <2>1
  <2>4. p \in PostType
    BY <2>1, <2>2 DEF PostType
  <2> QED BY <2>1, <2>3, <2>4 DEF ApartInv, TypeOK, TabOwn
<1> QED BY <1>1, <1>2

\* Leaving the canvas, or the page, ends or disconnects its handlers.
LEMMA LeaveOk ==
    ASSUME ApartInv, NEW t \in Tab, NEW u \in User, Leave(t, u)
    PROVE  /\ tab' \in [Tab -> TabType] /\ restore' \in [Tab -> RestoreType]
           /\ refresh' \in [Tab -> SUBSET SUBSET Image]
           /\ sock' \in [Tab -> User \cup {NoUser}] /\ events' \in [Tab -> SUBSET Event]
           /\ gen' \in [Generation -> GenType]
           /\ posts' \in SUBSET PostType
           /\ ~mixed => \A p \in posts' : p.user \in User /\ p.items \subseteq Own(p.user)
           /\ GensKeep
           /\ \A g \in Generation : gen'[g].pc = gen[g].pc /\ gen'[g].remote = gen[g].remote
           /\ \A w \in Tab : /\ tab'[w].user = IF w = t THEN u ELSE tab[w].user
                             /\ tab'[w].view = IF w = t THEN {} ELSE tab[w].view
                             /\ refresh'[w] = IF w = t THEN {} ELSE refresh[w]
                             /\ restore'[w].pc # "none" =>
                                  /\ restore'[w].pc = restore[w].pc
                                  /\ restore'[w].user = restore[w].user
                                  /\ restore'[w].to = restore[w].to
                                  /\ restore'[w].remote = restore[w].remote
<1>1. /\ tab \in [Tab -> TabType] /\ restore \in [Tab -> RestoreType]
      /\ refresh \in [Tab -> SUBSET SUBSET Image]
      /\ sock \in [Tab -> User \cup {NoUser}] /\ events \in [Tab -> SUBSET Event]
      /\ gen \in [Generation -> GenType]
  BY DEF ApartInv, TypeOK
<1>2. NewTab(u) \in TabType /\ NewTab(u).user = u /\ NewTab(u).view = {}
  BY DEF NewTab, TabType
<1>3. tab' \in [Tab -> TabType] /\ \A w \in Tab : tab'[w] = IF w = t THEN NewTab(u) ELSE tab[w]
  BY <1>1, <1>2 DEF Leave
<1>4. PICK q \in RestoreType :
        /\ restore' = [restore EXCEPT ![t] = q]
        /\ q.pc # "none" => /\ q.pc = restore[t].pc /\ q.user = restore[t].user
                            /\ q.to = restore[t].to /\ q.remote = restore[t].remote
  <2>1. CASE restore[t].pc = "upload"
    <3>1. restore' = [restore EXCEPT ![t] = NoRestore]
      BY <2>1 DEF Leave
    <3>2. NoRestore \in RestoreType /\ NoRestore.pc = "none"
      BY DEF NoRestore, RestoreType
    <3> QED BY <3>1, <3>2
  <2>2. CASE restore[t].pc # "upload"
    <3> DEFINE n == [restore[t] EXCEPT !.live = FALSE]
    <3>1. /\ n \in RestoreType /\ n.pc = restore[t].pc /\ n.user = restore[t].user
          /\ n.to = restore[t].to /\ n.remote = restore[t].remote
      BY <1>1 DEF RestoreType
    <3>2. restore' = [restore EXCEPT ![t] = n]
      BY <2>2 DEF Leave
    <3> QED BY <3>1, <3>2
  <2> QED BY <2>1, <2>2
<1>5. \A w \in Tab : restore'[w] = IF w = t THEN q ELSE restore[w]
  BY <1>1, <1>4
<1>6. /\ restore' \in [Tab -> RestoreType]
      /\ \A w \in Tab : restore'[w].pc # "none" =>
           /\ restore'[w].pc = restore[w].pc /\ restore'[w].user = restore[w].user
           /\ restore'[w].to = restore[w].to /\ restore'[w].remote = restore[w].remote
  BY <1>1, <1>4, <1>5
<1>7. ASSUME NEW g \in Generation
      PROVE  /\ gen'[g] \in GenType /\ gen'[g].pc = gen[g].pc /\ gen'[g].tab = gen[g].tab
             /\ gen'[g].user = gen[g].user /\ gen'[g].base = gen[g].base
             /\ gen'[g].to = gen[g].to /\ gen'[g].remote = gen[g].remote
  <2>1. gen'[g] = gen[g] \/ gen'[g] = [gen[g] EXCEPT !.live = FALSE]
    BY DEF Leave
  <2>2. gen[g] \in GenType
    BY <1>1
  <2> QED BY <2>1, <2>2, LiveUpdate
<1>8. gen' \in [Generation -> GenType]
  BY <1>7 DEF Leave
<1>9. GensKeep
  BY <1>7 DEF ApartInv, GenOwn, GensKeep
<1>10. /\ refresh' \in [Tab -> SUBSET SUBSET Image]
       /\ \A w \in Tab : refresh'[w] = IF w = t THEN {} ELSE refresh[w]
       /\ sock' \in [Tab -> User \cup {NoUser}] /\ events' \in [Tab -> SUBSET Event]
  BY <1>1 DEF Leave
<1>11. /\ posts' \in SUBSET PostType
       /\ ~mixed => \A p \in posts' : p.user \in User /\ p.items \subseteq Own(p.user)
  BY SentOk DEF Leave, ApartInv, TypeOK
<1> QED BY <1>2, <1>3, <1>6, <1>7, <1>8, <1>9, <1>10, <1>11

LEMMA UnloadOk ==
    ASSUME ApartInv, NEW t \in Tab, NEW u \in User, Unload(t, u)
    PROVE  /\ tab' \in [Tab -> TabType] /\ restore' \in [Tab -> RestoreType]
           /\ refresh' \in [Tab -> SUBSET SUBSET Image] /\ due' \in [Tab -> BOOLEAN]
           /\ sock' \in [Tab -> User \cup {NoUser}] /\ events' \in [Tab -> SUBSET Event]
           /\ idbDeletes' \in [Tab -> SUBSET User]
           /\ gen' \in [Generation -> GenType]
           /\ posts' \in SUBSET PostType
           /\ ~mixed => \A p \in posts' : p.user \in User /\ p.items \subseteq Own(p.user)
           /\ GensKeep
           /\ \A g \in Generation : gen'[g].pc \in Running => gen[g].tab # t
           /\ \A w \in Tab : /\ tab'[w].user = IF w = t THEN u ELSE tab[w].user
                             /\ tab'[w].view = IF w = t THEN {} ELSE tab[w].view
                             /\ refresh'[w] = IF w = t THEN {} ELSE refresh[w]
                             /\ restore'[w] = IF w = t THEN NoRestore ELSE restore[w]
<1>1. /\ tab \in [Tab -> TabType] /\ restore \in [Tab -> RestoreType]
      /\ refresh \in [Tab -> SUBSET SUBSET Image] /\ due \in [Tab -> BOOLEAN]
      /\ sock \in [Tab -> User \cup {NoUser}] /\ events \in [Tab -> SUBSET Event]
      /\ idbDeletes \in [Tab -> SUBSET User]
      /\ gen \in [Generation -> GenType]
  BY DEF ApartInv, TypeOK
<1>2. NewTab(u) \in TabType /\ NewTab(u).user = u /\ NewTab(u).view = {}
  BY DEF NewTab, TabType
<1>3. tab' \in [Tab -> TabType] /\ \A w \in Tab : tab'[w] = IF w = t THEN NewTab(u) ELSE tab[w]
  BY <1>1, <1>2 DEF Unload
<1>4. NoRestore \in RestoreType
  BY DEF NoRestore, RestoreType
<1>5. /\ restore' \in [Tab -> RestoreType]
      /\ \A w \in Tab : restore'[w] = IF w = t THEN NoRestore ELSE restore[w]
  BY <1>1, <1>4 DEF Unload
<1>6. "dead" \in PC /\ "dead" \notin Running /\ "dead" # "idle" /\ "idle" \notin Running
  BY DEF PC, Running
<1>7. ASSUME NEW g \in Generation
      PROVE  /\ gen'[g] \in GenType /\ gen'[g].user = gen[g].user
             /\ gen'[g].pc = "idle" => gen[g].pc = "idle"
             /\ gen'[g].pc \in Running => gen'[g] = gen[g] /\ gen[g].tab # t
  <2>1. gen'[g] = IF gen[g].tab = t /\ gen[g].pc \in Running
                  THEN [gen[g] EXCEPT !.pc = "dead"] ELSE gen[g]
    BY DEF Unload
  <2>2. gen[g] \in GenType
    BY <1>1
  <2>3. CASE gen[g].tab = t /\ gen[g].pc \in Running
    BY <1>6, <2>1, <2>2, <2>3, PcUpdate
  <2>4. CASE ~(gen[g].tab = t /\ gen[g].pc \in Running)
    BY <1>6, <2>1, <2>2, <2>4
  <2> QED BY <2>3, <2>4
<1>8. gen' \in [Generation -> GenType]
  BY <1>7 DEF Unload
<1>9. GensKeep
  BY <1>7 DEF ApartInv, GenOwn, GensKeep
<1>10. /\ refresh' \in [Tab -> SUBSET SUBSET Image] /\ due' \in [Tab -> BOOLEAN]
       /\ \A w \in Tab : refresh'[w] = IF w = t THEN {} ELSE refresh[w]
       /\ sock' \in [Tab -> User \cup {NoUser}] /\ events' \in [Tab -> SUBSET Event]
       /\ idbDeletes' \in [Tab -> SUBSET User]
  BY <1>1 DEF Unload
<1>11. /\ posts' \in SUBSET PostType
       /\ ~mixed => \A p \in posts' : p.user \in User /\ p.items \subseteq Own(p.user)
  BY SentOk DEF Unload, ApartInv, TypeOK
<1> QED BY <1>2, <1>3, <1>5, <1>7, <1>8, <1>9, <1>10, <1>11

-----------------------------------------------------------------------------
(* Every action keeps the invariant.                                        *)

\* An account comes in: nothing of another one is left, or mixed is set.
LEMMA SwitchAccountStep ==
    ASSUME ApartInv, NEW t \in Tab, NEW u \in User, SwitchAccount(t, u)
    PROVE  ApartInv'
<1>1. Unload(t, u) /\ session' = u /\ mixed' = (mixed \/ OthersOpen(t, u)) /\ u # tab[t].user
  BY DEF SwitchAccount
<1>2. TypeOK'
  BY <1>1, UnloadOk DEF ApartInv, TypeOK, SwitchAccount, storeVars
<1>3. GensKeep
  BY <1>1, UnloadOk
<1>4. \A v : Own(v)' = Own(v)
  BY <1>3 DEF GensKeep, Own
<1>5. server' = server /\ local' = local /\ idb' = idb
  BY DEF SwitchAccount, storeVars
<1>6. ASSUME ~mixed' PROVE ~mixed /\ \A w \in Tab : w = t
  <2>1. ~mixed /\ \A w \in Tab \ {t} : tab[w].user = u
    BY <1>1, <1>6 DEF OthersOpen
  <2>2. \A w \in Tab : tab[w].user = session
    BY <2>1 DEF ApartInv, TabOwn
  <2> QED BY <1>1, <2>1, <2>2
<1>7. AccountsApart'
  BY <1>1, <1>4, <1>5, <1>6, UnloadOk DEF AccountsApart, ApartInv
<1>8. \A g \in Generation : gen'[g].pc = "idle" => gen'[g].user = NoUser
  BY <1>3 DEF GensKeep, ApartInv
<1>9. ASSUME ~mixed', NEW w \in Tab PROVE TabOwn(w)'
  <2>1. w = t
    BY <1>6, <1>9
  <2>2. tab'[w].user = u /\ refresh'[w] = {} /\ restore'[w].pc = "none"
    BY <1>1, <2>1, UnloadOk DEF NoRestore
  <2> QED BY <1>1, <2>2 DEF TabOwn
<1>10. ASSUME ~mixed', NEW g \in Generation PROVE GenOwn(g)'
  <2>1. gen'[g].pc \in Running => gen[g].tab # t /\ gen[g].pc \in Running
    BY <1>1, <1>3, UnloadOk DEF GensKeep
  <2>2. gen[g].pc \in Running => gen[g].tab = t
    BY <1>6, <1>10 DEF ApartInv, GenOwn
  <2> QED BY <2>1, <2>2 DEF GenOwn
<1>11. ASSUME ~mixed', NEW p \in posts' PROVE p.user \in User /\ p.items \subseteq Own(p.user)'
  BY <1>1, <1>4, <1>6, <1>11, UnloadOk
<1> QED BY <1>2, <1>7, <1>8, <1>9, <1>10, <1>11 DEF ApartInv

LEMMA SignInAgainStep ==
    ASSUME ApartInv, NEW t \in Tab, NEW u \in User, SignInAgain(t, u)
    PROVE  ApartInv'
<1>1. /\ Leave(t, u) /\ session' = u
      /\ mixed' = (mixed \/ OthersOpen(t, u) \/ (u # tab[t].user /\ Replacing(t)))
  BY DEF SignInAgain
<1>2. TypeOK'
  BY <1>1, LeaveOk DEF ApartInv, TypeOK, SignInAgain, storeVars
<1>3. GensKeep
  BY <1>1, LeaveOk
<1>4. \A v : Own(v)' = Own(v)
  BY <1>3 DEF GensKeep, Own
<1>5. server' = server /\ local' = local /\ idb' = idb
  BY DEF SignInAgain, storeVars
<1>6. ASSUME ~mixed', u # session
      PROVE  ~mixed /\ ~Replacing(t) /\ \A w \in Tab : w = t
  BY <1>1, <1>6 DEF OthersOpen, ApartInv, TabOwn
<1>7. ~mixed' => ~mixed
  BY <1>1
<1>8. AccountsApart'
  BY <1>1, <1>4, <1>5, <1>7, LeaveOk DEF AccountsApart, ApartInv
<1>9. \A g \in Generation : gen'[g].pc = "idle" => gen'[g].user = NoUser
  BY <1>3 DEF GensKeep, ApartInv
<1>10. ASSUME ~mixed', NEW w \in Tab PROVE TabOwn(w)'
  <2>1. CASE u = session
    BY <1>1, <1>4, <1>7, <1>10, <2>1, LeaveOk DEF ApartInv, TabOwn
  <2>2. CASE u # session
    <3>1. w = t /\ restore[w].pc = "none"
      BY <1>6, <1>10, <2>2 DEF Replacing
    <3>2. tab'[w].user = u /\ refresh'[w] = {} /\ restore'[w].pc = "none"
      BY <1>1, <3>1, LeaveOk
    <3> QED BY <1>1, <3>2 DEF TabOwn
  <2> QED BY <2>1, <2>2
<1>11. ASSUME ~mixed', NEW g \in Generation PROVE GenOwn(g)'
  <2>1. CASE u = session
    BY <1>1, <1>3, <1>4, <1>7, <1>11, <2>1 DEF ApartInv, GenOwn, GensKeep
  <2>2. CASE u # session
    <3>1. gen[g].pc \notin Running
      BY <1>6, <1>11, <2>2 DEF Replacing, ApartInv, GenOwn
    <3> QED BY <1>3, <3>1 DEF GenOwn, GensKeep
  <2> QED BY <2>1, <2>2
<1>12. ASSUME ~mixed', NEW p \in posts' PROVE p.user \in User /\ p.items \subseteq Own(p.user)'
  BY <1>1, <1>4, <1>7, <1>12, LeaveOk
<1> QED BY <1>2, <1>8, <1>9, <1>10, <1>11, <1>12 DEF ApartInv

LEMMA ReloadStep ==
    ASSUME ApartInv, NEW t \in Tab, Reload(t) PROVE ApartInv'
<1>1. Unload(t, session) /\ session \in User
  BY DEF Reload, ApartInv, TypeOK
<1>2. TypeOK'
  BY <1>1, UnloadOk DEF ApartInv, TypeOK, Reload, storeVars, bounds
<1>3. GensKeep
  BY <1>1, UnloadOk
<1>4. TabsKeep
  BY <1>1, UnloadOk DEF TabsKeep, ApartInv, AccountsApart, TabOwn, NoRestore
<1>5. StoresKeep
  BY <1>1, UnloadOk DEF StoresKeep, ApartInv, AccountsApart, Reload, storeVars
<1> QED BY <1>2, <1>3, <1>4, <1>5, Preserved DEF Reload

LEMMA UnmountStep ==
    ASSUME ApartInv, NEW t \in Tab, Unmount(t) PROVE ApartInv'
<1>1. Leave(t, tab[t].user) /\ tab[t].user \in User
  BY DEF Unmount, ApartInv, TypeOK, TabType
<1>2. TypeOK'
  BY <1>1, LeaveOk DEF ApartInv, TypeOK, Unmount, storeVars, clearVars, bounds
<1>3. GensKeep
  BY <1>1, LeaveOk
<1>4. TabsKeep
  BY <1>1, LeaveOk DEF TabsKeep, ApartInv, AccountsApart, TabOwn
<1>5. StoresKeep
  BY <1>1, LeaveOk DEF StoresKeep, ApartInv, AccountsApart, Unmount, storeVars
<1> QED BY <1>2, <1>3, <1>4, <1>5, Preserved DEF Unmount, clearVars

LEMMA MountStep ==
    ASSUME ApartInv, NEW t \in Tab, Mount(t) PROVE ApartInv'
<1>1. tab[t] \in TabType /\ tab[t].user \in User
  BY DEF ApartInv, TypeOK, TabType
<1>2. PICK expired \in BOOLEAN :
        /\ expired => flag[tab[t].user]
        /\ flag' = [flag EXCEPT ![tab[t].user] = @ /\ ~expired]
        /\ tab' = [tab EXCEPT ![t] = [NewTab(tab[t].user) EXCEPT !.mounted = TRUE,
                                        !.generating = flag[tab[t].user] /\ ~expired]]
  BY DEF Mount
<1> DEFINE b == flag[tab[t].user] /\ ~expired
           n == [NewTab(tab[t].user) EXCEPT !.mounted = TRUE, !.generating = b]
           r == [NoRestore EXCEPT !.pc = "asked", !.live = TRUE, !.user = tab[t].user]
<1>3. b \in BOOLEAN
  OBVIOUS
<1> HIDE DEF b
<1>4. n \in TabType /\ n.user = tab[t].user /\ n.view = {}
  BY <1>1, <1>3 DEF NewTab, TabType
<1>5. r \in RestoreType /\ r.pc = "asked" /\ r.user = tab[t].user /\ r.remote = {}
  BY <1>1 DEF RestoreType, NoRestore
<1>6. tab' = [tab EXCEPT ![t] = n] /\ restore' = [restore EXCEPT ![t] = r]
  BY <1>2 DEF Mount, b
<1> HIDE DEF n, r
<1>7. /\ tab \in [Tab -> TabType] /\ restore \in [Tab -> RestoreType]
      /\ flag \in [User -> BOOLEAN]
  BY DEF ApartInv, TypeOK
<1>8. tab' \in [Tab -> TabType] /\ restore' \in [Tab -> RestoreType]
  BY <1>4, <1>5, <1>6, <1>7
<1>9. flag' \in [User -> BOOLEAN]
  BY <1>2, <1>7
<1>10. TypeOK'
  BY <1>8, <1>9 DEF ApartInv, TypeOK, Mount, clearVars
<1>11. GensKeep
  BY GensFrame DEF Mount
<1>12. ASSUME ~mixed, NEW w \in Tab
       PROVE  /\ tab'[w].user = session /\ tab'[w].view \subseteq Own(session)
              /\ restore'[w].pc # "none" => /\ restore'[w].user = session
                                            /\ restore'[w].remote \subseteq Own(session)
              /\ restore'[w].pc = "upload" => restore'[w].to = session
              /\ \A S \in refresh'[w] : S \subseteq Own(session)
  <2>1. TabOwn(w) /\ TabOwn(t) /\ tab[w].view \subseteq Own(tab[w].user)
    BY <1>12 DEF ApartInv, AccountsApart
  <2>2. refresh' = refresh
    BY DEF Mount
  <2>3. CASE w = t
    BY <1>4, <1>5, <1>6, <1>7, <2>1, <2>2, <2>3 DEF TabOwn
  <2>4. CASE w # t
    BY <1>6, <1>7, <2>1, <2>2, <2>4 DEF TabOwn
  <2> QED BY <2>3, <2>4
<1>13. TabsKeep
  BY <1>12 DEF TabsKeep
<1>14. StoresKeep
  BY StoresFrame DEF Mount, clearVars
<1> QED BY <1>10, <1>11, <1>13, <1>14, Preserved DEF Mount, clearVars

\* Only the connection and the events change.
LEMMA SocketStep ==
    ASSUME ApartInv, NEW t \in Tab, Connect(t) \/ Disconnect(t) PROVE ApartInv'
<1>1. /\ session' = session /\ mixed' = mixed /\ gen' = gen
      /\ tab' = tab /\ restore' = restore /\ refresh' = refresh
      /\ server' = server /\ local' = local /\ idb' = idb /\ posts' = posts
  BY DEF Connect, Disconnect, storeVars, clearVars
<1>2. TypeOK'
  BY DEF ApartInv, TypeOK, Connect, Disconnect, storeVars, clearVars, bounds
<1> QED BY <1>1, <1>2, GensFrame, TabsFrame, StoresFrame, Preserved

\* Of the tabs only the restore effect and the list of one change, to images of the account.
LEMMA RestoreKeeps ==
    ASSUME ApartInv, NEW t \in Tab, NEW r \in RestoreType,
           restore' = [restore EXCEPT ![t] = r],
           ~mixed /\ r.pc # "none" => r.user = session /\ r.remote \subseteq Own(session),
           ~mixed /\ r.pc = "upload" => r.to = session,
           refresh' = refresh,
           \A w \in Tab : /\ tab'[w].user = tab[w].user
                          /\ ~mixed => tab'[w].view \subseteq Own(session)
    PROVE  TabsKeep /\ restore' \in [Tab -> RestoreType]
<1>1. restore \in [Tab -> RestoreType]
  BY DEF ApartInv, TypeOK
<1>2. restore' \in [Tab -> RestoreType] /\ \A w \in Tab : restore'[w] = IF w = t THEN r ELSE restore[w]
  BY <1>1
<1>3. ASSUME ~mixed, NEW w \in Tab
      PROVE  /\ tab'[w].user = session /\ tab'[w].view \subseteq Own(session)
             /\ restore'[w].pc # "none" => /\ restore'[w].user = session
                                           /\ restore'[w].remote \subseteq Own(session)
             /\ restore'[w].pc = "upload" => restore'[w].to = session
             /\ \A S \in refresh'[w] : S \subseteq Own(session)
  BY <1>2, <1>3 DEF ApartInv, TabOwn
<1> QED BY <1>2, <1>3 DEF TabsKeep

\* The lists a tab has when nothing is shown.
LEMMA ViewsOwn ==
    ASSUME ApartInv PROVE \A w \in Tab : ~mixed => tab[w].view \subseteq Own(session)
BY DEF ApartInv, AccountsApart, TabOwn

\* What the stores hold for the account of a restore effect.
LEMMA RestoreOwn ==
    ASSUME ApartInv, NEW t \in Tab, restore[t].pc # "none"
    PROVE  /\ restore[t] \in RestoreType
           /\ restore[t].user \in User /\ restore[t].remote \in SUBSET Image
           /\ ~mixed => /\ restore[t].user = session /\ session \in User
                        /\ restore[t].remote \subseteq Own(session)
                        /\ server[session] \subseteq Own(session)
                        /\ local[session] \subseteq Own(session)
                        /\ idb[session] \subseteq Own(session)
                        /\ session \in Admin => Legacy \subseteq Own(session)
<1>1. restore[t] \in RestoreType /\ session \in User
  BY DEF ApartInv, TypeOK
<1>2. restore[t].user \in User /\ restore[t].remote \in SUBSET Image
  BY <1>1 DEF RestoreType
<1>3. session \in Admin => Legacy \subseteq Own(session)
  BY DEF Own
<1> QED BY <1>1, <1>2, <1>3 DEF ApartInv, TabOwn, AccountsApart

\* An effect of an account is mounted in a tab of it; there is none for NoUser.
LEMMA NoRestoreOk == NoRestore \in RestoreType /\ NoRestore.pc = "none"
BY DEF NoRestore, RestoreType

LEMMA RestoreAnswerStep ==
    ASSUME ApartInv, NEW t \in Tab, RestoreAnswer(t) PROVE ApartInv'
<1>1. restore[t].pc # "none" /\ restore[t] \in RestoreType
  BY DEF RestoreAnswer, ApartInv, TypeOK
<1>2. server[session] \in SUBSET Image
  BY DEF ApartInv, TypeOK
<1>3. PICK r \in RestoreType :
        /\ restore' = [restore EXCEPT ![t] = r] /\ r.user = restore[t].user
        /\ r.pc # "upload"
        /\ r.remote = restore[t].remote \/ r.remote = server[session]
  <2>1. \/ restore' = [restore EXCEPT ![t] = [restore[t] EXCEPT !.pc = "answered",
                                                       !.remote = server[session]]]
        \/ restore' = [restore EXCEPT ![t] = [restore[t] EXCEPT !.pc = "failed"]]
    BY DEF RestoreAnswer
  <2>2. CASE restore' = [restore EXCEPT ![t] = [restore[t] EXCEPT !.pc = "answered",
                                                       !.remote = server[session]]]
    <3> DEFINE q == [restore[t] EXCEPT !.pc = "answered", !.remote = server[session]]
    <3>1. /\ q \in RestoreType /\ q.pc = "answered" /\ q.user = restore[t].user
          /\ q.remote = server[session]
      BY <1>1, <1>2 DEF RestoreType
    <3> QED BY <2>2, <3>1
  <2>3. CASE restore' = [restore EXCEPT ![t] = [restore[t] EXCEPT !.pc = "failed"]]
    <3>1. /\ [restore[t] EXCEPT !.pc = "failed"] \in RestoreType
          /\ [restore[t] EXCEPT !.pc = "failed"].pc = "failed"
          /\ [restore[t] EXCEPT !.pc = "failed"].user = restore[t].user
          /\ [restore[t] EXCEPT !.pc = "failed"].remote = restore[t].remote
      BY <1>1 DEF RestoreType
    <3> QED BY <2>3, <3>1
  <2> QED BY <2>1, <2>2, <2>3
<1>4. ~mixed => r.user = session /\ r.remote \subseteq Own(session)
  BY <1>1, <1>3, RestoreOwn
<1>5. TabsKeep /\ restore' \in [Tab -> RestoreType]
  BY <1>3, <1>4, ViewsOwn, RestoreKeeps DEF RestoreAnswer
<1>6. TypeOK'
  BY <1>5 DEF ApartInv, TypeOK, RestoreAnswer, Faulty, storeVars, clearVars, bounds
<1> QED BY <1>5, <1>6, GensFrame, StoresFrame, Preserved DEF RestoreAnswer, storeVars, clearVars

\* The server's, or a store's, images are shown.
LEMMA RestoreShowStep ==
    ASSUME ApartInv, NEW t \in Tab, RestoreMerge(t) \/ RestoreFallback(t) PROVE ApartInv'
<1>1. restore[t].pc # "none"
  BY DEF RestoreMerge, RestoreFallback
<1> DEFINE r == restore[t]
           both == r.remote \cup local[r.user] \cup idb[r.user]
<1>2. PICK V, b : /\ SetView(t, b, V)
                  /\ V = both \/ V = idb[r.user]
  BY DEF RestoreMerge, RestoreFallback
<1>3. r.user \in User
  BY <1>1, RestoreOwn
<1>4. V \in SUBSET Image
  BY <1>1, <1>2, <1>3, RestoreOwn DEF ApartInv, TypeOK
<1>5. ~mixed => V \subseteq Own(session)
  BY <1>1, <1>2, RestoreOwn
<1>6. /\ tab' \in [Tab -> TabType]
      /\ \A w \in Tab : /\ tab'[w].user = tab[w].user
                        /\ ~mixed => tab'[w].view \subseteq Own(session)
  BY <1>2, <1>4, <1>5, SetViewKeeps
<1>7. TabsKeep /\ restore' \in [Tab -> RestoreType]
  BY <1>6, NoRestoreOk, RestoreKeeps DEF RestoreMerge, RestoreFallback, RestoreEnds
<1>8. TypeOK'
  BY <1>6, <1>7
     DEF ApartInv, TypeOK, RestoreMerge, RestoreFallback, storeVars, clearVars, bounds
<1> QED BY <1>7, <1>8, GensFrame, StoresFrame, Preserved
     DEF RestoreMerge, RestoreFallback, storeVars, clearVars

\* localStorage stands in for the server; an administrator takes the old entry over.
LEMMA RestoreLocalStep ==
    ASSUME ApartInv, NEW t \in Tab, RestoreLocal(t) PROVE ApartInv'
<1>1. restore[t].pc # "none"
  BY DEF RestoreLocal
<1> DEFINE r == restore[t]
           mine == IF r.user \in Admin THEN legacyLocal ELSE {}
           restored == local[r.user] \cup mine
<1>2. r.user \in User /\ r \in RestoreType
  BY <1>1, RestoreOwn
<1>3. mine \in SUBSET Legacy
  BY DEF ApartInv, TypeOK
<1>4. restored \in SUBSET Image
  BY <1>2, <1>3 DEF ApartInv, TypeOK, Image
<1>5. ~mixed => r.user = session /\ restored \subseteq Own(session)
  BY <1>1, <1>3, RestoreOwn
<1>6. \/ local' = [local EXCEPT ![r.user] = restored] /\ legacyLocal' = {} /\ faults' = faults
      \/ local' = local /\ legacyLocal' = legacyLocal /\ Faulty
  BY DEF RestoreLocal
<1>7. \/ SetView(t, r.live, restored) /\ RestoreEnds(t)
      \/ restore' = [restore EXCEPT ![t].pc = "indexed"] /\ tab' = tab
  BY DEF RestoreLocal
<1> HIDE DEF restored, mine
<1>8. /\ tab' \in [Tab -> TabType]
      /\ \A w \in Tab : /\ tab'[w].user = tab[w].user
                        /\ ~mixed => tab'[w].view \subseteq Own(session)
  <2>1. CASE SetView(t, r.live, restored)
    BY <1>4, <1>5, <2>1, SetViewKeeps
  <2>2. CASE tab' = tab
    BY <2>2, ViewsOwn DEF ApartInv, TypeOK
  <2> QED BY <1>7, <2>1, <2>2
<1>9. PICK q \in RestoreType :
        /\ restore' = [restore EXCEPT ![t] = q]
        /\ q.pc = "none" \/ (q.pc = "indexed" /\ q.user = r.user /\ q.remote = r.remote)
  <2>1. CASE RestoreEnds(t)
    BY <2>1, NoRestoreOk DEF RestoreEnds
  <2>2. CASE restore' = [restore EXCEPT ![t].pc = "indexed"]
    <3> DEFINE q == [restore[t] EXCEPT !.pc = "indexed"]
    <3>1. q \in RestoreType /\ q.pc = "indexed" /\ q.user = r.user /\ q.remote = r.remote
      BY <1>2 DEF RestoreType
    <3> QED BY <2>2, <3>1
  <2> QED BY <1>7, <2>1, <2>2
<1>10. /\ q.pc # "upload"
       /\ ~mixed /\ q.pc # "none" => q.user = session /\ q.remote \subseteq Own(session)
  BY <1>1, <1>9, RestoreOwn
<1>11. refresh' = refresh
  BY DEF RestoreLocal
<1>12. TabsKeep /\ restore' \in [Tab -> RestoreType]
  BY <1>8, <1>9, <1>10, <1>11, RestoreKeeps
<1>13. local' \in [User -> SUBSET Image] /\ legacyLocal' \in SUBSET Legacy /\ faults' \in Nat
  BY <1>4, <1>6 DEF ApartInv, TypeOK, Faulty
<1>14. TypeOK'
  BY <1>8, <1>12, <1>13 DEF ApartInv, TypeOK, RestoreLocal, clearVars, bounds
<1>15. StoresKeep
  <2>1. \A u \in User : ~mixed => local'[u] \subseteq Own(u)
    BY <1>5, <1>6 DEF ApartInv, TypeOK, AccountsApart
  <2> QED BY <2>1 DEF StoresKeep, ApartInv, AccountsApart, RestoreLocal, clearVars
<1>16. GensKeep
  BY GensFrame DEF RestoreLocal
<1> QED BY <1>12, <1>14, <1>15, <1>16, Preserved DEF RestoreLocal, clearVars

\* IndexedDB stands in for localStorage.
LEMMA RestoreIndexedStep ==
    ASSUME ApartInv, NEW t \in Tab, RestoreIndexed(t) PROVE ApartInv'
<1>1. restore[t].pc # "none"
  BY DEF RestoreIndexed
<1> DEFINE r == restore[t]
           mine == IF r.user \in Admin THEN legacyIdb ELSE {}
           indexed == idb[r.user] \cup mine
<1>2. r.user \in User /\ r \in RestoreType
  BY <1>1, RestoreOwn
<1>3. mine \in SUBSET Legacy
  BY DEF ApartInv, TypeOK
<1>4. indexed \in SUBSET Image
  BY <1>2, <1>3 DEF ApartInv, TypeOK, Image
<1>5. ~mixed => r.user = session /\ indexed \subseteq Own(session)
  BY <1>1, <1>3, RestoreOwn
<1>6. /\ idb' = idb \/ idb' = [idb EXCEPT ![r.user] = indexed]
      /\ legacyIdb' = legacyIdb \/ legacyIdb' = legacyIdb \ mine
      /\ faults' = faults \/ Faulty
  BY DEF RestoreIndexed
<1>7. \/ /\ SetView(t, TRUE, indexed)
         /\ restore' = [restore EXCEPT ![t] = [r EXCEPT !.pc = "upload", !.to = session,
                                                            !.remote = indexed]]
      \/ RestoreEnds(t) /\ tab' = tab
  BY DEF RestoreIndexed
<1> HIDE DEF indexed, mine
<1>8. /\ tab' \in [Tab -> TabType]
      /\ \A w \in Tab : /\ tab'[w].user = tab[w].user
                        /\ ~mixed => tab'[w].view \subseteq Own(session)
  <2>1. CASE SetView(t, TRUE, indexed)
    BY <1>4, <1>5, <2>1, SetViewKeeps
  <2>2. CASE tab' = tab
    BY <2>2, ViewsOwn DEF ApartInv, TypeOK
  <2> QED BY <1>7, <2>1, <2>2
<1>9. PICK q \in RestoreType :
        /\ restore' = [restore EXCEPT ![t] = q]
        /\ q.pc = "none" \/ (q.user = r.user /\ q.to = session /\ q.remote = indexed)
  <2>1. CASE RestoreEnds(t)
    BY <2>1, NoRestoreOk DEF RestoreEnds
  <2>2. CASE restore' = [restore EXCEPT ![t] = [r EXCEPT !.pc = "upload", !.to = session,
                                                            !.remote = indexed]]
    <3> DEFINE q == [r EXCEPT !.pc = "upload", !.to = session,
                                                            !.remote = indexed]
    <3>1. q \in RestoreType /\ q.user = r.user /\ q.to = session /\ q.remote = indexed
      BY <1>2, <1>4 DEF RestoreType, ApartInv, TypeOK
    <3> QED BY <2>2, <3>1
  <2> QED BY <1>7, <2>1, <2>2
<1>10. /\ ~mixed /\ q.pc # "none" => q.user = session /\ q.remote \subseteq Own(session)
       /\ ~mixed /\ q.pc = "upload" => q.to = session
  BY <1>5, <1>9
<1>11. refresh' = refresh
  BY DEF RestoreIndexed
<1>12. TabsKeep /\ restore' \in [Tab -> RestoreType]
  BY <1>8, <1>9, <1>10, <1>11, RestoreKeeps
<1>13. idb' \in [User -> SUBSET Image] /\ legacyIdb' \in SUBSET Legacy /\ faults' \in Nat
  BY <1>4, <1>6 DEF ApartInv, TypeOK, Faulty
<1>14. TypeOK'
  BY <1>8, <1>12, <1>13 DEF ApartInv, TypeOK, RestoreIndexed, clearVars, bounds
<1>15. StoresKeep
  <2>1. \A u \in User : ~mixed => idb'[u] \subseteq Own(u)
    BY <1>5, <1>6 DEF ApartInv, TypeOK, AccountsApart
  <2> QED BY <2>1 DEF StoresKeep, ApartInv, AccountsApart, RestoreIndexed, clearVars
<1>16. GensKeep
  BY GensFrame DEF RestoreIndexed
<1> QED BY <1>12, <1>14, <1>15, <1>16, Preserved DEF RestoreIndexed, clearVars

\* SaveCanvasHistory stores a list of an account, or a part of it.
LEMMA SaveKeeps ==
    ASSUME ApartInv, NEW v, NEW new, NEW items \in SUBSET Image,
           ~mixed => items \subseteq Own(v), SaveCanvasHistory(v, new, items)
    PROVE  /\ server' \in [User -> SUBSET Image] /\ faults' \in Nat
           /\ \A u \in User : ~mixed => server'[u] \subseteq Own(u)
<1>1. PICK S \in SUBSET items : server' = [server EXCEPT ![v] = @ \cup S]
  BY DEF SaveCanvasHistory
<1>2. faults' \in Nat
  BY DEF SaveCanvasHistory, Faulty, ApartInv, TypeOK
<1>3. server \in [User -> SUBSET Image]
  BY DEF ApartInv, TypeOK
<1>4. \A u \in User : ~mixed => server[u] \subseteq Own(u)
  BY DEF ApartInv, AccountsApart
<1>5. \A u \in User : server'[u] = IF u = v THEN server[u] \cup S ELSE server[u]
  BY <1>1, <1>3
<1>6. server' \in [User -> SUBSET Image]
  BY <1>1, <1>3
<1> QED BY <1>2, <1>4, <1>5, <1>6

LEMMA RestoreUploadStep ==
    ASSUME ApartInv, NEW t \in Tab, RestoreUpload(t) PROVE ApartInv'
<1>1. restore[t].pc # "none"
  BY DEF RestoreUpload
<1>2. /\ server' \in [User -> SUBSET Image] /\ faults' \in Nat
      /\ \A u \in User : ~mixed => server'[u] \subseteq Own(u)
  <2>1. /\ SaveCanvasHistory(restore[t].to, {}, restore[t].remote)
        /\ ~mixed => restore[t].to = session
    BY DEF RestoreUpload, ApartInv, TabOwn
  <2> QED BY <1>1, <2>1, RestoreOwn, SaveKeeps
<1>3. /\ restore' = [restore EXCEPT ![t] = NoRestore] /\ tab' = tab /\ refresh' = refresh
  BY DEF RestoreUpload, RestoreEnds
<1>4. TabsKeep /\ restore' \in [Tab -> RestoreType]
  BY <1>3, NoRestoreOk, ViewsOwn, RestoreKeeps
<1>5. TypeOK'
  BY <1>2, <1>4 DEF ApartInv, TypeOK, RestoreUpload, clearVars, bounds
<1>6. StoresKeep
  BY <1>2 DEF StoresKeep, ApartInv, AccountsApart, RestoreUpload, clearVars
<1> QED BY <1>4, <1>5, <1>6, GensFrame, Preserved DEF RestoreUpload, clearVars

\* A new generation starts from the list of its tab.
LEMMA GenerateStarts ==
    ASSUME ApartInv, NEW g \in Generation, NEW t \in Tab, Generate(g, t) PROVE ApartInv'
<1> DEFINE u == tab[t].user
           n == [NotStarted EXCEPT !.pc = "key", !.tab = t, !.user = u, !.live = TRUE,
                                   !.base = tab[t].view]
<1>1. tab[t] \in TabType /\ u \in User /\ tab[t].view \in SUBSET Image
  BY DEF ApartInv, TypeOK, TabType
<1>2. /\ n \in GenType /\ n.pc = "key" /\ n.tab = t /\ n.user = u
      /\ n.base = tab[t].view /\ n.remote = {}
  BY <1>1 DEF NotStarted, GenType, Running
<1>3. gen' = [gen EXCEPT ![g] = n] /\ gen[g].pc = "idle" /\ SetFlag(u, TRUE, t, TRUE)
  BY DEF Generate
<1> HIDE DEF n, u
<1>4. gen \in [Generation -> GenType]
  BY DEF ApartInv, TypeOK
<1>5. gen' \in [Generation -> GenType] /\ \A h \in Generation : gen'[h] = IF h = g THEN n ELSE gen[h]
  BY <1>2, <1>3, <1>4
<1>6. /\ tab' \in [Tab -> TabType] /\ flag' \in [User -> BOOLEAN]
      /\ \A w \in Tab : tab'[w].user = tab[w].user /\ tab'[w].view = tab[w].view
  BY <1>1, <1>3, SetFlagKeeps
<1>7. TypeOK'
  BY <1>5, <1>6 DEF ApartInv, TypeOK, Generate, clearVars, bounds
<1>8. /\ session' = session /\ mixed' = mixed /\ restore' = restore /\ refresh' = refresh
      /\ server' = server /\ local' = local /\ idb' = idb /\ posts' = posts
  BY DEF Generate, clearVars
<1>9. gen[g].user = NoUser
  BY <1>3 DEF ApartInv
<1>10. \A v \in User : Own(v) \subseteq Own(v)'
  BY <1>5, <1>9, CanvasAssumption DEF Own
<1>11. AccountsApart'
  <2>1. \A w \in Tab : tab[w].user \in User
    BY DEF ApartInv, TypeOK, TabType
  <2> QED BY <1>6, <1>8, <1>10, <2>1 DEF AccountsApart, ApartInv
<1>12. session \in User
  BY DEF ApartInv, TypeOK
<1>13. ASSUME ~mixed', NEW w \in Tab PROVE TabOwn(w)'
  BY <1>6, <1>8, <1>10, <1>12, <1>13 DEF ApartInv, TabOwn
<1>14. ASSUME ~mixed', NEW h \in Generation PROVE GenOwn(h)'
  <2>1. CASE h = g
    <3>1. tab[t].view \subseteq Own(session) /\ u = session
      BY <1>8, <1>14 DEF ApartInv, AccountsApart, TabOwn, u
    <3> QED BY <1>2, <1>5, <1>8, <1>10, <1>12, <2>1, <3>1 DEF GenOwn
  <2>2. CASE h # g
    BY <1>5, <1>8, <1>10, <1>12, <1>14, <2>2 DEF GenOwn, ApartInv
  <2> QED BY <2>1, <2>2
<1>15. \A h \in Generation : gen'[h].pc = "idle" => gen'[h].user = NoUser
  BY <1>2, <1>5 DEF ApartInv
<1>16. ASSUME ~mixed', NEW p \in posts' PROVE p.user \in User /\ p.items \subseteq Own(p.user)'
  BY <1>8, <1>10, <1>16 DEF ApartInv
<1> QED BY <1>7, <1>11, <1>13, <1>14, <1>15, <1>16 DEF ApartInv

\* The pcs of a generation.
LEMMA Pcs ==
    /\ {"key", "upstream", "response", "save", "fetch", "merge", "publish", "persist", "idb",
        "finally"} = Running
    /\ Running \ {"save"} \subseteq PC \ {"idle", "save"}
    /\ "done" \in PC \ {"idle", "save"}
BY DEF Running, PC

LEMMA FetchKeyStep ==
    ASSUME ApartInv, NEW g \in Generation, FetchKey(g) PROVE ApartInv'
<1>1. GensKeep /\ gen' \in [Generation -> GenType]
  BY Pcs, GoKeeps DEF FetchKey
<1>2. TypeOK'
  BY <1>1 DEF ApartInv, TypeOK, FetchKey, tabVars, storeVars, clearVars, bounds
<1> QED BY <1>1, <1>2, TabsFrame, StoresFrame, Preserved DEF FetchKey, tabVars, storeVars, clearVars

LEMMA UpstreamStep ==
    ASSUME ApartInv, NEW g \in Generation, Upstream(g) PROVE ApartInv'
<1>1. gen[g] \in GenType /\ gen \in [Generation -> GenType] /\ gen[g].pc = "upstream"
  BY DEF ApartInv, TypeOK, Upstream
<1>2. GensKeep /\ gen' \in [Generation -> GenType]
  <2>1. CASE gen' = [gen EXCEPT ![g].pc = "response", ![g].got = TRUE]
    <3> DEFINE q == [gen[g] EXCEPT !.pc = "response", !.got = TRUE]
    <3>1. /\ q \in GenType /\ q.pc = "response" /\ q.tab = gen[g].tab
          /\ q.user = gen[g].user /\ q.base = gen[g].base /\ q.remote = gen[g].remote
      BY <1>1 DEF GenType, Running
    <3>2. gen' = [gen EXCEPT ![g] = q]
      BY <1>1, <2>1
    <3> HIDE DEF q
    <3>3. gen' \in [Generation -> GenType] /\ \A h \in Generation : gen'[h] = IF h = g THEN q ELSE gen[h]
      BY <1>1, <3>1, <3>2
    <3> QED BY <1>1, <3>1, <3>3, Pcs DEF ApartInv, GenOwn, GensKeep
  <2>2. CASE Go(g, "finally")
    BY <1>1, <2>2, Pcs, GoKeeps
  <2> QED BY <2>1, <2>2 DEF Upstream
<1>3. events' \in [Tab -> SUBSET Event]
  BY DEF Upstream, PublishCanvasEvent, Event, ApartInv, TypeOK
<1>4. TypeOK'
  BY <1>2, <1>3 DEF ApartInv, TypeOK, Upstream, storeVars, clearVars, bounds
<1> QED BY <1>2, <1>4, TabsFrame, StoresFrame, Preserved DEF Upstream, storeVars, clearVars

\* Lists change in the tab of the generation only.
LEMMA ShowKeeps ==
    ASSUME ApartInv, NEW g \in Generation, gen[g].pc \in Running, NEW V \in SUBSET Image,
           ~mixed => V \subseteq Own(session), SetView(gen[g].tab, gen[g].live, V),
           restore' = restore, refresh' = refresh
    PROVE  TabsKeep /\ tab' \in [Tab -> TabType]
<1>1. gen[g].tab \in Tab \cup {NoTab}
  BY DEF ApartInv, TypeOK, GenType
<1>2. /\ tab' \in [Tab -> TabType]
      /\ \A w \in Tab : /\ tab'[w].user = tab[w].user
                        /\ ~mixed => tab'[w].view \subseteq Own(session)
  BY <1>1, SetViewKeeps
<1> QED BY <1>2 DEF TabsKeep, ApartInv, TabOwn

LEMMA ShowImageStep ==
    ASSUME ApartInv, NEW g \in Generation, ShowImage(g) PROVE ApartInv'
<1>1. gen[g].pc \in Running
  BY Pcs DEF ShowImage
<1>2. GensKeep /\ gen' \in [Generation -> GenType]
  <2> DEFINE q == [gen[g] EXCEPT !.pc = "save", !.to = session]
  <2>1. gen[g] \in GenType /\ gen \in [Generation -> GenType] /\ session \in User
    BY DEF ApartInv, TypeOK
  <2>2. /\ q \in GenType /\ q.pc = "save" /\ q.tab = gen[g].tab /\ q.to = session
        /\ q.user = gen[g].user /\ q.base = gen[g].base /\ q.remote = gen[g].remote
    BY <2>1 DEF GenType, Running
  <2>3. gen' = [gen EXCEPT ![g] = q]
    BY <2>1 DEF ShowImage
  <2> HIDE DEF q
  <2>4. gen' \in [Generation -> GenType] /\ \A h \in Generation : gen'[h] = IF h = g THEN q ELSE gen[h]
    BY <2>1, <2>2, <2>3
  <2> QED BY <1>1, <2>2, <2>4 DEF ApartInv, GenOwn, GensKeep
<1>3. TabsKeep /\ tab' \in [Tab -> TabType]
  BY <1>1, NewListOwn, ShowKeeps DEF ShowImage
<1>4. TypeOK'
  BY <1>2, <1>3 DEF ApartInv, TypeOK, ShowImage, storeVars, clearVars, bounds
<1> QED BY <1>2, <1>3, <1>4, StoresFrame, Preserved DEF ShowImage, storeVars, clearVars

LEMMA SaveToServerStep ==
    ASSUME ApartInv, NEW g \in Generation, SaveToServer(g) PROVE ApartInv'
<1>1. gen[g].pc \in Running
  BY Pcs DEF SaveToServer
<1>2. GensKeep /\ gen' \in [Generation -> GenType]
  BY <1>1, Pcs, GoKeeps DEF SaveToServer
<1>3. /\ server' \in [User -> SUBSET Image] /\ faults' \in Nat
      /\ \A u \in User : ~mixed => server'[u] \subseteq Own(u)
  <2>1. gen[g].pc = "save" /\ SaveCanvasHistory(gen[g].to, {g}, NewList(g))
    BY DEF SaveToServer
  <2> QED BY <1>1, <2>1, NewListOwn, SaveKeeps
<1>4. TypeOK'
  BY <1>2, <1>3 DEF ApartInv, TypeOK, SaveToServer, tabVars, clearVars, bounds
<1>5. StoresKeep
  BY <1>3 DEF StoresKeep, ApartInv, AccountsApart, SaveToServer, clearVars
<1> QED BY <1>2, <1>4, <1>5, TabsFrame, Preserved DEF SaveToServer, tabVars, clearVars

LEMMA FetchBackStep ==
    ASSUME ApartInv, NEW g \in Generation, FetchBack(g) PROVE ApartInv'
<1>1. gen[g] \in GenType /\ gen \in [Generation -> GenType] /\ gen[g].pc = "fetch"
  BY DEF ApartInv, TypeOK, FetchBack
<1>2. server[session] \in SUBSET Image /\ (~mixed => server[session] \subseteq Own(session))
  BY DEF ApartInv, TypeOK, AccountsApart
<1>3. GensKeep /\ gen' \in [Generation -> GenType]
  <2>1. CASE gen' = [gen EXCEPT ![g].pc = "merge", ![g].remote = server[session]]
    <3> DEFINE q == [gen[g] EXCEPT !.pc = "merge", !.remote = server[session]]
    <3>1. /\ q \in GenType /\ q.pc = "merge" /\ q.tab = gen[g].tab
          /\ q.user = gen[g].user /\ q.base = gen[g].base /\ q.remote = server[session]
      BY <1>1, <1>2 DEF GenType, Running
    <3>2. gen' = [gen EXCEPT ![g] = q]
      BY <1>1, <2>1
    <3> HIDE DEF q
    <3>3. gen' \in [Generation -> GenType] /\ \A h \in Generation : gen'[h] = IF h = g THEN q ELSE gen[h]
      BY <1>1, <3>1, <3>2
    <3> QED BY <1>1, <1>2, <3>1, <3>3, Pcs DEF ApartInv, GenOwn, GensKeep
  <2>2. CASE Go(g, "publish")
    BY <1>1, <2>2, Pcs, GoKeeps
  <2> QED BY <2>1, <2>2 DEF FetchBack
<1>4. TypeOK'
  BY <1>3 DEF ApartInv, TypeOK, FetchBack, Faulty, tabVars, storeVars, clearVars, bounds
<1> QED BY <1>3, <1>4, TabsFrame, StoresFrame, Preserved
     DEF FetchBack, tabVars, storeVars, clearVars

LEMMA MergeBackStep ==
    ASSUME ApartInv, NEW g \in Generation, MergeBack(g) PROVE ApartInv'
<1>1. gen[g] \in GenType /\ gen \in [Generation -> GenType] /\ gen[g].pc = "merge"
  BY DEF ApartInv, TypeOK, MergeBack
<1>2. GensKeep /\ gen' \in [Generation -> GenType]
  <2> DEFINE q == [gen[g] EXCEPT !.pc = "publish", !.remote = {}]
  <2>1. /\ q \in GenType /\ q.pc = "publish" /\ q.tab = gen[g].tab
        /\ q.user = gen[g].user /\ q.base = gen[g].base /\ q.remote = {}
    BY <1>1 DEF GenType, Running
  <2>2. gen' = [gen EXCEPT ![g] = q]
    BY <1>1 DEF MergeBack
  <2> HIDE DEF q
  <2>3. gen' \in [Generation -> GenType] /\ \A h \in Generation : gen'[h] = IF h = g THEN q ELSE gen[h]
    BY <1>1, <2>1, <2>2
  <2> QED BY <1>1, <2>1, <2>3, Pcs DEF ApartInv, GenOwn, GensKeep
<1>3. TabsKeep /\ tab' \in [Tab -> TabType]
  <2> DEFINE V == gen[g].remote \cup NewList(g)
  <2>1. V \in SUBSET Image /\ (~mixed => V \subseteq Own(session))
    BY <1>1, NewListOwn, Pcs
  <2>2. SetView(gen[g].tab, gen[g].live, V) /\ restore' = restore /\ refresh' = refresh
    BY DEF MergeBack
  <2> HIDE DEF V
  <2> QED BY <1>1, <2>1, <2>2, ShowKeeps, Pcs
<1>4. TypeOK'
  BY <1>2, <1>3 DEF ApartInv, TypeOK, MergeBack, storeVars, clearVars, bounds
<1> QED BY <1>2, <1>3, <1>4, StoresFrame, Preserved DEF MergeBack, storeVars, clearVars

\* The browser's stores get the list of the generation, under its account.
LEMMA StoreStep ==
    ASSUME ApartInv, NEW g \in Generation, StoreLocal(g) \/ StoreIndexed(g) PROVE ApartInv'
<1>1. gen[g].pc \in Running
  BY Pcs DEF StoreLocal, StoreIndexed
<1>2. GensKeep /\ gen' \in [Generation -> GenType]
  BY <1>1, Pcs, GoKeeps DEF StoreLocal, StoreIndexed
<1>3. /\ local \in [User -> SUBSET Image] /\ idb \in [User -> SUBSET Image] /\ faults \in Nat
  BY DEF ApartInv, TypeOK
<1>4. /\ local' = local \/ local' = [local EXCEPT ![gen[g].user] = NewList(g)]
      /\ idb' = idb \/ idb' = [idb EXCEPT ![gen[g].user] = NewList(g)]
      /\ server' = server /\ faults' \in Nat
  BY <1>3 DEF StoreLocal, StoreIndexed, Faulty
<1>5. local' \in [User -> SUBSET Image] /\ idb' \in [User -> SUBSET Image]
  BY <1>1, <1>3, <1>4, NewListOwn
<1>6. TypeOK'
  BY <1>2, <1>4, <1>5 DEF ApartInv, TypeOK, StoreLocal, StoreIndexed, tabVars, clearVars, bounds
<1>7. ASSUME ~mixed, NEW u \in User
      PROVE  server'[u] \subseteq Own(u) /\ local'[u] \subseteq Own(u) /\ idb'[u] \subseteq Own(u)
  BY <1>1, <1>3, <1>4, <1>7, NewListOwn DEF ApartInv, AccountsApart
<1>8. StoresKeep
  BY <1>7 DEF StoresKeep, ApartInv, StoreLocal, StoreIndexed, clearVars
<1>9. /\ tab' = tab /\ restore' = restore /\ refresh' = refresh /\ session' = session
      /\ mixed' = mixed
  BY DEF StoreLocal, StoreIndexed, tabVars, clearVars
<1> QED BY <1>2, <1>6, <1>8, <1>9, TabsFrame, Preserved

\* The lists stay as they are.
LEMMA SameLists ==
    ASSUME ApartInv, restore' = restore, refresh' = refresh,
           \A w \in Tab : tab'[w].user = tab[w].user /\ tab'[w].view = tab[w].view
    PROVE  TabsKeep
BY DEF TabsKeep, ApartInv, AccountsApart, TabOwn

LEMMA FinallyStep ==
    ASSUME ApartInv, NEW g \in Generation, Finally(g) PROVE ApartInv'
<1>1. gen[g].pc \in Running
  BY Pcs DEF Finally
<1>2. GensKeep /\ gen' \in [Generation -> GenType]
  BY <1>1, Pcs, GoKeeps DEF Finally
<1>3. /\ tab' \in [Tab -> TabType] /\ flag' \in [User -> BOOLEAN]
      /\ \A w \in Tab : tab'[w].user = tab[w].user /\ tab'[w].view = tab[w].view
  BY <1>1, NewListOwn, SetFlagKeeps DEF Finally
<1>4. TabsKeep
  BY <1>3, SameLists DEF Finally
<1>5. TypeOK'
  BY <1>2, <1>3 DEF ApartInv, TypeOK, Finally, clearVars, bounds
<1> QED BY <1>2, <1>4, <1>5, StoresFrame, Preserved DEF Finally, clearVars

LEMMA DeliverStep ==
    ASSUME ApartInv, NEW t \in Tab, NEW e \in Event, Deliver(t, e) PROVE ApartInv'
<1>1. tab[t].user \in User
  BY DEF ApartInv, TypeOK, TabType
<1>2. /\ tab' \in [Tab -> TabType] /\ flag' \in [User -> BOOLEAN]
      /\ \A w \in Tab : tab'[w].user = tab[w].user /\ tab'[w].view = tab[w].view
  BY <1>1, SetFlagKeeps DEF Deliver
<1>3. TabsKeep
  BY <1>2, SameLists DEF Deliver
<1>4. TypeOK'
  BY <1>2 DEF ApartInv, TypeOK, Deliver, clearVars, bounds
<1> QED BY <1>3, <1>4, GensFrame, StoresFrame, Preserved DEF Deliver, clearVars

\* A refresh is answered from the table of the session.
LEMMA RefreshReadStep ==
    ASSUME ApartInv, NEW t \in Tab, RefreshRead(t) PROVE ApartInv'
<1>1. server[session] \in SUBSET Image /\ (~mixed => server[session] \subseteq Own(session))
  BY DEF ApartInv, TypeOK, AccountsApart
<1>2. refresh \in [Tab -> SUBSET SUBSET Image]
  BY DEF ApartInv, TypeOK
<1>3. \/ refresh' = refresh
      \/ refresh' = [refresh EXCEPT ![t] = @ \cup {server[session]}]
      \/ refresh' = [refresh EXCEPT ![t] = @ \cup {{}}]
  BY DEF RefreshRead
<1>4. /\ refresh' \in [Tab -> SUBSET SUBSET Image]
      /\ \A w \in Tab : \A S \in refresh'[w] : S \in refresh[w] \/ S = server[session] \/ S = {}
  BY <1>1, <1>2, <1>3
<1>5. tab' = tab /\ restore' = restore
  BY DEF RefreshRead
<1>6. TabsKeep
  BY <1>1, <1>4, <1>5 DEF TabsKeep, ApartInv, AccountsApart, TabOwn
<1>7. due' \in [Tab -> BOOLEAN] /\ faults' \in Nat
  BY DEF RefreshRead, Faulty, ApartInv, TypeOK
<1>8. TypeOK'
  <2>1. crossed' \in BOOLEAN
    BY Zenon DEF RefreshRead
  <2> QED BY <1>4, <1>7, <2>1 DEF ApartInv, TypeOK, RefreshRead, storeVars, bounds
<1> QED BY <1>6, <1>8, GensFrame, StoresFrame, Preserved DEF RefreshRead, storeVars, clearVars

LEMMA RefreshApplyStep ==
    ASSUME ApartInv, NEW t \in Tab, RefreshApply(t) PROVE ApartInv'
<1> DEFINE u == tab[t].user
           saved == IF local[u] # {} THEN local[u] ELSE idb[u]
<1>1. PICK remote \in refresh[t] :
        /\ refresh' = [refresh EXCEPT ![t] = @ \ {remote}]
        /\ tab' = [tab EXCEPT ![t].view = @ \cup (IF remote # {} THEN remote ELSE saved)]
  BY DEF RefreshApply
<1>2. /\ tab \in [Tab -> TabType] /\ refresh \in [Tab -> SUBSET SUBSET Image]
      /\ u \in User /\ tab[t].view \in SUBSET Image
      /\ local[u] \in SUBSET Image /\ idb[u] \in SUBSET Image
  <2>1. u \in User /\ tab[t].view \in SUBSET Image
    BY DEF ApartInv, TypeOK, TabType
  <2> QED BY <2>1 DEF ApartInv, TypeOK
<1> DEFINE V == tab[t].view \cup (IF remote # {} THEN remote ELSE saved)
<1>3. V \in SUBSET Image
  BY <1>2
<1>4. ~mixed => V \subseteq Own(session)
  BY <1>2 DEF ApartInv, AccountsApart, TabOwn
<1>5. SetView(t, TRUE, V)
  BY <1>1, <1>2 DEF SetView
<1> HIDE DEF V
<1>6. /\ tab' \in [Tab -> TabType]
      /\ \A w \in Tab : /\ tab'[w].user = tab[w].user
                        /\ ~mixed => tab'[w].view \subseteq Own(session)
  BY <1>3, <1>4, <1>5, SetViewKeeps
<1>7. /\ refresh' \in [Tab -> SUBSET SUBSET Image]
      /\ \A w \in Tab : refresh'[w] \subseteq refresh[w]
  BY <1>1, <1>2
<1>8. restore' = restore
  BY DEF RefreshApply
<1>9. TabsKeep
  BY <1>6, <1>7, <1>8 DEF TabsKeep, ApartInv, TabOwn
<1>10. TypeOK'
  BY <1>6, <1>7 DEF ApartInv, TypeOK, RefreshApply, storeVars, clearVars, bounds
<1> QED BY <1>9, <1>10, GensFrame, StoresFrame, Preserved DEF RefreshApply, storeVars, clearVars

\* Clearing takes images away.
LEMMA ClearStep ==
    ASSUME ApartInv, NEW t \in Tab, Clear(t) PROVE ApartInv'
<1> DEFINE u == tab[t].user
<1>1. tab \in [Tab -> TabType] /\ u \in User /\ tab[t].view \in SUBSET Image
  BY DEF ApartInv, TypeOK, TabType
<1>2. tab' = [tab EXCEPT ![t].view = {}] /\ local' = [local EXCEPT ![u] = {}]
  BY DEF Clear
<1>3. /\ tab' \in [Tab -> TabType]
      /\ \A w \in Tab : /\ tab'[w].user = tab[w].user
                        /\ ~mixed => tab'[w].view \subseteq Own(session)
  <2>1. {} \in SUBSET Image /\ {} \subseteq Own(session)
    OBVIOUS
  <2>2. SetView(t, TRUE, {})
    BY <1>2 DEF SetView
  <2> QED BY <2>1, <2>2, SetViewKeeps
<1>4. restore' = restore /\ refresh' = refresh /\ server' = server /\ idb' = idb
  BY DEF Clear
<1>5. TabsKeep
  BY <1>3, <1>4 DEF TabsKeep, ApartInv, TabOwn
<1>10. crossed' \in BOOLEAN /\ posts' = posts
  BY Zenon DEF Clear
<1>6. /\ local \in [User -> SUBSET Image] /\ idbDeletes \in [Tab -> SUBSET User]
      /\ deletes \in SUBSET User /\ cleared \in SUBSET Image /\ session \in User
  BY DEF ApartInv, TypeOK
<1>7. /\ local' \in [User -> SUBSET Image] /\ \A v \in User : local'[v] \subseteq local[v]
      /\ idbDeletes' \in [Tab -> SUBSET User]
      /\ deletes' \in SUBSET User /\ cleared' \in SUBSET Image
  BY <1>1, <1>2, <1>6 DEF Clear
<1>8. StoresKeep
  BY <1>4, <1>7, <1>10 DEF StoresKeep, ApartInv, AccountsApart
<1>9. TypeOK'
  BY <1>3, <1>7, <1>10 DEF ApartInv, TypeOK, Clear, bounds
<1> QED BY <1>5, <1>8, <1>9, GensFrame, Preserved DEF Clear

LEMMA DeleteStep ==
    ASSUME ApartInv,
           (\E t \in Tab : ClearIndexed(t)) \/ (\E u \in User : DeleteCanvasHistory(u))
    PROVE  ApartInv'
<1>1. /\ session' = session /\ mixed' = mixed /\ gen' = gen /\ tab' = tab
      /\ restore' = restore /\ refresh' = refresh /\ local' = local
      /\ posts' = posts /\ crossed' = crossed
  BY DEF ClearIndexed, DeleteCanvasHistory, tabVars
<1>2. /\ idb \in [User -> SUBSET Image] /\ server \in [User -> SUBSET Image]
      /\ idbDeletes \in [Tab -> SUBSET User] /\ deletes \in SUBSET User
      /\ cleared \in SUBSET Image /\ faults \in Nat
  BY DEF ApartInv, TypeOK
<1>3. /\ idb' \in [User -> SUBSET Image] /\ server' \in [User -> SUBSET Image]
      /\ \A v \in User : idb'[v] \subseteq idb[v] /\ server'[v] \subseteq server[v]
      /\ idbDeletes' \in [Tab -> SUBSET User] /\ deletes' \in SUBSET User
      /\ cleared' \in SUBSET Image /\ faults' \in Nat
  <2>1. CASE \E t \in Tab : ClearIndexed(t)
    BY <1>2, <2>1 DEF ClearIndexed, Faulty
  <2>2. CASE \E u \in User : DeleteCanvasHistory(u)
    BY <1>2, <2>2 DEF DeleteCanvasHistory, Faulty
  <2> QED BY <2>1, <2>2
<1>4. TypeOK'
  <2>1. /\ UNCHANGED <<due, sock, events, legacyLocal, legacyIdb, flag>>
        /\ UNCHANGED <<switches, visits>>
    BY DEF ClearIndexed, DeleteCanvasHistory, tabVars, bounds
  <2> QED BY <1>1, <1>3, <2>1 DEF ApartInv, TypeOK
<1>5. StoresKeep
  BY <1>1, <1>3 DEF StoresKeep, ApartInv, AccountsApart
<1> QED BY <1>1, <1>4, <1>5, GensFrame, TabsFrame, Preserved

\* The save of a page that is gone is for the account it was sent for.
LEMMA LateSaveStep ==
    ASSUME ApartInv, NEW p \in posts, LateSave(p) PROVE ApartInv'
<1>1. p.items \in SUBSET Image /\ (~mixed => p.items \subseteq Own(p.user))
  BY DEF ApartInv, TypeOK, PostType
<1>2. /\ server' \in [User -> SUBSET Image] /\ faults' \in Nat
      /\ \A u \in User : ~mixed => server'[u] \subseteq Own(u)
  <2>1. CASE SaveCanvasHistory(p.user, p.new, p.items)
    BY <1>1, <2>1, SaveKeeps
  <2>2. CASE UNCHANGED <<server, faults>>
    BY <2>2 DEF ApartInv, TypeOK, AccountsApart
  <2> QED BY <2>1, <2>2 DEF LateSave
<1>3. crossed' \in BOOLEAN
  BY Zenon DEF LateSave
<1>4. posts' \subseteq posts
  BY DEF LateSave
<1>5. TypeOK'
  BY <1>2, <1>3, <1>4 DEF ApartInv, TypeOK, LateSave, tabVars, bounds
<1>6. StoresKeep
  BY <1>2, <1>4 DEF StoresKeep, ApartInv, AccountsApart, LateSave
<1> QED BY <1>5, <1>6, GensFrame, TabsFrame, Preserved DEF LateSave, tabVars

-----------------------------------------------------------------------------
(* The theorems.                                                            *)

LEMMA InitApart == Init => ApartInv
<1> SUFFICES ASSUME Init PROVE ApartInv
  OBVIOUS
<1>1. NewTab(session) \in TabType /\ NewTab(session).user = session /\ NewTab(session).view = {}
  BY DEF Init, NewTab, TabType
<1>2. NotStarted \in GenType /\ NotStarted.pc = "idle" /\ NotStarted.user = NoUser
  BY DEF NotStarted, GenType
<1>3. TypeOK
  BY <1>1, <1>2, NoRestoreOk DEF Init, TypeOK, Image, Event
<1>4. AccountsApart
  BY <1>1 DEF Init, AccountsApart
<1>5. \A t \in Tab : TabOwn(t)
  BY <1>1, NoRestoreOk DEF Init, TabOwn
<1>6. \A g \in Generation : GenOwn(g) /\ gen[g].user = NoUser
  BY <1>2 DEF Init, GenOwn, Running
<1>7. posts = {}
  BY DEF Init
<1> QED BY <1>3, <1>4, <1>5, <1>6, <1>7 DEF ApartInv

LEMMA NextApart == ApartInv /\ [Next]_vars => ApartInv'
<1> SUFFICES ASSUME ApartInv, [Next]_vars PROVE ApartInv'
  OBVIOUS
<1>1. CASE UNCHANGED vars
  <2>1. /\ session' = session /\ mixed' = mixed /\ gen' = gen
        /\ tab' = tab /\ restore' = restore /\ refresh' = refresh
        /\ server' = server /\ local' = local /\ idb' = idb /\ posts' = posts
    BY <1>1 DEF vars, tabVars, storeVars, clearVars
  <2>2. TypeOK'
    BY <1>1 DEF vars, tabVars, storeVars, clearVars, bounds, ApartInv, TypeOK
  <2> QED BY <2>1, <2>2, GensFrame, TabsFrame, StoresFrame, Preserved
<1>2. ASSUME NEW t \in Tab, Restore(t) PROVE ApartInv'
  BY <1>2, RestoreAnswerStep, RestoreShowStep, RestoreLocalStep, RestoreIndexedStep,
     RestoreUploadStep DEF Restore
<1>3. ASSUME NEW g \in Generation, GenerateStep(g) PROVE ApartInv'
  BY <1>3, FetchKeyStep, UpstreamStep, ShowImageStep, SaveToServerStep, FetchBackStep,
     MergeBackStep, StoreStep, FinallyStep DEF GenerateStep
<1>4. ASSUME NEW t \in Tab,
             \/ \E u \in User : SwitchAccount(t, u) \/ SignInAgain(t, u)
             \/ Reload(t) \/ Mount(t) \/ Unmount(t) \/ Connect(t) \/ Disconnect(t)
      PROVE  ApartInv'
  BY <1>4, SwitchAccountStep, SignInAgainStep, ReloadStep, MountStep, UnmountStep, SocketStep
<1>5. ASSUME NEW t \in Tab,
             \/ RefreshRead(t) \/ RefreshApply(t) \/ Clear(t) \/ ClearIndexed(t)
             \/ \E e \in Event : Deliver(t, e)
             \/ \E g \in Generation : Generate(g, t)
      PROVE  ApartInv'
  BY <1>5, RefreshReadStep, RefreshApplyStep, ClearStep, DeleteStep, DeliverStep, GenerateStarts
<1>6. CASE Next
  <2>1. CASE \E g \in Generation : GenerateStep(g)
    BY <1>3, <2>1
  <2>2. CASE \E u \in User : DeleteCanvasHistory(u)
    BY <2>2, DeleteStep
  <2>3. ASSUME NEW t \in Tab,
               \/ Reload(t) \/ Mount(t) \/ Unmount(t) \/ Connect(t) \/ Disconnect(t)
               \/ Restore(t) \/ RefreshRead(t) \/ RefreshApply(t) \/ Clear(t) \/ ClearIndexed(t)
               \/ \E u \in User : SwitchAccount(t, u) \/ SignInAgain(t, u)
               \/ \E e \in Event : Deliver(t, e)
               \/ \E g \in Generation : Generate(g, t)
        PROVE  ApartInv'
    BY <1>2, <1>4, <1>5, <2>3
  <2>4. CASE \E p \in posts : LateSave(p)
    BY <2>4, LateSaveStep
  <2> QED BY <1>6, <2>1, <2>2, <2>3, <2>4 DEF Next
<1> QED BY <1>1, <1>6

\* Type correctness of the canvas: what index.tsx keeps in memory and in the
\* stores has its type, for any tabs, accounts, generations and bounds.
THEOREM CanvasTypeCorrect == Spec => []TypeOK
<1>1. ApartInv => TypeOK
  BY DEF ApartInv
<1> QED BY InitApart, NextApart, <1>1, PTL DEF Spec

\* No account gets another one's images, by any interleaving of the canvas's
\* handlers and of any number of tabs, unless an account came in while
\* something of another one was open or under way.
THEOREM CanvasAccountsApart == Spec => []AccountsApart
<1>1. ApartInv => AccountsApart
  BY DEF ApartInv
<1> QED BY InitApart, NextApart, <1>1, PTL DEF Spec

-----------------------------------------------------------------------------
(***************************************************************************)
(* NothingLost and ViewMatchesServer: one tab, whose user waits for the    *)
(* handlers that replace the list.  TurnInv says that the handlers take    *)
(* turns, KeepInv where the images are that must not be lost, MirrorInv    *)
(* how lists and stores follow the server.  Each action is first turned    *)
(* into what it does to the fields of the tab, its restore and its         *)
(* generations (the lemmas named Facts).                                   *)
(***************************************************************************)

OneTab(t) == ~Overlapping /\ Tab = {t}

Runs(g) == gen[g].pc \in Running

\* The handlers take turns, and set the state of a canvas that is still there.
TurnInv(t) ==
    /\ \A g \in Generation :
         /\ gen[g].pc # "idle" => gen[g].user \in User
         /\ Runs(g) =>
              /\ \A h \in Generation : Runs(h) => h = g
              /\ restore[t].pc = "none" /\ ~Clearing(t)
              /\ gen[g].tab = t /\ gen[g].live = tab[t].mounted
              /\ tab[t].mounted => tab[t].user = gen[g].user
    /\ restore[t].pc # "none" =>
         /\ ~Clearing(t)
         /\ restore[t].live = tab[t].mounted
         /\ tab[t].mounted => tab[t].user = restore[t].user
    /\ ~tab[t].mounted => refresh[t] = {}

\* The images of an account that must not be lost.
Kept(u) ==
    {g \in Generation : gen[g].pc = "done" /\ gen[g].got /\ g \notin cleared /\ gen[g].user = u}

\* localStorage has them, and IndexedDB too if no fault can have kept it from that.
KeptStored ==
    \A u \in User : Kept(u) \subseteq local[u] /\ (faults = 0 => Kept(u) \subseteq idb[u])

\* The list of the canvas has them, from which the next generation starts.
KeptShown(t) ==
    LET r == restore[t]
    IN  /\ r.pc = "failed" => Kept(r.user) \subseteq idb[r.user]
        /\ r.pc \in {"indexed", "upload"} => Kept(r.user) = {}
        /\ tab[t].mounted /\ r.pc = "none" => Kept(tab[t].user) \subseteq tab[t].view

\* A generation that runs carries them on, and adds its own image.
KeptBy(t, g) ==
    LET r == gen[g]
    IN  /\ Kept(r.user) \subseteq r.base
        /\ r.pc \in {"key", "upstream"} => ~r.got
        /\ r.got /\ tab[t].mounted /\ r.pc # "response" => g \in tab[t].view
        /\ r.pc = "persist" /\ faults = 0 => g \in local[r.user]
        /\ r.pc \in {"idb", "finally"} /\ r.got => g \in local[r.user]
        /\ r.pc = "finally" /\ r.got /\ faults = 0 => g \in idb[r.user]

KeepInv(t) ==
    /\ KeptStored /\ KeptShown(t)
    /\ \A g \in Generation : Runs(g) => KeptBy(t, g)

\* What the browser stores the server has, up to images of the time before; or
\* IndexedDB was left behind by a Clear whose page was left.
StoresMirror ==
    \A u \in User :
        /\ local[u] \subseteq server[u] \cup Legacy
        /\ u \in deletes => local[u] = {}
        /\ idb[u] \subseteq server[u] \cup Legacy \/ (server[u] = {} /\ local[u] = {})

\* The old entry of localStorage is there until a canvas has been entered.
OldEntry(t) ==
    legacyLocal # {} =>
        /\ \A u \in User : server[u] = {} /\ local[u] = {} /\ idb[u] = {}
        /\ \A g \in Generation : ~Runs(g)
        /\ restore[t].pc \in {"none", "asked", "answered"}
        /\ tab[t].mounted => restore[t].pc # "none"

\* A restore under way.
RestoreMirrors(t) ==
    LET r == restore[t]
    IN  /\ r.pc # "failed"
        /\ r.pc = "answered" => r.remote = server[session]
        /\ r.pc \in {"indexed", "upload"} => server[session] = {} /\ local[session] = {}
        /\ r.pc = "upload" => /\ idb[session] = r.remote
                              /\ tab[t].mounted => tab[t].view = r.remote
        /\ tab[t].mounted /\ r.pc # "none" =>
             tab[t].view \subseteq server[session] \cup local[session] \cup idb[session]

\* The images that are shown and about to be saved.
Saving == {g \in Generation : gen[g].pc = "save"}

\* A canvas whose history is restored is being cleared, or shows what the server
\* has and the image that is about to be saved.
ClearedMirrors(t) ==
    /\ tab[t].view = {} /\ refresh[t] = {} /\ local[session] = {}
    /\ session \in deletes \/ server[session] = {}
    /\ session \in idbDeletes[t] \/ idb[session] = {}

ShownMirrors(t) ==
    /\ idb[session] \subseteq server[session] \cup Legacy
    /\ server[session] \subseteq tab[t].view
    /\ tab[t].view \subseteq server[session] \cup Legacy \cup Saving

CanvasMirrors(t) ==
    tab[t].mounted /\ restore[t].pc = "none" =>
        /\ Clearing(t) => ClearedMirrors(t)
        /\ ~Clearing(t) => ShownMirrors(t)

RefreshMirrors(t) == \A S \in refresh[t] : S \subseteq server[session]

\* A generation that runs.
GenMirrors(t, g) ==
    LET r == gen[g]
    IN  /\ r.base \subseteq server[session] \cup Legacy
        /\ idb[session] \subseteq server[session] \cup Legacy
        /\ r.pc \in {"key", "upstream", "response"} => server[session] \subseteq r.base
        /\ r.pc = "save" /\ tab[t].mounted => NewList(g) \subseteq tab[t].view
        /\ r.pc \in {"fetch", "merge", "publish", "persist", "idb"} =>
             NewList(g) \subseteq server[session]
        /\ r.pc = "merge" => r.remote = server[session]

Mirrors(t) ==
    /\ StoresMirror /\ OldEntry(t)
    /\ RestoreMirrors(t) /\ CanvasMirrors(t) /\ RefreshMirrors(t)
    /\ \A g \in Generation : Runs(g) => GenMirrors(t, g)

\* A save whose page is gone: no Clear has been clicked since, and what the
\* browser kept in the meantime comes back with it.
PostsMirror ==
    \A p \in posts :
        /\ deletes = {} /\ legacyLocal = {}
        /\ idb[p.user] \subseteq server[p.user] \cup Legacy \cup p.items

MirrorInv(t) == faults = 0 /\ ~mixed /\ ~crossed => Mirrors(t) /\ PostsMirror

-----------------------------------------------------------------------------
(* What the steps do to the fields.                                         *)

SameTab(t) == tab'[t].user = tab[t].user /\ tab'[t].mounted = tab[t].mounted

Shows(t, V) == SameTab(t) /\ tab'[t].view = V

\* One generation moves on to p.
Moves(g, p) ==
    /\ \A h \in Generation \ {g} : gen'[h] = gen[h]
    /\ gen'[g].pc = p /\ gen'[g].tab = gen[g].tab /\ gen'[g].user = gen[g].user
    /\ gen'[g].live = gen[g].live /\ gen'[g].base = gen[g].base

SameAccount == session' = session /\ mixed' = mixed

SameStores == server' = server /\ local' = local /\ idb' = idb /\ legacyLocal' = legacyLocal

SameClears == idbDeletes' = idbDeletes /\ deletes' = deletes /\ cleared' = cleared

\* Nothing that the invariants speak of changes.
Frame(t) ==
    /\ Shows(t, tab[t].view) /\ restore' = restore /\ refresh' = refresh /\ gen' = gen
    /\ SameAccount /\ SameStores /\ SameClears /\ faults' = faults

LEMMA SetViewFacts ==
    ASSUME TypeOK, NEW t \in Tab, NEW b, NEW V \in SUBSET Image, SetView(t, b, V)
    PROVE  Shows(t, IF b THEN V ELSE tab[t].view)
<1>1. tab \in [Tab -> TabType] /\ tab[t] \in TabType
  BY DEF TypeOK
<1>2. CASE b
  <2> DEFINE q == [tab[t] EXCEPT !.view = V]
  <2>1. q.user = tab[t].user /\ q.mounted = tab[t].mounted /\ q.view = V
    BY <1>1 DEF TabType
  <2>2. tab' = [tab EXCEPT ![t] = q]
    BY <1>1, <1>2 DEF SetView
  <2> HIDE DEF q
  <2>3. tab'[t] = q
    BY <1>1, <2>2
  <2> QED BY <1>2, <2>1, <2>3 DEF Shows, SameTab
<1>3. CASE ~b
  BY <1>3 DEF SetView, Shows, SameTab
<1> QED BY <1>2, <1>3

LEMMA SetFlagFacts ==
    ASSUME TypeOK, NEW u, NEW b \in BOOLEAN, NEW w, NEW c, NEW t \in Tab, SetFlag(u, b, w, c)
    PROVE  Shows(t, tab[t].view)
<1>1. tab[t] \in TabType
  BY DEF TypeOK
<1>2. tab'[t] = tab[t] \/ tab'[t] = [tab[t] EXCEPT !.generating = b]
  BY DEF SetFlag
<1>3. /\ [tab[t] EXCEPT !.generating = b].user = tab[t].user
      /\ [tab[t] EXCEPT !.generating = b].mounted = tab[t].mounted
      /\ [tab[t] EXCEPT !.generating = b].view = tab[t].view
  BY <1>1 DEF TabType
<1> QED BY <1>2, <1>3 DEF Shows, SameTab

\* A tab that is not touched.
LEMMA TabFacts == ASSUME tab' = tab, NEW t PROVE Shows(t, tab[t].view)
BY DEF Shows, SameTab

LEMMA GoFacts ==
    ASSUME TypeOK, NEW g \in Generation, NEW p, Go(g, p)
    PROVE  Moves(g, p) /\ gen'[g].got = gen[g].got /\ gen'[g].remote = gen[g].remote
<1>1. gen \in [Generation -> GenType] /\ gen[g] \in GenType
  BY DEF TypeOK
<1> DEFINE q == [gen[g] EXCEPT !.pc = p]
<1>2. /\ q.pc = p /\ q.tab = gen[g].tab /\ q.user = gen[g].user /\ q.live = gen[g].live
      /\ q.got = gen[g].got /\ q.base = gen[g].base /\ q.remote = gen[g].remote
  BY <1>1 DEF GenType
<1>3. gen' = [gen EXCEPT ![g] = q]
  BY <1>1 DEF Go
<1> HIDE DEF q
<1>4. gen'[g] = q /\ \A h \in Generation \ {g} : gen'[h] = gen[h]
  BY <1>1, <1>3
<1> QED BY <1>2, <1>4 DEF Moves

LEMMA FrameFacts ==
    ASSUME TypeOK, NEW t \in Tab,
           \/ UNCHANGED vars \/ Connect(t) \/ Disconnect(t) \/ \E e \in Event : Deliver(t, e)
    PROVE  Frame(t)
<1>1. CASE UNCHANGED vars \/ Connect(t) \/ Disconnect(t)
  <2>1. /\ tab' = tab /\ restore' = restore /\ refresh' = refresh /\ gen' = gen
        /\ SameAccount /\ SameStores /\ SameClears /\ faults' = faults
    BY <1>1 DEF vars, tabVars, storeVars, clearVars, Connect, Disconnect, SameAccount,
                SameStores, SameClears
  <2> QED BY <2>1, TabFacts DEF Frame
<1>2. ASSUME NEW e \in Event, Deliver(t, e) PROVE Frame(t)
  <2>1. /\ restore' = restore /\ refresh' = refresh /\ gen' = gen
        /\ SameAccount /\ SameStores /\ SameClears /\ faults' = faults
    BY <1>2 DEF Deliver, clearVars, SameAccount, SameStores, SameClears
  <2>2. Shows(t, tab[t].view)
    BY <1>2, SetFlagFacts DEF Deliver
  <2> QED BY <2>1, <2>2 DEF Frame
<1> QED BY <1>1, <1>2

\* Leaving the canvas or the page: what is left of its handlers shows nothing.
Away(t) ==
    /\ tab'[t].mounted = FALSE /\ refresh'[t] = {} /\ tab'[t].view = {}
    /\ SameStores /\ deletes' = deletes /\ cleared' = cleared /\ faults' = faults
    /\ idbDeletes'[t] \subseteq idbDeletes[t]
    /\ restore'[t].pc # "none" =>
         /\ restore'[t].pc = restore[t].pc /\ restore'[t].user = restore[t].user
         /\ restore'[t].remote = restore[t].remote /\ restore'[t].live = FALSE
    /\ \A g \in Generation :
         /\ gen'[g].user = gen[g].user /\ gen'[g].got = gen[g].got
         /\ gen'[g].pc = gen[g].pc \/ (Runs(g) /\ gen'[g].pc = "dead")
         /\ Runs(g)' => /\ gen'[g].tab = gen[g].tab
                        /\ gen'[g].base = gen[g].base /\ gen'[g].remote = gen[g].remote
                        /\ gen[g].tab = t => gen'[g].live = FALSE

LEMMA LeaveAway ==
    ASSUME TypeOK, NEW t \in Tab, NEW u \in User, Leave(t, u), SameStores, deletes' = deletes,
           cleared' = cleared, faults' = faults, idbDeletes' = idbDeletes
    PROVE  Away(t)
<1>1. /\ tab \in [Tab -> TabType] /\ restore \in [Tab -> RestoreType]
      /\ refresh \in [Tab -> SUBSET SUBSET Image] /\ gen \in [Generation -> GenType]
  BY DEF TypeOK
<1>2. tab'[t] = NewTab(u) /\ refresh'[t] = {}
  BY <1>1 DEF Leave
<1>3. NewTab(u).mounted = FALSE /\ NewTab(u).view = {}
  BY DEF NewTab
<1>4. NoRestore.pc = "none"
  BY DEF NoRestore
<1>5. /\ [restore[t] EXCEPT !.live = FALSE].pc = restore[t].pc
      /\ [restore[t] EXCEPT !.live = FALSE].user = restore[t].user
      /\ [restore[t] EXCEPT !.live = FALSE].remote = restore[t].remote
      /\ [restore[t] EXCEPT !.live = FALSE].live = FALSE
  BY <1>1 DEF RestoreType
<1>6. restore'[t] = IF restore[t].pc = "upload" THEN NoRestore
                    ELSE [restore[t] EXCEPT !.live = FALSE]
  BY <1>1 DEF Leave
<1>7. ASSUME NEW g \in Generation
      PROVE  /\ gen'[g].user = gen[g].user /\ gen'[g].got = gen[g].got
             /\ gen'[g].pc = gen[g].pc /\ gen'[g].tab = gen[g].tab
             /\ gen'[g].base = gen[g].base /\ gen'[g].remote = gen[g].remote
             /\ gen[g].tab = t => gen'[g].live = FALSE
  <2>1. gen'[g] = IF gen[g].tab = t THEN [gen[g] EXCEPT !.live = FALSE] ELSE gen[g]
    BY DEF Leave
  <2>2. gen[g] \in GenType
    BY <1>1
  <2> DEFINE q == [gen[g] EXCEPT !.live = FALSE]
  <2>3. /\ q.pc = gen[g].pc /\ q.tab = gen[g].tab /\ q.user = gen[g].user /\ q.live = FALSE
        /\ q.got = gen[g].got /\ q.base = gen[g].base /\ q.remote = gen[g].remote
    BY <2>2 DEF GenType
  <2> HIDE DEF q
  <2>4. gen'[g] = IF gen[g].tab = t THEN q ELSE gen[g]
    BY <2>1 DEF q
  <2> QED BY <2>3, <2>4
<1> QED BY <1>2, <1>3, <1>4, <1>5, <1>6, <1>7 DEF Away

LEMMA UnloadAway ==
    ASSUME TypeOK, NEW t \in Tab, NEW u \in User, Unload(t, u), SameStores, deletes' = deletes,
           cleared' = cleared, faults' = faults
    PROVE  /\ Away(t) /\ restore'[t].pc = "none" /\ idbDeletes'[t] = {}
           /\ \A g \in Generation : Runs(g)' => gen[g].tab # t
<1>1. /\ tab \in [Tab -> TabType] /\ restore \in [Tab -> RestoreType]
      /\ refresh \in [Tab -> SUBSET SUBSET Image] /\ gen \in [Generation -> GenType]
      /\ idbDeletes \in [Tab -> SUBSET User]
  BY DEF TypeOK
<1>2. tab'[t] = NewTab(u) /\ refresh'[t] = {} /\ restore'[t] = NoRestore /\ idbDeletes'[t] = {}
  BY <1>1 DEF Unload
<1>3. NewTab(u).mounted = FALSE /\ NewTab(u).view = {} /\ NoRestore.pc = "none"
  BY DEF NewTab, NoRestore
<1>4. ASSUME NEW g \in Generation
      PROVE  /\ gen'[g].user = gen[g].user /\ gen'[g].got = gen[g].got
             /\ gen'[g] = gen[g] \/ (Runs(g) /\ gen'[g].pc = "dead")
             /\ gen'[g].pc \in Running => gen[g].tab # t
  <2>1. gen'[g] = IF gen[g].tab = t /\ gen[g].pc \in Running
                  THEN [gen[g] EXCEPT !.pc = "dead"] ELSE gen[g]
    BY DEF Unload
  <2>2. gen[g] \in GenType
    BY <1>1
  <2> DEFINE q == [gen[g] EXCEPT !.pc = "dead"]
  <2>3. q.pc = "dead" /\ q.user = gen[g].user /\ q.got = gen[g].got
    BY <2>2 DEF GenType
  <2>4. "dead" \notin Running
    BY DEF Running
  <2> HIDE DEF q
  <2>5. gen'[g] = IF gen[g].tab = t /\ gen[g].pc \in Running THEN q ELSE gen[g]
    BY <2>1 DEF q
  <2> QED BY <2>3, <2>4, <2>5 DEF Runs
<1>5. "dead" \notin Running
  BY DEF Running
<1> QED BY <1>2, <1>3, <1>4, <1>5 DEF Away, Runs

\* The account stays, or nothing was under way; or the step is recorded in mixed.
LEMMA AwayFacts ==
    ASSUME TypeOK, ApartInv, NEW t \in Tab,
           \/ \E u \in User : SwitchAccount(t, u) \/ SignInAgain(t, u)
           \/ Reload(t) \/ Unmount(t)
    PROVE  /\ Away(t) /\ (~mixed' => ~mixed)
           /\ ~mixed' /\ Tab = {t} =>
                \/ session' = session
                \/ restore'[t].pc = "none" /\ \A g \in Generation : ~Runs(g)'
<1>1. ASSUME NEW u \in User, SwitchAccount(t, u)
      PROVE  /\ Away(t) /\ (~mixed' => ~mixed)
             /\ ~mixed' /\ Tab = {t} =>
                  restore'[t].pc = "none" /\ \A g \in Generation : ~Runs(g)'
  <2>1. /\ SameStores /\ deletes' = deletes /\ cleared' = cleared /\ faults' = faults
        /\ Unload(t, u) /\ (~mixed' => ~mixed)
    BY <1>1 DEF SwitchAccount, storeVars, SameStores
  <2>2. /\ Away(t) /\ restore'[t].pc = "none"
        /\ \A g \in Generation : Runs(g)' => gen[g].tab # t
    BY <2>1, UnloadAway
  <2>3. ASSUME ~mixed, Tab = {t}, NEW g \in Generation, Runs(g)' PROVE FALSE
    <3>1. Runs(g)
      BY <2>3, <2>2 DEF Away, Runs, Running
    <3>2. gen[g].tab = t
      BY <3>1, <2>3 DEF ApartInv, GenOwn, Runs
    <3> QED BY <3>2, <2>2, <2>3
  <2> QED BY <2>1, <2>2, <2>3
<1>2. ASSUME NEW u \in User, SignInAgain(t, u)
      PROVE  /\ Away(t) /\ (~mixed' => ~mixed)
             /\ ~mixed' /\ Tab = {t} =>
                \/ session' = session
                \/ restore'[t].pc = "none" /\ \A g \in Generation : ~Runs(g)'
  <2>1. /\ SameStores /\ deletes' = deletes /\ cleared' = cleared /\ faults' = faults
        /\ idbDeletes' = idbDeletes /\ Leave(t, u) /\ (~mixed' => ~mixed) /\ session' = u
        /\ ~mixed' => u = tab[t].user \/ ~Replacing(t)
    BY <1>2 DEF SignInAgain, storeVars, SameStores
  <2>2. Away(t)
    BY <2>1, LeaveAway
  <2>3. ASSUME ~mixed, Tab = {t}, u = tab[t].user PROVE session' = session
    BY <2>1, <2>3 DEF ApartInv, TabOwn
  <2>4. ASSUME ~mixed, Tab = {t}, ~Replacing(t)
        PROVE  restore'[t].pc = "none" /\ \A g \in Generation : ~Runs(g)'
    <3>1. \A g \in Generation : ~Runs(g)
      BY <2>4 DEF Replacing, ApartInv, GenOwn, Runs
    <3> QED BY <2>2, <2>4, <3>1 DEF Away, Replacing, Runs, Running
  <2> QED BY <2>1, <2>2, <2>3, <2>4
<1>3. ASSUME Reload(t) PROVE Away(t) /\ SameAccount
  <2>1. /\ SameStores /\ deletes' = deletes /\ cleared' = cleared /\ faults' = faults
        /\ Unload(t, session) /\ session \in User /\ SameAccount
    BY <1>3 DEF Reload, storeVars, SameStores, SameAccount, TypeOK
  <2> QED BY <2>1, UnloadAway
<1>4. ASSUME Unmount(t) PROVE Away(t) /\ SameAccount
  <2>1. /\ SameStores /\ deletes' = deletes /\ cleared' = cleared /\ faults' = faults
        /\ idbDeletes' = idbDeletes /\ Leave(t, tab[t].user) /\ SameAccount
    BY <1>4 DEF Unmount, storeVars, clearVars, SameStores, SameAccount
  <2>2. tab[t].user \in User
    BY DEF TypeOK, TabType
  <2> QED BY <2>1, <2>2, LeaveAway
<1> QED BY <1>1, <1>2, <1>3, <1>4 DEF SameAccount

LEMMA MountFacts ==
    ASSUME TypeOK, NEW t \in Tab, Mount(t), ~Overlapping
    PROVE  /\ ~tab[t].mounted /\ restore[t].pc = "none" /\ ~Replacing(t) /\ ~Clearing(t)
           /\ tab'[t].mounted = TRUE /\ tab'[t].user = tab[t].user /\ tab'[t].view = {}
           /\ restore'[t].pc = "asked" /\ restore'[t].live = TRUE
           /\ restore'[t].user = tab[t].user
           /\ refresh' = refresh /\ gen' = gen
           /\ SameAccount /\ SameStores /\ SameClears /\ faults' = faults
<1>1. PICK b \in BOOLEAN : tab' = [tab EXCEPT ![t] = [NewTab(tab[t].user) EXCEPT !.mounted = TRUE,
                                                        !.generating = b]]
  BY Zenon DEF Mount
<1>2. restore' = [restore EXCEPT ![t] =
                    [NoRestore EXCEPT !.pc = "asked", !.live = TRUE, !.user = tab[t].user]]
  BY DEF Mount
<1>3. tab \in [Tab -> TabType] /\ restore \in [Tab -> RestoreType]
  BY DEF TypeOK
<1> DEFINE n == [NewTab(tab[t].user) EXCEPT !.mounted = TRUE, !.generating = b]
<1>4. n.mounted = TRUE /\ n.user = tab[t].user /\ n.view = {}
  BY DEF NewTab
<1> HIDE DEF n
<1>5. tab'[t] = n
  BY <1>1, <1>3 DEF n
<1>6. /\ restore'[t].pc = "asked" /\ restore'[t].live = TRUE
      /\ restore'[t].user = tab[t].user
  BY <1>2, <1>3 DEF NoRestore
<1>7. /\ ~tab[t].mounted /\ restore[t].pc = "none" /\ ~Replacing(t) /\ ~Clearing(t)
      /\ refresh' = refresh /\ gen' = gen
      /\ SameAccount /\ SameStores /\ SameClears /\ faults' = faults
  BY DEF Mount, Free, clearVars, SameAccount, SameStores, SameClears
<1> QED BY <1>4, <1>5, <1>6, <1>7

\* The restore of t goes on to p, or ends.
RestoreGoes(t, p) ==
    restore'[t].pc = p /\ restore'[t].live = restore[t].live /\ restore'[t].user = restore[t].user

LEMMA RestoreEndsFacts ==
    ASSUME TypeOK, NEW t \in Tab, RestoreEnds(t) PROVE restore'[t].pc = "none"
BY DEF TypeOK, RestoreEnds, NoRestore

LEMMA RestoreGoesFacts ==
    ASSUME TypeOK, NEW t \in Tab, NEW p, NEW R,
           restore' = [restore EXCEPT ![t] = [restore[t] EXCEPT !.pc = p, !.remote = R]]
    PROVE  RestoreGoes(t, p) /\ restore'[t].remote = R
<1>1. restore \in [Tab -> RestoreType]
  BY DEF TypeOK
<1> DEFINE q == [restore[t] EXCEPT !.pc = p, !.remote = R]
<1>2. q.pc = p /\ q.live = restore[t].live /\ q.user = restore[t].user /\ q.remote = R
  BY <1>1 DEF RestoreType
<1> HIDE DEF q
<1>3. restore'[t] = q
  BY <1>1 DEF q
<1> QED BY <1>2, <1>3 DEF RestoreGoes

LEMMA RestorePcFacts ==
    ASSUME TypeOK, NEW t \in Tab, NEW p, restore' = [restore EXCEPT ![t].pc = p]
    PROVE  RestoreGoes(t, p) /\ restore'[t].remote = restore[t].remote
<1>1. restore \in [Tab -> RestoreType]
  BY DEF TypeOK
<1> DEFINE q == [restore[t] EXCEPT !.pc = p]
<1>2. /\ q.pc = p /\ q.live = restore[t].live /\ q.user = restore[t].user
      /\ q.remote = restore[t].remote
  BY <1>1 DEF RestoreType
<1> HIDE DEF q
<1>3. restore'[t] = q
  BY <1>1 DEF q
<1> QED BY <1>2, <1>3 DEF RestoreGoes

LEMMA RestoreAnswerFacts ==
    ASSUME TypeOK, NEW t \in Tab, RestoreAnswer(t)
    PROVE  /\ restore[t].pc = "asked" /\ Shows(t, tab[t].view)
           /\ \/ /\ RestoreGoes(t, "answered") /\ restore'[t].remote = server[session]
                 /\ faults' = faults
              \/ RestoreGoes(t, "failed") /\ Faulty
           /\ refresh' = refresh /\ gen' = gen /\ SameAccount /\ SameStores /\ SameClears
<1>1. /\ restore[t].pc = "asked" /\ tab' = tab
      /\ refresh' = refresh /\ gen' = gen /\ SameAccount /\ SameStores /\ SameClears
  BY DEF RestoreAnswer, storeVars, clearVars, SameAccount, SameStores, SameClears
<1>2. \/ /\ restore' = [restore EXCEPT ![t] = [restore[t] EXCEPT !.pc = "answered",
                                                       !.remote = server[session]]]
         /\ faults' = faults
      \/ Faulty /\ restore' = [restore EXCEPT ![t].pc = "failed"]
  BY DEF RestoreAnswer
<1>3. Shows(t, tab[t].view)
  BY <1>1, TabFacts
<1>4. CASE restore' = [restore EXCEPT ![t] = [restore[t] EXCEPT !.pc = "answered",
                                                       !.remote = server[session]]]
  <2>1. RestoreGoes(t, "answered") /\ restore'[t].remote = server[session]
    BY <1>4, RestoreGoesFacts
  <2>2. ~RestoreGoes(t, "failed")
    BY <2>1 DEF RestoreGoes
  <2>3. faults' = faults \/ Faulty
    BY <1>2
  <2>4. CASE faults' = faults
    BY <1>1, <1>3, <2>1, <2>4
  <2>5. CASE restore' = [restore EXCEPT ![t].pc = "failed"]
    BY <2>2, <2>5, RestorePcFacts
  <2> QED BY <1>2, <2>4, <2>5
<1>5. CASE Faulty /\ restore' = [restore EXCEPT ![t].pc = "failed"]
  <2>1. RestoreGoes(t, "failed")
    BY <1>5, RestorePcFacts
  <2> QED BY <1>1, <1>3, <1>5, <2>1
<1> QED BY <1>2, <1>4, <1>5

LEMMA RestoreMergeFacts ==
    ASSUME TypeOK, NEW t \in Tab, RestoreMerge(t)
    PROVE  LET r == restore[t]
           IN  /\ r.pc = "answered" /\ r.remote # {}
               /\ Shows(t, IF r.live THEN r.remote \cup local[r.user] \cup idb[r.user]
                                     ELSE tab[t].view)
               /\ restore'[t].pc = "none" /\ refresh' = refresh /\ gen' = gen
               /\ SameAccount /\ SameStores /\ SameClears /\ faults' = faults
<1> DEFINE r == restore[t]
           V == r.remote \cup local[r.user] \cup idb[r.user]
<1>1. /\ r.pc = "answered" /\ r.remote # {} /\ SetView(t, r.live, V) /\ RestoreEnds(t)
      /\ refresh' = refresh /\ gen' = gen
      /\ SameAccount /\ SameStores /\ SameClears /\ faults' = faults
  BY DEF RestoreMerge, storeVars, clearVars, SameAccount, SameStores, SameClears
<1>2. r.user \in User /\ r.remote \in SUBSET Image
  BY <1>1 DEF TypeOK, RestoreType
<1>3. V \in SUBSET Image
  BY <1>2 DEF TypeOK
<1> HIDE DEF V
<1>4. Shows(t, IF r.live THEN V ELSE tab[t].view)
  BY <1>1, <1>3, SetViewFacts
<1> QED BY <1>1, <1>4, RestoreEndsFacts DEF V

LEMMA RestoreFallbackFacts ==
    ASSUME TypeOK, NEW t \in Tab, RestoreFallback(t)
    PROVE  LET r == restore[t]
           IN  /\ r.pc = "failed"
               /\ Shows(t, IF r.live /\ idb[r.user] # {} THEN idb[r.user] ELSE tab[t].view)
               /\ restore'[t].pc = "none" /\ refresh' = refresh /\ gen' = gen
               /\ SameAccount /\ SameStores /\ SameClears /\ faults' = faults
<1> DEFINE r == restore[t]
           b == r.live /\ idb[r.user] # {}
<1>1. /\ r.pc = "failed" /\ SetView(t, b, idb[r.user]) /\ RestoreEnds(t)
      /\ refresh' = refresh /\ gen' = gen
      /\ SameAccount /\ SameStores /\ SameClears /\ faults' = faults
  BY DEF RestoreFallback, storeVars, clearVars, SameAccount, SameStores, SameClears
<1>2. r.user \in User
  BY <1>1 DEF TypeOK, RestoreType
<1>3. idb[r.user] \in SUBSET Image
  BY <1>2 DEF TypeOK
<1> HIDE DEF b
<1>4. Shows(t, IF b THEN idb[r.user] ELSE tab[t].view)
  BY <1>1, <1>3, SetViewFacts
<1> QED BY <1>1, <1>4, RestoreEndsFacts DEF b

LEMMA RestoreLocalFacts ==
    ASSUME TypeOK, NEW t \in Tab, RestoreLocal(t)
    PROVE  LET r == restore[t]
               mine == IF r.user \in Admin THEN legacyLocal ELSE {}
               restored == local[r.user] \cup mine
           IN  /\ r.pc = "answered" /\ r.remote = {} /\ r.user \in User
               /\ \/ /\ local'[r.user] = restored /\ legacyLocal' = {} /\ faults' = faults
                     /\ \A v \in User \ {r.user} : local'[v] = local[v]
                  \/ mine # {} /\ Faulty /\ local' = local /\ legacyLocal' = legacyLocal
               /\ restored # {} => /\ Shows(t, IF r.live THEN restored ELSE tab[t].view)
                                   /\ restore'[t].pc = "none"
               /\ restored = {} => Shows(t, tab[t].view) /\ RestoreGoes(t, "indexed")
               /\ refresh' = refresh /\ gen' = gen /\ SameAccount /\ SameClears
               /\ server' = server /\ idb' = idb
<1> DEFINE r == restore[t]
           mine == IF r.user \in Admin THEN legacyLocal ELSE {}
           restored == local[r.user] \cup mine
<1>1. r.pc = "answered" /\ r.remote = {}
  BY DEF RestoreLocal
<1>2. \/ local' = [local EXCEPT ![r.user] = restored] /\ legacyLocal' = {} /\ faults' = faults
      \/ mine # {} /\ Faulty /\ local' = local /\ legacyLocal' = legacyLocal
  BY DEF RestoreLocal
<1>3. /\ restored # {} => SetView(t, r.live, restored) /\ RestoreEnds(t)
      /\ restored = {} => restore' = [restore EXCEPT ![t].pc = "indexed"] /\ tab' = tab
  BY DEF RestoreLocal
<1>4. /\ refresh' = refresh /\ gen' = gen /\ SameAccount /\ SameClears
      /\ server' = server /\ idb' = idb
  BY DEF RestoreLocal, clearVars, SameAccount, SameClears
<1>5. r.user \in User
  BY <1>1 DEF TypeOK, RestoreType
<1>6. restored \in SUBSET Image
  BY <1>5 DEF TypeOK, Image
<1>7. local \in [User -> SUBSET Image]
  BY DEF TypeOK
<1> HIDE DEF mine, restored
<1>8. restored # {} => /\ Shows(t, IF r.live THEN restored ELSE tab[t].view)
                       /\ restore'[t].pc = "none"
  BY <1>3, <1>6, SetViewFacts, RestoreEndsFacts
<1>9. restored = {} => Shows(t, tab[t].view) /\ RestoreGoes(t, "indexed")
  BY <1>3, TabFacts, RestorePcFacts
<1>10. \/ /\ local'[r.user] = restored /\ legacyLocal' = {} /\ faults' = faults
          /\ \A v \in User \ {r.user} : local'[v] = local[v]
       \/ mine # {} /\ Faulty /\ local' = local /\ legacyLocal' = legacyLocal
  BY <1>2, <1>5, <1>7
<1> QED BY <1>1, <1>4, <1>5, <1>8, <1>9, <1>10 DEF restored, mine

LEMMA RestoreIndexedFacts ==
    ASSUME TypeOK, NEW t \in Tab, RestoreIndexed(t)
    PROVE  LET r == restore[t]
               mine == IF r.user \in Admin THEN legacyIdb ELSE {}
               indexed == idb[r.user] \cup mine
           IN  /\ r.pc = "indexed" /\ r.user \in User
               /\ (idb'[r.user] = indexed /\ faults' = faults)
                    \/ (idb'[r.user] \in {idb[r.user], indexed} /\ Faulty)
               /\ \A v \in User \ {r.user} : idb'[v] = idb[v]
               /\ r.live /\ indexed # {} =>
                    Shows(t, indexed) /\ RestoreGoes(t, "upload") /\ restore'[t].remote = indexed
               /\ ~(r.live /\ indexed # {}) => Shows(t, tab[t].view) /\ restore'[t].pc = "none"
               /\ refresh' = refresh /\ gen' = gen /\ SameAccount /\ SameClears
               /\ server' = server /\ local' = local /\ legacyLocal' = legacyLocal
<1> DEFINE r == restore[t]
           mine == IF r.user \in Admin THEN legacyIdb ELSE {}
           indexed == idb[r.user] \cup mine
<1>1. /\ r.pc = "indexed"
      /\ \/ idb' = [idb EXCEPT ![r.user] = indexed] /\ faults' = faults
         \/ idb' = idb /\ Faulty
         \/ idb' = [idb EXCEPT ![r.user] = indexed] /\ Faulty
  BY DEF RestoreIndexed
<1>2. /\ r.live /\ indexed # {} =>
           /\ SetView(t, TRUE, indexed)
           /\ restore' = [restore EXCEPT ![t] = [restore[t] EXCEPT !.pc = "upload",
                                                     !.to = session, !.remote = indexed]]
      /\ ~(r.live /\ indexed # {}) => RestoreEnds(t) /\ tab' = tab
  BY DEF RestoreIndexed
<1>3. /\ refresh' = refresh /\ gen' = gen /\ SameAccount /\ SameClears
      /\ server' = server /\ local' = local /\ legacyLocal' = legacyLocal
  BY DEF RestoreIndexed, clearVars, SameAccount, SameClears
<1>4. r.user \in User
  BY <1>1 DEF TypeOK, RestoreType
<1>5. indexed \in SUBSET Image
  BY <1>4 DEF TypeOK, Image
<1>6. idb \in [User -> SUBSET Image]
  BY DEF TypeOK
<1> HIDE DEF mine, indexed
<1>7. r.live /\ indexed # {} =>
        Shows(t, indexed) /\ RestoreGoes(t, "upload") /\ restore'[t].remote = indexed
  <2>1. SetView(t, TRUE, indexed) => Shows(t, indexed)
    BY <1>5, SetViewFacts
  <2>2. ASSUME restore' = [restore EXCEPT ![t] = [restore[t] EXCEPT !.pc = "upload",
                                                    !.to = session, !.remote = indexed]]
        PROVE  RestoreGoes(t, "upload") /\ restore'[t].remote = indexed
    <3>1. restore \in [Tab -> RestoreType]
      BY DEF TypeOK
    <3> DEFINE q == [restore[t] EXCEPT !.pc = "upload", !.to = session, !.remote = indexed]
    <3>2. /\ q.pc = "upload" /\ q.live = restore[t].live /\ q.user = restore[t].user
          /\ q.remote = indexed
      BY <3>1 DEF RestoreType
    <3> HIDE DEF q
    <3>3. restore'[t] = q
      BY <2>2, <3>1 DEF q
    <3> QED BY <3>2, <3>3 DEF RestoreGoes
  <2> QED BY <1>2, <2>1, <2>2
<1>8. ~(r.live /\ indexed # {}) => Shows(t, tab[t].view) /\ restore'[t].pc = "none"
  BY <1>2, TabFacts, RestoreEndsFacts
<1>9. /\ (idb'[r.user] = indexed /\ faults' = faults)
           \/ (idb'[r.user] \in {idb[r.user], indexed} /\ Faulty)
      /\ \A v \in User \ {r.user} : idb'[v] = idb[v]
  BY <1>1, <1>4, <1>6
<1> QED BY <1>1, <1>3, <1>4, <1>7, <1>8, <1>9 DEF indexed, mine

\* SaveCanvasHistory without a fault.
Saved(u, items) ==
    \A v \in User : server'[v] = IF v = u THEN server[v] \cup items ELSE server[v]

LEMMA SaveFacts ==
    ASSUME TypeOK, NEW u, NEW new, NEW items, SaveCanvasHistory(u, new, items)
    PROVE  (Saved(u, items) /\ faults' = faults) \/ Faulty
BY DEF TypeOK, SaveCanvasHistory, Saved

LEMMA RestoreUploadFacts ==
    ASSUME TypeOK, NEW t \in Tab, RestoreUpload(t)
    PROVE  /\ restore[t].pc = "upload" /\ Shows(t, tab[t].view) /\ restore'[t].pc = "none"
           /\ (Saved(restore[t].to, restore[t].remote) /\ faults' = faults) \/ Faulty
           /\ refresh' = refresh /\ gen' = gen /\ SameAccount /\ SameClears
           /\ local' = local /\ idb' = idb /\ legacyLocal' = legacyLocal
<1>1. /\ restore[t].pc = "upload" /\ tab' = tab /\ RestoreEnds(t)
      /\ SaveCanvasHistory(restore[t].to, {}, restore[t].remote)
      /\ refresh' = refresh /\ gen' = gen /\ SameAccount /\ SameClears
      /\ local' = local /\ idb' = idb /\ legacyLocal' = legacyLocal
  BY DEF RestoreUpload, clearVars, SameAccount, SameClears
<1> QED BY <1>1, TabFacts, RestoreEndsFacts, SaveFacts

LEMMA GenerateFacts ==
    ASSUME TypeOK, NEW g \in Generation, NEW t \in Tab, Generate(g, t), ~Overlapping
    PROVE  /\ gen[g].pc = "idle" /\ tab[t].mounted /\ ~Replacing(t) /\ ~Clearing(t)
           /\ \A h \in Generation \ {g} : gen'[h] = gen[h]
           /\ gen'[g].pc = "key" /\ gen'[g].tab = t /\ gen'[g].user = tab[t].user
           /\ gen'[g].live = TRUE /\ gen'[g].got = FALSE /\ gen'[g].base = tab[t].view
           /\ Shows(t, tab[t].view) /\ restore' = restore /\ refresh' = refresh
           /\ SameAccount /\ SameStores /\ SameClears /\ faults' = faults
<1> DEFINE n == [NotStarted EXCEPT !.pc = "key", !.tab = t, !.user = tab[t].user,
                                   !.live = TRUE, !.base = tab[t].view]
<1>1. gen' = [gen EXCEPT ![g] = n] /\ SetFlag(tab[t].user, TRUE, t, TRUE)
  BY DEF Generate
<1>2. /\ gen[g].pc = "idle" /\ tab[t].mounted /\ ~Replacing(t) /\ ~Clearing(t)
      /\ restore' = restore /\ refresh' = refresh
      /\ SameAccount /\ SameStores /\ SameClears /\ faults' = faults
  BY DEF Generate, Free, clearVars, SameAccount, SameStores, SameClears
<1>3. /\ n.pc = "key" /\ n.tab = t /\ n.user = tab[t].user /\ n.live = TRUE /\ n.got = FALSE
      /\ n.base = tab[t].view
  BY DEF NotStarted
<1>4. gen \in [Generation -> GenType]
  BY DEF TypeOK
<1> HIDE DEF n
<1>5. gen'[g] = n /\ \A h \in Generation \ {g} : gen'[h] = gen[h]
  BY <1>1, <1>4
<1>6. Shows(t, tab[t].view)
  BY <1>1, SetFlagFacts
<1> QED BY <1>2, <1>3, <1>5, <1>6

\* What a step of a generation leaves alone: the restore, the refreshes, the
\* account and what is being cleared.
SameRest ==
    restore' = restore /\ refresh' = refresh /\ SameAccount /\ SameClears

\* A generation looks for its key, or waits for the relay.
LEMMA AskFacts ==
    ASSUME TypeOK, NEW g \in Generation, NEW t \in Tab, FetchKey(g) \/ Upstream(g)
    PROVE  /\ \/ gen[g].pc = "key" /\ Moves(g, "upstream") /\ gen'[g].got = gen[g].got
              \/ gen[g].pc = "upstream" /\ Moves(g, "response")
              \/ /\ gen[g].pc \in {"key", "upstream"} /\ Moves(g, "finally")
                 /\ gen'[g].got = gen[g].got
           /\ Shows(t, tab[t].view) /\ SameRest /\ SameStores /\ faults' = faults
<1>1. tab' = tab /\ SameRest /\ SameStores /\ faults' = faults
  BY DEF FetchKey, Upstream, tabVars, storeVars, clearVars, SameRest, SameAccount, SameStores,
         SameClears
<1>2. CASE FetchKey(g)
  <2>1. gen[g].pc = "key" /\ (Go(g, "upstream") \/ Go(g, "finally"))
    BY <1>2 DEF FetchKey
  <2> QED BY <1>1, <2>1, TabFacts, GoFacts
<1>3. CASE Upstream(g)
  <2>1. /\ gen[g].pc = "upstream"
        /\ \/ gen' = [gen EXCEPT ![g].pc = "response", ![g].got = TRUE]
           \/ Go(g, "finally")
    BY <1>3 DEF Upstream
  <2>2. CASE gen' = [gen EXCEPT ![g].pc = "response", ![g].got = TRUE]
    <3>1. gen \in [Generation -> GenType]
      BY DEF TypeOK
    <3> DEFINE q == [gen[g] EXCEPT !.pc = "response", !.got = TRUE]
    <3>2. /\ q.pc = "response" /\ q.tab = gen[g].tab /\ q.user = gen[g].user
          /\ q.live = gen[g].live /\ q.base = gen[g].base
      BY <3>1 DEF GenType
    <3>3. gen' = [gen EXCEPT ![g] = q]
      BY <2>2, <3>1
    <3> HIDE DEF q
    <3>4. gen'[g] = q /\ \A h \in Generation \ {g} : gen'[h] = gen[h]
      BY <3>1, <3>3
    <3>5. Moves(g, "response")
      BY <3>2, <3>4 DEF Moves
    <3> QED BY <1>1, <2>1, <3>5, TabFacts
  <2>3. CASE Go(g, "finally")
    BY <1>1, <2>1, <2>3, TabFacts, GoFacts
  <2> QED BY <2>1, <2>2, <2>3
<1> QED BY <1>2, <1>3

LEMMA ShowImageFacts ==
    ASSUME TypeOK, NEW g \in Generation, NEW t \in Tab, gen[g].tab = t, ShowImage(g)
    PROVE  /\ gen[g].pc = "response" /\ Moves(g, "save")
           /\ Shows(t, IF gen[g].live THEN NewList(g) ELSE tab[t].view)
           /\ SameRest /\ SameStores /\ faults' = faults
<1>1. /\ gen[g].pc = "response" /\ SetView(t, gen[g].live, NewList(g))
      /\ gen' = [gen EXCEPT ![g].pc = "save", ![g].to = session]
      /\ SameRest /\ SameStores /\ faults' = faults
  BY DEF ShowImage, storeVars, clearVars, SameRest, SameAccount, SameStores, SameClears
<1>2. NewList(g) \in SUBSET Image
  BY DEF TypeOK, GenType, NewList, Image
<1>3. Moves(g, "save") /\ gen'[g].got = gen[g].got
  <2>1. gen \in [Generation -> GenType]
    BY DEF TypeOK
  <2> DEFINE q == [gen[g] EXCEPT !.pc = "save", !.to = session]
  <2>2. /\ q.pc = "save" /\ q.tab = gen[g].tab /\ q.user = gen[g].user
        /\ q.live = gen[g].live /\ q.base = gen[g].base /\ q.got = gen[g].got
    BY <2>1 DEF GenType
  <2>3. gen' = [gen EXCEPT ![g] = q]
    BY <1>1, <2>1
  <2> HIDE DEF q
  <2>4. gen'[g] = q /\ \A h \in Generation \ {g} : gen'[h] = gen[h]
    BY <2>1, <2>3
  <2> QED BY <2>2, <2>4 DEF Moves
<1> QED BY <1>1, <1>2, <1>3, SetViewFacts

LEMMA SaveToServerFacts ==
    ASSUME TypeOK, NEW g \in Generation, NEW t \in Tab, SaveToServer(g)
    PROVE  /\ gen[g].pc = "save" /\ gen'[g].got = gen[g].got
           /\ \/ Moves(g, "fetch") /\ Saved(gen[g].to, NewList(g)) /\ faults' = faults
              \/ Moves(g, "publish") /\ Faulty
           /\ Shows(t, tab[t].view) /\ SameRest
           /\ local' = local /\ idb' = idb /\ legacyLocal' = legacyLocal
<1>1. /\ gen[g].pc = "save" /\ SaveCanvasHistory(gen[g].to, {g}, NewList(g))
      /\ tab' = tab /\ SameRest
      /\ local' = local /\ idb' = idb /\ legacyLocal' = legacyLocal
      /\ Go(g, IF faults' = faults THEN "fetch" ELSE "publish")
  BY DEF SaveToServer, tabVars, clearVars, SameRest, SameAccount, SameClears
<1>2. (Saved(gen[g].to, NewList(g)) /\ faults' = faults) \/ (Faulty /\ faults' # faults)
  <2>1. Faulty => faults' # faults
    BY DEF Faulty, TypeOK
  <2> QED BY <1>1, <2>1, SaveFacts
<1>3. CASE Saved(gen[g].to, NewList(g)) /\ faults' = faults
  <2>1. Go(g, "fetch")
    BY <1>1, <1>3
  <2> QED BY <1>1, <1>3, <2>1, TabFacts, GoFacts
<1>4. CASE Faulty /\ faults' # faults
  <2>1. Go(g, "publish")
    BY <1>1, <1>4
  <2> QED BY <1>1, <1>4, <2>1, TabFacts, GoFacts
<1> QED BY <1>2, <1>3, <1>4

LEMMA FetchBackFacts ==
    ASSUME TypeOK, NEW g \in Generation, NEW t \in Tab, FetchBack(g)
    PROVE  /\ gen[g].pc = "fetch" /\ gen'[g].got = gen[g].got
           /\ \/ Moves(g, "merge") /\ gen'[g].remote = server[session] /\ faults' = faults
              \/ Moves(g, "publish") /\ Faulty
           /\ Shows(t, tab[t].view) /\ SameRest /\ SameStores
<1>1. /\ gen[g].pc = "fetch" /\ tab' = tab /\ SameRest /\ SameStores
      /\ \/ /\ gen' = [gen EXCEPT ![g].pc = "merge", ![g].remote = server[session]]
            /\ faults' = faults
         \/ Faulty /\ Go(g, "publish")
  BY DEF FetchBack, tabVars, storeVars, clearVars, SameRest, SameAccount, SameStores, SameClears
<1>2. ASSUME gen' = [gen EXCEPT ![g].pc = "merge", ![g].remote = server[session]]
      PROVE  Moves(g, "merge") /\ gen'[g].remote = server[session] /\ gen'[g].got = gen[g].got
  <2>1. gen \in [Generation -> GenType]
    BY DEF TypeOK
  <2> DEFINE q == [gen[g] EXCEPT !.pc = "merge", !.remote = server[session]]
  <2>2. /\ q.pc = "merge" /\ q.tab = gen[g].tab /\ q.user = gen[g].user
        /\ q.live = gen[g].live /\ q.base = gen[g].base /\ q.got = gen[g].got
        /\ q.remote = server[session]
    BY <2>1 DEF GenType
  <2>3. gen' = [gen EXCEPT ![g] = q]
    BY <1>2, <2>1
  <2> HIDE DEF q
  <2>4. gen'[g] = q /\ \A h \in Generation \ {g} : gen'[h] = gen[h]
    BY <2>1, <2>3
  <2> QED BY <2>2, <2>4 DEF Moves
<1>3. CASE Faulty /\ Go(g, "publish")
  BY <1>1, <1>3, TabFacts, GoFacts
<1>4. CASE /\ gen' = [gen EXCEPT ![g].pc = "merge", ![g].remote = server[session]]
           /\ faults' = faults
  BY <1>1, <1>2, <1>4, TabFacts
<1> QED BY <1>1, <1>3, <1>4

LEMMA MergeBackFacts ==
    ASSUME TypeOK, NEW g \in Generation, NEW t \in Tab, gen[g].tab = t, MergeBack(g)
    PROVE  /\ gen[g].pc = "merge" /\ Moves(g, "publish") /\ gen'[g].got = gen[g].got
           /\ Shows(t, IF gen[g].live THEN gen[g].remote \cup NewList(g) ELSE tab[t].view)
           /\ SameRest /\ SameStores /\ faults' = faults
<1> DEFINE V == gen[g].remote \cup NewList(g)
<1>1. /\ gen[g].pc = "merge" /\ SetView(t, gen[g].live, V)
      /\ gen' = [gen EXCEPT ![g].pc = "publish", ![g].remote = {}]
      /\ SameRest /\ SameStores /\ faults' = faults
  BY DEF MergeBack, storeVars, clearVars, SameRest, SameAccount, SameStores, SameClears
<1>2. V \in SUBSET Image
  BY DEF TypeOK, GenType, NewList, Image
<1> HIDE DEF V
<1>3. Moves(g, "publish") /\ gen'[g].got = gen[g].got
  <2>1. gen \in [Generation -> GenType]
    BY DEF TypeOK
  <2> DEFINE q == [gen[g] EXCEPT !.pc = "publish", !.remote = {}]
  <2>2. /\ q.pc = "publish" /\ q.tab = gen[g].tab /\ q.user = gen[g].user
        /\ q.live = gen[g].live /\ q.base = gen[g].base /\ q.got = gen[g].got
    BY <2>1 DEF GenType
  <2>3. gen' = [gen EXCEPT ![g] = q]
    BY <1>1, <2>1
  <2> HIDE DEF q
  <2>4. gen'[g] = q /\ \A h \in Generation \ {g} : gen'[h] = gen[h]
    BY <2>1, <2>3
  <2> QED BY <2>2, <2>4 DEF Moves
<1>4. Shows(t, IF gen[g].live THEN V ELSE tab[t].view)
  BY <1>1, <1>2, SetViewFacts
<1> QED BY <1>1, <1>3, <1>4 DEF V

\* One account's entry of a store is overwritten.
Written(store, stored, u, list) ==
    stored[u] = list /\ \A v \in User \ {u} : stored[v] = store[v]

LEMMA StoreLocalFacts ==
    ASSUME TypeOK, NEW g \in Generation, NEW t \in Tab, gen[g].user \in User, StoreLocal(g)
    PROVE  /\ \/ gen[g].pc = "publish" /\ Moves(g, "persist")
              \/ gen[g].pc = "persist" /\ Moves(g, "idb")
           /\ gen'[g].got = gen[g].got
           /\ \/ Written(local, local', gen[g].user, NewList(g)) /\ faults' = faults
              \/ local' = local /\ Faulty
           /\ Shows(t, tab[t].view) /\ SameRest
           /\ server' = server /\ idb' = idb /\ legacyLocal' = legacyLocal
<1>1. /\ gen[g].pc \in {"publish", "persist"} /\ tab' = tab /\ SameRest
      /\ server' = server /\ idb' = idb /\ legacyLocal' = legacyLocal
      /\ \/ local' = [local EXCEPT ![gen[g].user] = NewList(g)] /\ faults' = faults
         \/ Faulty /\ local' = local
      /\ Go(g, IF gen[g].pc = "publish" THEN "persist" ELSE "idb")
  BY DEF StoreLocal, tabVars, clearVars, SameRest, SameAccount, SameClears
<1>2. \/ Written(local, local', gen[g].user, NewList(g)) /\ faults' = faults
      \/ local' = local /\ Faulty
  BY <1>1 DEF TypeOK, Written
<1>3. CASE gen[g].pc = "publish"
  <2>1. Go(g, "persist")
    BY <1>1, <1>3
  <2> QED BY <1>1, <1>2, <1>3, <2>1, TabFacts, GoFacts
<1>4. CASE gen[g].pc = "persist"
  <2>1. Go(g, "idb")
    BY <1>1, <1>4
  <2> QED BY <1>1, <1>2, <1>4, <2>1, TabFacts, GoFacts
<1> QED BY <1>1, <1>3, <1>4

LEMMA StoreIndexedFacts ==
    ASSUME TypeOK, NEW g \in Generation, NEW t \in Tab, gen[g].user \in User, StoreIndexed(g)
    PROVE  /\ gen[g].pc = "idb" /\ Moves(g, "finally") /\ gen'[g].got = gen[g].got
           /\ \/ Written(idb, idb', gen[g].user, NewList(g)) /\ faults' = faults
              \/ idb' = idb /\ Faulty
           /\ Shows(t, tab[t].view) /\ SameRest
           /\ server' = server /\ local' = local /\ legacyLocal' = legacyLocal
<1>1. /\ gen[g].pc = "idb" /\ tab' = tab /\ SameRest /\ Go(g, "finally")
      /\ server' = server /\ local' = local /\ legacyLocal' = legacyLocal
      /\ \/ idb' = [idb EXCEPT ![gen[g].user] = NewList(g)] /\ faults' = faults
         \/ Faulty /\ idb' = idb
  BY DEF StoreIndexed, tabVars, clearVars, SameRest, SameAccount, SameClears
<1>2. \/ Written(idb, idb', gen[g].user, NewList(g)) /\ faults' = faults
      \/ idb' = idb /\ Faulty
  BY <1>1 DEF TypeOK, Written
<1> QED BY <1>1, <1>2, TabFacts, GoFacts

LEMMA FinallyFacts ==
    ASSUME TypeOK, NEW g \in Generation, NEW t \in Tab, Finally(g)
    PROVE  /\ gen[g].pc = "finally" /\ Moves(g, "done") /\ gen'[g].got = gen[g].got
           /\ Shows(t, tab[t].view) /\ SameRest /\ SameStores /\ faults' = faults
<1>1. /\ gen[g].pc = "finally" /\ Go(g, "done")
      /\ SetFlag(gen[g].user, FALSE, gen[g].tab, gen[g].live)
      /\ SameRest /\ SameStores /\ faults' = faults
  BY DEF Finally, clearVars, SameRest, SameAccount, SameStores, SameClears
<1> QED BY <1>1, SetFlagFacts, GoFacts

LEMMA RefreshReadFacts ==
    ASSUME TypeOK, NEW t \in Tab, RefreshRead(t)
    PROVE  /\ Shows(t, tab[t].view)
           /\ ~crossed' /\ tab[t].mounted => ~Clearing(t)
           /\ \/ refresh'[t] = refresh[t] /\ faults' = faults
              \/ /\ tab[t].mounted /\ refresh'[t] = refresh[t] \cup {server[session]}
                 /\ faults' = faults
              \/ tab[t].mounted /\ Faulty
           /\ restore' = restore /\ gen' = gen /\ SameAccount /\ SameStores /\ SameClears
<1>1. /\ tab' = tab
      /\ ~crossed' /\ tab[t].mounted => ~Clearing(t)
      /\ \/ refresh' = refresh /\ faults' = faults
         \/ /\ tab[t].mounted /\ refresh' = [refresh EXCEPT ![t] = @ \cup {server[session]}]
            /\ faults' = faults
         \/ tab[t].mounted /\ Faulty
      /\ restore' = restore /\ gen' = gen /\ SameAccount /\ SameStores /\ SameClears
  BY DEF RefreshRead, storeVars, clearVars, SameAccount, SameStores, SameClears
<1>2. refresh \in [Tab -> SUBSET SUBSET Image]
  BY DEF TypeOK
<1> QED BY <1>1, <1>2, TabFacts

LEMMA RefreshApplyFacts ==
    ASSUME TypeOK, NEW t \in Tab, RefreshApply(t)
    PROVE  \E S \in refresh[t] :
             LET u == tab[t].user
                 saved == IF local[u] # {} THEN local[u] ELSE idb[u]
             IN  /\ Shows(t, tab[t].view \cup (IF S # {} THEN S ELSE saved))
                 /\ refresh'[t] = refresh[t] \ {S}
                 /\ restore' = restore /\ gen' = gen
                 /\ SameAccount /\ SameStores /\ SameClears /\ faults' = faults
<1> DEFINE u == tab[t].user
           saved == IF local[u] # {} THEN local[u] ELSE idb[u]
<1>1. PICK S \in refresh[t] :
        /\ refresh' = [refresh EXCEPT ![t] = @ \ {S}]
        /\ tab' = [tab EXCEPT ![t].view = @ \cup (IF S # {} THEN S ELSE saved)]
  BY DEF RefreshApply
<1>2. /\ restore' = restore /\ gen' = gen
      /\ SameAccount /\ SameStores /\ SameClears /\ faults' = faults
  BY DEF RefreshApply, storeVars, clearVars, SameAccount, SameStores, SameClears
<1> DEFINE V == tab[t].view \cup (IF S # {} THEN S ELSE saved)
<1>3. /\ tab \in [Tab -> TabType] /\ refresh \in [Tab -> SUBSET SUBSET Image]
      /\ u \in User /\ tab[t].view \in SUBSET Image
  BY DEF TypeOK, TabType
<1>4. V \in SUBSET Image
  BY <1>3 DEF TypeOK
<1>5. SetView(t, TRUE, V)
  BY <1>1, <1>3 DEF SetView
<1> HIDE DEF V
<1>6. Shows(t, V)
  BY <1>4, <1>5, SetViewFacts
<1>7. refresh'[t] = refresh[t] \ {S}
  BY <1>1, <1>3
<1> QED BY <1>2, <1>6, <1>7 DEF V

LEMMA ClearFacts ==
    ASSUME TypeOK, NEW t \in Tab, Clear(t), ~Overlapping
    PROVE  LET u == tab[t].user
           IN  /\ tab[t].mounted /\ ~Replacing(t) /\ ~Clearing(t)
               /\ ~crossed' => refresh[t] = {} /\ posts' = {}
               /\ Shows(t, {}) /\ u \in User
               /\ Written(local, local', u, {})
               /\ idbDeletes'[t] = idbDeletes[t] \cup {u} /\ deletes' = deletes \cup {session}
               /\ cleared' = cleared \cup tab[t].view \cup local[u]
               /\ restore' = restore /\ refresh' = refresh /\ gen' = gen /\ SameAccount
               /\ server' = server /\ idb' = idb /\ legacyLocal' = legacyLocal
               /\ faults' = faults
<1> DEFINE u == tab[t].user
<1>1. /\ tab[t].mounted /\ ~Replacing(t) /\ ~Clearing(t)
      /\ ~crossed' => refresh[t] = {} /\ posts' = {}
      /\ tab' = [tab EXCEPT ![t].view = {}] /\ local' = [local EXCEPT ![u] = {}]
      /\ idbDeletes' = [idbDeletes EXCEPT ![t] = @ \cup {u}] /\ deletes' = deletes \cup {session}
      /\ cleared' = cleared \cup tab[t].view \cup local[u]
      /\ restore' = restore /\ refresh' = refresh /\ gen' = gen /\ SameAccount
      /\ server' = server /\ idb' = idb /\ legacyLocal' = legacyLocal /\ faults' = faults
  BY DEF Clear, Free, SameAccount
<1>2. u \in User
  BY DEF TypeOK, TabType
<1>3. local \in [User -> SUBSET Image] /\ idbDeletes \in [Tab -> SUBSET User]
  BY DEF TypeOK
<1>4. SetView(t, TRUE, {})
  BY <1>1 DEF SetView
<1>5. Shows(t, {})
  BY <1>4, SetViewFacts
<1>6. Written(local, local', u, {}) /\ idbDeletes'[t] = idbDeletes[t] \cup {u}
  BY <1>1, <1>2, <1>3 DEF Written
<1> QED BY <1>1, <1>2, <1>5, <1>6

\* What the deletions leave alone.
DeleteFrame(t) ==
    /\ Shows(t, tab[t].view) /\ restore' = restore /\ refresh' = refresh /\ gen' = gen
    /\ SameAccount /\ local' = local /\ legacyLocal' = legacyLocal

LEMMA ClearIndexedFacts ==
    ASSUME TypeOK, NEW t \in Tab, ClearIndexed(t)
    PROVE  \E u \in User :
             /\ u \in idbDeletes[t] /\ idbDeletes'[t] = idbDeletes[t] \ {u} /\ deletes' = deletes
             /\ \/ /\ Written(idb, idb', u, {}) /\ cleared' = cleared \cup idb[u]
                   /\ faults' = faults
                \/ idb' = idb /\ cleared' = cleared /\ Faulty
             /\ DeleteFrame(t) /\ server' = server
<1>1. PICK u \in idbDeletes[t] :
        /\ idbDeletes' = [idbDeletes EXCEPT ![t] = @ \ {u}]
        /\ \/ /\ idb' = [idb EXCEPT ![u] = {}] /\ cleared' = cleared \cup idb[u]
              /\ faults' = faults
           \/ Faulty /\ idb' = idb /\ cleared' = cleared
        /\ UNCHANGED <<tabVars, gen, server, local, legacyLocal, legacyIdb, flag, deletes,
                       posts, crossed, mixed, bounds>>
  BY DEF ClearIndexed
<1>2. u \in User /\ idbDeletes \in [Tab -> SUBSET User] /\ idb \in [User -> SUBSET Image]
  BY DEF TypeOK
<1>3. DeleteFrame(t) /\ server' = server /\ deletes' = deletes
  BY <1>1, TabFacts DEF tabVars, DeleteFrame, SameAccount
<1>4. idbDeletes'[t] = idbDeletes[t] \ {u}
  BY <1>1, <1>2
<1>5. idb' = [idb EXCEPT ![u] = {}] => Written(idb, idb', u, {})
  BY <1>2 DEF Written
<1> QED BY <1>1, <1>2, <1>3, <1>4, <1>5

LEMMA LateSaveFacts ==
    ASSUME TypeOK, NEW t \in Tab, NEW p \in posts, LateSave(p)
    PROVE  /\ Shows(t, tab[t].view) /\ restore' = restore /\ refresh' = refresh /\ gen' = gen
           /\ SameAccount /\ SameClears
           /\ local' = local /\ idb' = idb /\ legacyLocal' = legacyLocal
           /\ \/ (Saved(p.user, p.items) \/ server' = server) /\ faults' = faults
              \/ Faulty
           /\ posts' = posts \ {p}
           /\ ~crossed' => ~crossed /\ ~HasRead(t, p.user)
<1>1. /\ tab' = tab /\ restore' = restore /\ refresh' = refresh /\ gen' = gen
      /\ SameAccount /\ SameClears
      /\ local' = local /\ idb' = idb /\ legacyLocal' = legacyLocal
      /\ posts' = posts \ {p}
  BY DEF LateSave, tabVars, SameAccount, SameClears
<1>2. ~crossed' => ~crossed /\ ~HasRead(t, p.user)
  BY DEF LateSave
<1>3. \/ (Saved(p.user, p.items) \/ server' = server) /\ faults' = faults
      \/ Faulty
  BY SaveFacts DEF LateSave
<1> QED BY <1>1, <1>2, <1>3, TabFacts

LEMMA DeleteFacts ==
    ASSUME TypeOK, NEW t \in Tab, NEW u \in User, DeleteCanvasHistory(u)
    PROVE  /\ u \in deletes /\ deletes' = deletes \ {u} /\ idbDeletes' = idbDeletes
           /\ \/ /\ Written(server, server', u, {}) /\ cleared' = cleared \cup server[u]
                 /\ faults' = faults
              \/ server' = server /\ cleared' = cleared /\ Faulty
           /\ DeleteFrame(t) /\ idb' = idb
<1>1. /\ u \in deletes /\ deletes' = deletes \ {u} /\ idbDeletes' = idbDeletes
      /\ \/ /\ server' = [server EXCEPT ![u] = {}] /\ cleared' = cleared \cup server[u]
            /\ faults' = faults
         \/ server' = server /\ cleared' = cleared /\ Faulty
      /\ idb' = idb
  BY DEF DeleteCanvasHistory
<1>2. DeleteFrame(t)
  BY TabFacts DEF DeleteCanvasHistory, tabVars, DeleteFrame, SameAccount
<1>3. server' = [server EXCEPT ![u] = {}] => Written(server, server', u, {})
  BY DEF TypeOK, Written
<1> QED BY <1>1, <1>2, <1>3

-----------------------------------------------------------------------------
(* The handlers take turns.                                                 *)

\* Every handler that is under way was, in the same canvas.
GoesOn(t) ==
    /\ SameTab(t)
    /\ \A g \in Generation :
         /\ gen'[g].pc # "idle" => gen[g].pc # "idle" /\ gen'[g].user = gen[g].user
         /\ Runs(g)' => /\ Runs(g) /\ gen'[g].tab = gen[g].tab
                        /\ gen'[g].live = gen[g].live
    /\ restore'[t].pc # "none" => /\ restore[t].pc # "none"
                                  /\ restore'[t].live = restore[t].live
                                  /\ restore'[t].user = restore[t].user
    /\ idbDeletes'[t] \subseteq idbDeletes[t] /\ deletes' \subseteq deletes
    /\ ~tab[t].mounted /\ refresh[t] = {} => refresh'[t] = {}

LEMMA ClearingGoesOn ==
    ASSUME NEW t, idbDeletes'[t] \subseteq idbDeletes[t], deletes' \subseteq deletes
    PROVE  Clearing(t)' => Clearing(t)
BY DEF Clearing

LEMMA TurnGoesOn ==
    ASSUME NEW t, TurnInv(t), GoesOn(t) PROVE TurnInv(t)'
<1>1. Clearing(t)' => Clearing(t)
  BY ClearingGoesOn DEF GoesOn
<1>2. ASSUME NEW g \in Generation
      PROVE  /\ gen'[g].pc # "idle" => gen'[g].user \in User
             /\ Runs(g)' =>
                  /\ \A h \in Generation : Runs(h)' => h = g
                  /\ restore'[t].pc = "none" /\ ~Clearing(t)'
                  /\ gen'[g].tab = t /\ gen'[g].live = tab'[t].mounted
                  /\ tab'[t].mounted => tab'[t].user = gen'[g].user
  <2>1. gen'[g].pc # "idle" => gen'[g].user \in User
    BY DEF TurnInv, GoesOn
  <2>2. ASSUME Runs(g)'
        PROVE  /\ \A h \in Generation : Runs(h)' => h = g
               /\ restore'[t].pc = "none" /\ ~Clearing(t)'
               /\ gen'[g].tab = t /\ gen'[g].live = tab'[t].mounted
               /\ tab'[t].mounted => tab'[t].user = gen'[g].user
    <3>1. Runs(g) /\ gen'[g].tab = gen[g].tab /\ gen'[g].live = gen[g].live
      BY <2>2 DEF GoesOn
    <3>2. gen'[g].pc # "idle"
      BY <2>2 DEF Runs, Running
    <3>3. gen'[g].user = gen[g].user
      BY <3>2 DEF GoesOn
    <3> QED BY <1>1, <3>1, <3>3 DEF TurnInv, GoesOn, SameTab
  <2> QED BY <2>1, <2>2
<1>3. restore'[t].pc # "none" =>
         /\ ~Clearing(t)' /\ restore'[t].live = tab'[t].mounted
         /\ tab'[t].mounted => tab'[t].user = restore'[t].user
  BY <1>1 DEF TurnInv, GoesOn, SameTab
<1>4. ~tab'[t].mounted => refresh'[t] = {}
  BY DEF TurnInv, GoesOn, SameTab
<1> QED BY <1>2, <1>3, <1>4 DEF TurnInv

\* Steps of a generation.
LEMMA MovesTurn ==
    ASSUME NEW t, TurnInv(t), NEW g \in Generation, Runs(g), NEW p, Moves(g, p), SameTab(t), SameRest
    PROVE  TurnInv(t)'
<1>1. \A h \in Generation :
         /\ gen'[h].pc # "idle" => gen[h].pc # "idle" /\ gen'[h].user = gen[h].user
         /\ Runs(h)' => Runs(h) /\ gen'[h].tab = gen[h].tab /\ gen'[h].live = gen[h].live
  <2>1. gen[g].pc # "idle"
    BY DEF Runs, Running
  <2> QED BY <2>1 DEF Moves, Runs
<1>2. GoesOn(t)
  BY <1>1 DEF GoesOn, SameRest, SameClears
<1> QED BY <1>2, TurnGoesOn

\* Steps without a generation.
LEMMA OthersTurn ==
    ASSUME NEW t, TurnInv(t), gen' = gen, SameTab(t),
           restore'[t].pc # "none" => /\ restore[t].pc # "none"
                                      /\ restore'[t].live = restore[t].live
                                      /\ restore'[t].user = restore[t].user,
           idbDeletes'[t] \subseteq idbDeletes[t], deletes' \subseteq deletes,
           ~tab[t].mounted /\ refresh[t] = {} => refresh'[t] = {}
    PROVE  TurnInv(t)'
<1>1. \A h \in Generation :
         /\ gen'[h].pc # "idle" => gen[h].pc # "idle" /\ gen'[h].user = gen[h].user
         /\ Runs(h)' => Runs(h) /\ gen'[h].tab = gen[h].tab /\ gen'[h].live = gen[h].live
  BY DEF Runs
<1>2. GoesOn(t)
  BY <1>1 DEF GoesOn
<1> QED BY <1>2, TurnGoesOn

LEMMA FrameTurn == ASSUME NEW t, TurnInv(t), Frame(t) PROVE TurnInv(t)'
BY OthersTurn DEF Frame, Shows, SameClears

LEMMA AwayTurn == ASSUME NEW t, TurnInv(t), Away(t) PROVE TurnInv(t)'
<1>1. Clearing(t)' => Clearing(t)
  BY ClearingGoesOn DEF Away
<1>2. ASSUME NEW g \in Generation
      PROVE  /\ gen'[g].user = gen[g].user /\ (gen'[g].pc # "idle" => gen[g].pc # "idle")
             /\ Runs(g)' => /\ Runs(g) /\ gen'[g].tab = gen[g].tab
                            /\ gen[g].tab = t => gen'[g].live = FALSE
  BY DEF Away, Runs, Running
<1>3. ASSUME NEW g \in Generation, Runs(g)'
      PROVE  /\ \A h \in Generation : Runs(h)' => h = g
             /\ restore'[t].pc = "none" /\ ~Clearing(t)'
             /\ gen'[g].tab = t /\ gen'[g].live = FALSE
  <2>1. Runs(g) /\ gen'[g].tab = gen[g].tab /\ (gen[g].tab = t => gen'[g].live = FALSE)
    BY <1>2, <1>3
  <2>2. /\ \A h \in Generation : Runs(h) => h = g
        /\ restore[t].pc = "none" /\ ~Clearing(t) /\ gen[g].tab = t
    BY <2>1 DEF TurnInv
  <2>3. restore'[t].pc = "none"
    BY <2>2 DEF Away
  <2> QED BY <1>1, <1>2, <2>1, <2>2, <2>3
<1>4. tab'[t].mounted = FALSE /\ refresh'[t] = {}
  BY DEF Away
<1>5. restore'[t].pc # "none" => ~Clearing(t)' /\ restore'[t].live = FALSE
  BY <1>1 DEF Away, TurnInv
<1>6. \A g \in Generation : gen'[g].pc # "idle" => gen'[g].user \in User
  BY <1>2 DEF TurnInv
<1> QED BY <1>3, <1>4, <1>5, <1>6 DEF TurnInv

\* Nothing runs while nothing replaces the list.
LEMMA NoneRuns ==
    ASSUME NEW t, TurnInv(t), ~Replacing(t)
    PROVE  restore[t].pc = "none" /\ \A g \in Generation : ~Runs(g)
BY DEF TurnInv, Replacing, Runs

LEMMA MountTurn ==
    ASSUME TypeOK, ~Overlapping, NEW t \in Tab, TurnInv(t), Mount(t) PROVE TurnInv(t)'
<1>1. /\ gen' = gen /\ SameClears /\ refresh' = refresh /\ ~Clearing(t) /\ ~Replacing(t)
      /\ restore'[t].live = tab'[t].mounted /\ tab'[t].user = restore'[t].user
      /\ tab'[t].mounted
  BY MountFacts
<1>2. ~Clearing(t)'
  BY <1>1 DEF SameClears, Clearing
<1>3. \A g \in Generation : ~Runs(g)
  BY <1>1, NoneRuns
<1>4. \A g \in Generation : ~Runs(g)' /\ (gen'[g].pc # "idle" => gen'[g].user \in User)
  BY <1>1, <1>3 DEF Runs, TurnInv
<1> QED BY <1>1, <1>2, <1>4 DEF TurnInv

LEMMA RestoreTurn ==
    ASSUME TypeOK, NEW t \in Tab, TurnInv(t), Restore(t) PROVE TurnInv(t)'
<1>1. /\ gen' = gen /\ SameTab(t) /\ refresh' = refresh /\ SameClears
      /\ restore[t].pc # "none"
      /\ \/ restore'[t].pc = "none"
         \/ \E p \in {"answered", "failed", "indexed", "upload"} : RestoreGoes(t, p)
  <2>1. CASE RestoreAnswer(t)
    BY <2>1, RestoreAnswerFacts DEF Shows
  <2>2. CASE RestoreMerge(t)
    BY <2>2, RestoreMergeFacts DEF Shows
  <2>3. CASE RestoreLocal(t)
    BY <2>3, RestoreLocalFacts DEF Shows
  <2>4. CASE RestoreIndexed(t)
    BY <2>4, RestoreIndexedFacts DEF Shows
  <2>5. CASE RestoreUpload(t)
    BY <2>5, RestoreUploadFacts DEF Shows
  <2>6. CASE RestoreFallback(t)
    BY <2>6, RestoreFallbackFacts DEF Shows
  <2> QED BY <2>1, <2>2, <2>3, <2>4, <2>5, <2>6 DEF Restore
<1>2. restore'[t].pc # "none" => /\ restore'[t].live = restore[t].live
                                 /\ restore'[t].user = restore[t].user
  BY <1>1 DEF RestoreGoes
<1> QED BY <1>1, <1>2, OthersTurn DEF SameClears

LEMMA GenerateTurn ==
    ASSUME TypeOK, ~Overlapping, NEW t \in Tab, TurnInv(t), NEW g \in Generation, Generate(g, t)
    PROVE  TurnInv(t)'
<1>1. /\ ~Clearing(t) /\ ~Replacing(t) /\ tab[t].mounted /\ tab[t].mounted = TRUE
      /\ \A h \in Generation \ {g} : gen'[h] = gen[h]
      /\ gen'[g].pc = "key" /\ gen'[g].tab = t /\ gen'[g].user = tab[t].user
      /\ gen'[g].live = TRUE /\ Shows(t, tab[t].view) /\ restore' = restore /\ SameClears
  <2>1. tab[t].mounted \in BOOLEAN
    BY DEF TypeOK, TabType
  <2> QED BY <2>1, GenerateFacts
<1>2. ~Clearing(t)' /\ restore'[t].pc = "none"
  BY <1>1, NoneRuns DEF SameClears, Clearing
<1>3. \A h \in Generation \ {g} : ~Runs(h)' /\ (gen'[h].pc # "idle" => gen'[h].user \in User)
  BY <1>1, NoneRuns DEF Runs, TurnInv
<1>4. tab[t].user \in User
  BY DEF TypeOK, TabType
<1>5. /\ gen'[g].user \in User /\ gen'[g].tab = t /\ gen'[g].live = tab'[t].mounted
      /\ tab'[t].user = gen'[g].user /\ tab'[t].mounted
  BY <1>1, <1>4 DEF Shows, SameTab
<1> QED BY <1>2, <1>3, <1>5 DEF TurnInv

LEMMA GenerateStepTurn ==
    ASSUME TypeOK, NEW t \in Tab, TurnInv(t), NEW g \in Generation, GenerateStep(g)
    PROVE  Runs(g) /\ TurnInv(t)'
<1>1. Runs(g)
  BY DEF GenerateStep, FetchKey, Upstream, ShowImage, SaveToServer, FetchBack, MergeBack,
         StoreLocal, StoreIndexed, Finally, Runs, Running
<1>2. gen[g].tab = t /\ gen[g].user \in User
  BY <1>1 DEF TurnInv, Runs, Running
<1>3. SameTab(t) /\ SameRest /\ \E p \in PC : Moves(g, p)
  <2>1. CASE FetchKey(g) \/ Upstream(g)
    BY <2>1, AskFacts, Pcs DEF Shows
  <2>2. CASE ShowImage(g)
    <3>1. \E V : Shows(t, V) /\ SameRest /\ Moves(g, "save")
      BY <1>2, <2>2, ShowImageFacts
    <3>2. "save" \in PC
      BY DEF PC, Running
    <3> QED BY <3>1, <3>2 DEF Shows
  <2>3. CASE SaveToServer(g)
    BY <2>3, SaveToServerFacts, Pcs DEF Shows
  <2>4. CASE FetchBack(g)
    BY <2>4, FetchBackFacts, Pcs DEF Shows
  <2>5. CASE MergeBack(g)
    BY <1>2, <2>5, MergeBackFacts, Pcs DEF Shows
  <2>6. CASE StoreLocal(g)
    BY <1>2, <2>6, StoreLocalFacts, Pcs DEF Shows
  <2>7. CASE StoreIndexed(g)
    BY <1>2, <2>7, StoreIndexedFacts, Pcs DEF Shows
  <2>8. CASE Finally(g)
    BY <2>8, FinallyFacts, Pcs DEF Shows
  <2> QED BY <2>1, <2>2, <2>3, <2>4, <2>5, <2>6, <2>7, <2>8 DEF GenerateStep
<1> QED BY <1>1, <1>3, MovesTurn

LEMMA RefreshTurn ==
    ASSUME TypeOK, ~Overlapping, NEW t \in Tab, TurnInv(t), RefreshRead(t) \/ RefreshApply(t)
    PROVE  TurnInv(t)'
<1>1. CASE RefreshRead(t)
  BY <1>1, RefreshReadFacts, OthersTurn DEF Shows, SameClears
<1>2. CASE RefreshApply(t)
  BY <1>2, RefreshApplyFacts, OthersTurn DEF Shows, SameClears
<1> QED BY <1>1, <1>2

LEMMA ClearTurn ==
    ASSUME TypeOK, ~Overlapping, NEW t \in Tab, TurnInv(t), Clear(t) PROVE TurnInv(t)'
<1>1. /\ gen' = gen /\ restore' = restore /\ ~Replacing(t) /\ Shows(t, {})
      /\ tab[t].mounted
  BY ClearFacts
<1>2. restore[t].pc = "none" /\ \A g \in Generation : ~Runs(g)
  BY <1>1, NoneRuns
<1>3. \A g \in Generation : ~Runs(g)' /\ (gen'[g].pc # "idle" => gen'[g].user \in User)
  BY <1>1, <1>2 DEF Runs, TurnInv
<1> QED BY <1>1, <1>2, <1>3 DEF TurnInv, Shows, SameTab

LEMMA DeleteTurn ==
    ASSUME TypeOK, NEW t \in Tab, TurnInv(t),
           ClearIndexed(t) \/ \E u \in User : DeleteCanvasHistory(u)
    PROVE  TurnInv(t)'
<1>1. CASE ClearIndexed(t)
  BY <1>1, ClearIndexedFacts, OthersTurn DEF DeleteFrame, Shows
<1>2. ASSUME NEW u \in User, DeleteCanvasHistory(u) PROVE TurnInv(t)'
  BY <1>2, DeleteFacts, OthersTurn DEF DeleteFrame, Shows
<1> QED BY <1>1, <1>2

LEMMA LateSaveTurn ==
    ASSUME TypeOK, NEW t \in Tab, TurnInv(t), NEW p \in posts, LateSave(p) PROVE TurnInv(t)'
BY LateSaveFacts, OthersTurn DEF Shows, SameClears

\* The steps of a single tab.
LEMMA OneTabSteps ==
    ASSUME NEW t, OneTab(t), [Next]_vars
    PROVE  \/ UNCHANGED vars \/ Connect(t) \/ Disconnect(t) \/ (\E e \in Event : Deliver(t, e))
           \/ (\E u \in User : SwitchAccount(t, u) \/ SignInAgain(t, u))
           \/ Reload(t) \/ Unmount(t)
           \/ Mount(t) \/ Restore(t) \/ RefreshRead(t) \/ RefreshApply(t)
           \/ Clear(t) \/ ClearIndexed(t) \/ (\E u \in User : DeleteCanvasHistory(u))
           \/ (\E g \in Generation : Generate(g, t))
           \/ (\E g \in Generation : GenerateStep(g))
           \/ (\E p \in posts : LateSave(p))
BY DEF OneTab, Next

LEMMA InitTurn == ASSUME NEW t \in Tab, Init PROVE TurnInv(t)
BY DEF Init, TurnInv, NotStarted, NoRestore, Runs, Running

LEMMA NextTurn ==
    ASSUME NEW t, OneTab(t), ApartInv, TurnInv(t), [Next]_vars PROVE TurnInv(t)'
<1>1. t \in Tab /\ ~Overlapping /\ TypeOK
  BY DEF OneTab, ApartInv
<1>2. CASE \/ UNCHANGED vars \/ Connect(t) \/ Disconnect(t) \/ \E e \in Event : Deliver(t, e)
  BY <1>1, <1>2, FrameFacts, FrameTurn
<1>3. CASE \/ \E u \in User : SwitchAccount(t, u) \/ SignInAgain(t, u)
           \/ Reload(t) \/ Unmount(t)
  BY <1>1, <1>3, AwayFacts, AwayTurn
<1>4. CASE Mount(t)
  BY <1>1, <1>4, MountTurn
<1>5. CASE Restore(t)
  BY <1>1, <1>5, RestoreTurn
<1>6. CASE RefreshRead(t) \/ RefreshApply(t)
  BY <1>1, <1>6, RefreshTurn
<1>7. CASE Clear(t)
  BY <1>1, <1>7, ClearTurn
<1>8. CASE ClearIndexed(t) \/ \E u \in User : DeleteCanvasHistory(u)
  BY <1>1, <1>8, DeleteTurn
<1>9. CASE \E g \in Generation : Generate(g, t)
  BY <1>1, <1>9, GenerateTurn
<1>10. CASE \E g \in Generation : GenerateStep(g)
  BY <1>1, <1>10, GenerateStepTurn
<1>11. CASE \E p \in posts : LateSave(p)
  BY <1>1, <1>11, LateSaveTurn
<1> QED BY <1>2, <1>3, <1>4, <1>5, <1>6, <1>7, <1>8, <1>9, <1>10, <1>11, OneTabSteps

-----------------------------------------------------------------------------
(* No image is lost.                                                        *)

\* No generation comes to its end.
SameDone ==
    \A g \in Generation :
        /\ gen'[g].pc = "done" <=> gen[g].pc = "done"
        /\ gen[g].pc = "done" => gen'[g].user = gen[g].user /\ gen'[g].got = gen[g].got

LEMMA KeptSame ==
    ASSUME SameDone, cleared' = cleared PROVE \A u : Kept(u)' = Kept(u)
BY DEF SameDone, Kept

LEMMA KeptLess ==
    ASSUME gen' = gen, cleared \subseteq cleared'
    PROVE  \A u : Kept(u)' \subseteq Kept(u) /\ Kept(u)' \cap cleared' = {}
BY DEF Kept

LEMMA FirstFault ==
    ASSUME TypeOK, MaxFaults <= 1, Faulty PROVE faults = 0 /\ faults' # 0
BY CanvasAssumption DEF TypeOK, Faulty

LEMMA SomeFault ==
    ASSUME TypeOK, Faulty PROVE faults' # 0
BY DEF TypeOK, Faulty

\* Steps without a generation that only add to the browser's stores.
LEMMA OthersKeep ==
    ASSUME NEW t, KeepInv(t), gen' = gen, cleared' = cleared, SameTab(t),
           \A u \in User : local[u] \subseteq local'[u] /\ idb[u] \subseteq idb'[u],
           faults' = 0 => faults = 0,
           \A g \in Generation : Runs(g) => /\ gen[g].user \in User
                                            /\ tab[t].view \subseteq tab'[t].view,
           KeptShown(t)'
    PROVE  KeepInv(t)'
<1>1. \A u : Kept(u)' = Kept(u)
  <2>1. SameDone
    BY DEF SameDone
  <2> QED BY <2>1, KeptSame
<1>2. KeptStored'
  BY <1>1 DEF KeepInv, KeptStored
<1>3. ASSUME NEW g \in Generation, Runs(g)' PROVE KeptBy(t, g)'
  <2>1. Runs(g) /\ gen'[g] = gen[g] /\ gen[g].user \in User
    BY <1>3 DEF Runs
  <2>2. KeptBy(t, g)
    BY <2>1 DEF KeepInv
  <2> QED BY <1>1, <2>1, <2>2 DEF KeptBy, SameTab
<1> QED BY <1>2, <1>3 DEF KeepInv

\* Nothing is replaced that the invariant speaks of.
LEMMA FrameKeep ==
    ASSUME NEW t, TurnInv(t), KeepInv(t), Shows(t, tab[t].view), restore' = restore, gen' = gen,
           local' = local, idb' = idb, SameClears, faults' = 0 => faults = 0
    PROVE  KeepInv(t)'
<1>1. \A u : Kept(u)' = Kept(u)
  <2>1. SameDone
    BY DEF SameDone
  <2> QED BY <2>1, KeptSame DEF SameClears
<1>2. KeptShown(t)'
  BY <1>1 DEF KeepInv, KeptShown, Shows, SameTab
<1>3. \A g \in Generation : Runs(g) => gen[g].user \in User
  BY DEF TurnInv, Runs, Running
<1> QED BY <1>2, <1>3, OthersKeep DEF Shows, SameClears

LEMMA LateSaveKeep ==
    ASSUME TypeOK, NEW t \in Tab, TurnInv(t), KeepInv(t), NEW p \in posts, LateSave(p)
    PROVE  KeepInv(t)'
<1>1. /\ Shows(t, tab[t].view) /\ restore' = restore /\ gen' = gen /\ SameClears
      /\ local' = local /\ idb' = idb /\ (faults' = 0 => faults = 0)
  BY LateSaveFacts, SomeFault
<1> QED BY <1>1, FrameKeep

LEMMA AwayKeep == ASSUME NEW t, TurnInv(t), KeepInv(t), Away(t) PROVE KeepInv(t)'
<1>1. SameDone
  BY DEF Away, SameDone, Runs, Running
<1>2. \A u : Kept(u)' = Kept(u)
  BY <1>1, KeptSame DEF Away
<1>3. KeptStored'
  BY <1>2 DEF Away, SameStores, KeepInv, KeptStored
<1>4. KeptShown(t)'
  BY <1>2 DEF Away, SameStores, KeepInv, KeptShown
<1>5. ASSUME NEW g \in Generation, Runs(g)' PROVE KeptBy(t, g)'
  <2>1. /\ Runs(g) /\ gen'[g].pc = gen[g].pc /\ gen'[g].user = gen[g].user
        /\ gen'[g].got = gen[g].got /\ gen'[g].base = gen[g].base
    BY <1>5 DEF Away, Runs, Running
  <2>2. KeptBy(t, g)
    BY <2>1 DEF KeepInv
  <2>3. ~tab'[t].mounted /\ local' = local /\ idb' = idb /\ faults' = faults
    BY DEF Away, SameStores
  <2> QED BY <1>2, <2>1, <2>2, <2>3 DEF KeptBy
<1> QED BY <1>3, <1>4, <1>5 DEF KeepInv

LEMMA MountKeep ==
    ASSUME TypeOK, ~Overlapping, NEW t \in Tab, TurnInv(t), KeepInv(t), Mount(t)
    PROVE  KeepInv(t)'
<1>1. /\ gen' = gen /\ cleared' = cleared /\ faults' = faults /\ SameStores /\ ~Replacing(t)
      /\ restore'[t].pc = "asked"
  BY MountFacts DEF SameClears
<1>2. \A g \in Generation : ~Runs(g)
  BY <1>1, NoneRuns
<1>3. \A u : Kept(u)' = Kept(u)
  <2>1. SameDone
    BY <1>1 DEF SameDone
  <2> QED BY <1>1, <2>1, KeptSame
<1>4. KeptStored'
  BY <1>1, <1>3 DEF KeepInv, KeptStored, SameStores
<1>5. KeptShown(t)'
  BY <1>1 DEF KeptShown
<1>6. \A g \in Generation : ~Runs(g)'
  BY <1>1, <1>2 DEF Runs
<1> QED BY <1>4, <1>5, <1>6 DEF KeepInv

LEMMA RestoreKeep ==
    ASSUME TypeOK, MaxFaults <= 1, NEW t \in Tab, TurnInv(t), KeepInv(t), Restore(t)
    PROVE  KeepInv(t)'
<1> DEFINE r == restore[t]
<1>1. /\ gen' = gen /\ cleared' = cleared /\ SameTab(t) /\ r.pc # "none"
      /\ faults' = faults \/ Faulty
  <2>1. CASE RestoreAnswer(t)
    BY <2>1, RestoreAnswerFacts DEF Shows, SameClears
  <2>2. CASE RestoreMerge(t)
    BY <2>2, RestoreMergeFacts DEF Shows, SameClears
  <2>3. CASE RestoreLocal(t)
    BY <2>3, RestoreLocalFacts DEF Shows, SameClears
  <2>4. CASE RestoreIndexed(t)
    BY <2>4, RestoreIndexedFacts DEF Shows, SameClears
  <2>5. CASE RestoreUpload(t)
    BY <2>5, RestoreUploadFacts DEF Shows, SameClears
  <2>6. CASE RestoreFallback(t)
    BY <2>6, RestoreFallbackFacts DEF Shows, SameClears
  <2> QED BY <2>1, <2>2, <2>3, <2>4, <2>5, <2>6 DEF Restore
<1>2. r.user \in User
  BY <1>1 DEF TypeOK, RestoreType
<1>3. /\ r.live = tab[t].mounted /\ (tab[t].mounted => tab[t].user = r.user)
      /\ \A g \in Generation : ~Runs(g)
  BY <1>1 DEF TurnInv
<1>4. \A u : Kept(u)' = Kept(u)
  <2>1. SameDone
    BY <1>1 DEF SameDone
  <2> QED BY <1>1, <2>1, KeptSame
<1>5. Kept(r.user) \subseteq local[r.user] /\ (faults = 0 => Kept(r.user) \subseteq idb[r.user])
  BY <1>2 DEF KeepInv, KeptStored
<1>6. /\ r.pc = "failed" => Kept(r.user) \subseteq idb[r.user]
      /\ r.pc \in {"indexed", "upload"} => Kept(r.user) = {}
  BY DEF KeepInv, KeptShown
<1>7. faults' = 0 => faults = 0
  BY <1>1, SomeFault
<1>8. /\ \A u \in User : local[u] \subseteq local'[u] /\ idb[u] \subseteq idb'[u]
      /\ KeptShown(t)'
  <2>1. CASE RestoreAnswer(t)
    <3>1. /\ SameStores
          /\ RestoreGoes(t, "answered") \/ (RestoreGoes(t, "failed") /\ faults = 0)
      BY <2>1, RestoreAnswerFacts, FirstFault
    <3> QED BY <1>4, <1>5, <3>1 DEF SameStores, RestoreGoes, KeptShown
  <2>2. CASE RestoreMerge(t)
    <3>1. /\ SameStores /\ restore'[t].pc = "none"
          /\ tab[t].mounted => tab'[t].view = r.remote \cup local[r.user] \cup idb[r.user]
      BY <1>3, <2>2, RestoreMergeFacts DEF Shows
    <3> QED BY <1>1, <1>3, <1>4, <1>5, <3>1 DEF SameStores, SameTab, KeptShown
  <2>3. CASE RestoreLocal(t)
    <3> DEFINE restored == local[r.user] \cup (IF r.user \in Admin THEN legacyLocal ELSE {})
    <3>1. /\ local[r.user] \subseteq restored /\ idb' = idb
          /\ \A u \in User : local[u] \subseteq local'[u]
      BY <2>3, RestoreLocalFacts
    <3>2. CASE restored # {}
      <4>1. restore'[t].pc = "none" /\ (tab[t].mounted => tab'[t].view = restored)
        BY <1>3, <2>3, <3>2, RestoreLocalFacts DEF Shows
      <4> QED BY <1>1, <1>3, <1>4, <1>5, <3>1, <4>1 DEF SameTab, KeptShown
    <3>3. CASE restored = {}
      <4>1. RestoreGoes(t, "indexed")
        BY <2>3, <3>3, RestoreLocalFacts
      <4>2. Kept(r.user) = {}
        BY <1>5, <3>1, <3>3
      <4> QED BY <1>4, <3>1, <4>1, <4>2 DEF RestoreGoes, KeptShown
    <3> QED BY <3>2, <3>3
  <2>4. CASE RestoreIndexed(t)
    <3>1. /\ local' = local /\ \A u \in User : idb[u] \subseteq idb'[u]
          /\ RestoreGoes(t, "upload") \/ restore'[t].pc = "none"
          /\ Kept(r.user) = {}
      BY <1>6, <2>4, RestoreIndexedFacts
    <3> QED BY <1>1, <1>3, <1>4, <3>1 DEF RestoreGoes, SameTab, KeptShown
  <2>5. CASE RestoreUpload(t)
    <3>1. local' = local /\ idb' = idb /\ restore'[t].pc = "none" /\ Kept(r.user) = {}
      BY <1>6, <2>5, RestoreUploadFacts
    <3> QED BY <1>1, <1>3, <1>4, <3>1 DEF SameTab, KeptShown
  <2>6. CASE RestoreFallback(t)
    <3>1. /\ SameStores /\ restore'[t].pc = "none" /\ Kept(r.user) \subseteq idb[r.user]
          /\ tab[t].mounted /\ idb[r.user] # {} => tab'[t].view = idb[r.user]
      BY <1>3, <1>6, <2>6, RestoreFallbackFacts DEF Shows
    <3> QED BY <1>1, <1>3, <1>4, <3>1 DEF SameStores, SameTab, KeptShown
  <2> QED BY <2>1, <2>2, <2>3, <2>4, <2>5, <2>6 DEF Restore
<1> QED BY <1>1, <1>3, <1>7, <1>8, OthersKeep

LEMMA GenerateKeep ==
    ASSUME TypeOK, ~Overlapping, NEW t \in Tab, TurnInv(t), KeepInv(t), NEW g \in Generation,
           Generate(g, t)
    PROVE  KeepInv(t)'
<1>1. /\ gen[g].pc = "idle" /\ tab[t].mounted /\ ~Replacing(t)
      /\ \A h \in Generation \ {g} : gen'[h] = gen[h]
      /\ gen'[g].pc = "key" /\ gen'[g].user = tab[t].user /\ gen'[g].got = FALSE
      /\ gen'[g].base = tab[t].view
      /\ Shows(t, tab[t].view) /\ restore' = restore
      /\ SameStores /\ cleared' = cleared /\ faults' = faults
  BY GenerateFacts DEF SameClears
<1>2. restore[t].pc = "none" /\ \A h \in Generation : ~Runs(h)
  BY <1>1, NoneRuns
<1>3. \A u : Kept(u)' = Kept(u)
  <2>1. SameDone
    BY <1>1 DEF SameDone
  <2> QED BY <1>1, <2>1, KeptSame
<1>4. KeptStored' /\ KeptShown(t)'
  BY <1>1, <1>3 DEF KeepInv, KeptStored, KeptShown, SameStores, Shows, SameTab
<1>5. \A h \in Generation : Runs(h)' => h = g
  BY <1>1, <1>2 DEF Runs
<1>6. KeptBy(t, g)'
  <2>1. Kept(tab[t].user) \subseteq tab[t].view
    BY <1>1, <1>2 DEF KeepInv, KeptShown
  <2> QED BY <1>1, <1>3, <2>1 DEF KeptBy
<1> QED BY <1>4, <1>5, <1>6 DEF KeepInv

\* A generation that moves on, and has not come to its end.
LEMMA MovesKeep ==
    ASSUME NEW t, TurnInv(t), KeepInv(t), NEW g \in Generation, Runs(g), NEW p \in Running,
           Moves(g, p), SameTab(t), SameRest,
           \A u \in User \ {gen[g].user} : local'[u] = local[u] /\ idb'[u] = idb[u],
           faults' = 0 => faults = 0,
           LET r == gen[g]
           IN  /\ local'[r.user] = local[r.user] \/ r.base \subseteq local'[r.user]
               /\ idb'[r.user] = idb[r.user] \/ r.base \subseteq idb'[r.user]
               /\ tab'[t].view = tab[t].view \/ r.base \subseteq tab'[t].view
               /\ p = "upstream" => ~gen'[g].got
               /\ gen'[g].got /\ tab[t].mounted /\ p # "response" => g \in tab'[t].view
               /\ p = "persist" /\ faults' = 0 => g \in local'[r.user]
               /\ p \in {"idb", "finally"} /\ gen'[g].got => g \in local'[r.user]
               /\ p = "finally" /\ gen'[g].got /\ faults' = 0 => g \in idb'[r.user],
           p # "key"
    PROVE  KeepInv(t)'
<1> DEFINE r == gen[g]
<1>1. "done" \notin Running /\ "idle" \notin Running
  BY DEF Running
<1>2. \A u : Kept(u)' = Kept(u)
  <2>1. SameDone
    BY <1>1 DEF SameDone, Moves, Runs
  <2> QED BY <2>1, KeptSame DEF SameRest, SameClears
<1>3. /\ r.user \in User /\ restore[t].pc = "none"
      /\ tab[t].mounted => tab[t].user = r.user
      /\ \A h \in Generation : Runs(h) => h = g
  BY <1>1 DEF TurnInv, Runs
<1>4. KeptBy(t, g)
  BY DEF KeepInv
<1>5. Kept(r.user) \subseteq r.base
  BY <1>4 DEF KeptBy
<1>6. KeptStored'
  <2>1. ASSUME NEW u \in User
        PROVE  Kept(u)' \subseteq local'[u] /\ (faults' = 0 => Kept(u)' \subseteq idb'[u])
    <3>1. Kept(u) \subseteq local[u] /\ (faults = 0 => Kept(u) \subseteq idb[u])
      BY DEF KeepInv, KeptStored
    <3>2. CASE u # r.user
      BY <1>2, <3>1, <3>2
    <3>3. CASE u = r.user
      BY <1>2, <1>5, <3>1, <3>3
    <3> QED BY <3>2, <3>3
  <2> QED BY <2>1 DEF KeptStored
<1>7. KeptShown(t)'
  <2>1. restore'[t].pc = "none"
    BY <1>3 DEF SameRest
  <2>2. tab[t].mounted => Kept(r.user) \subseteq tab'[t].view
    BY <1>3, <1>5 DEF KeepInv, KeptShown
  <2> QED BY <1>2, <1>3, <2>1, <2>2 DEF KeptShown, SameTab
<1>8. \A h \in Generation : Runs(h)' => h = g
  BY <1>3 DEF Moves, Runs
<1>9. KeptBy(t, g)'
  BY <1>2, <1>5 DEF KeptBy, Moves, SameTab
<1> QED BY <1>6, <1>7, <1>8, <1>9 DEF KeepInv

LEMMA FinallyKeep ==
    ASSUME TypeOK, NEW t \in Tab, TurnInv(t), KeepInv(t), NEW g \in Generation, Finally(g)
    PROVE  KeepInv(t)'
<1> DEFINE r == gen[g]
<1>1. /\ r.pc = "finally" /\ Moves(g, "done") /\ gen'[g].got = r.got
      /\ Shows(t, tab[t].view) /\ SameRest /\ SameStores /\ faults' = faults
  BY FinallyFacts
<1>2. Runs(g) /\ "done" \notin Running
  BY <1>1 DEF Runs, Running
<1>3. /\ r.user \in User /\ restore[t].pc = "none"
      /\ tab[t].mounted => tab[t].user = r.user
      /\ \A h \in Generation : Runs(h) => h = g
  BY <1>1, <1>2 DEF TurnInv
<1>4. KeptBy(t, g)
  BY <1>2 DEF KeepInv
<1>5. /\ r.got /\ tab[t].mounted => g \in tab[t].view
      /\ r.got => g \in local[r.user]
      /\ r.got /\ faults = 0 => g \in idb[r.user]
  BY <1>1, <1>4 DEF KeptBy
<1>6. \A u : Kept(u)' \subseteq Kept(u) \cup (IF r.got /\ u = r.user THEN {g} ELSE {})
  BY <1>1 DEF Kept, Moves, SameRest, SameClears
<1>7. KeptStored'
  BY <1>1, <1>5, <1>6 DEF KeepInv, KeptStored, SameStores
<1>8. KeptShown(t)'
  <2>1. tab[t].mounted => Kept(tab[t].user) \subseteq tab[t].view
    BY <1>1, <1>3 DEF KeepInv, KeptShown
  <2>2. restore'[t].pc = "none"
    BY <1>1, <1>3 DEF SameRest
  <2> QED BY <1>1, <1>5, <1>6, <2>1, <2>2 DEF KeptShown, Shows, SameTab
<1>9. \A h \in Generation : ~Runs(h)'
  BY <1>1, <1>2, <1>3 DEF Moves, Runs
<1> QED BY <1>7, <1>8, <1>9 DEF KeepInv

LEMMA GenerateStepKeep ==
    ASSUME TypeOK, MaxFaults <= 1, NEW t \in Tab, TurnInv(t), KeepInv(t), NEW g \in Generation,
           GenerateStep(g)
    PROVE  KeepInv(t)'
<1> DEFINE r == gen[g]
<1>1. Runs(g)
  BY GenerateStepTurn
<1>2. r.tab = t /\ r.user \in User /\ r.live = tab[t].mounted
  BY <1>1 DEF TurnInv, Runs, Running
<1>3. KeptBy(t, g)
  BY <1>1 DEF KeepInv
<1>4. g \in NewList(g) /\ r.base \subseteq NewList(g)
  BY DEF NewList
<1>5. CASE FetchKey(g) \/ Upstream(g)
  <2>1. /\ Shows(t, tab[t].view) /\ SameRest /\ SameStores /\ faults' = faults
        /\ r.pc \in {"key", "upstream"} /\ ~r.got
    BY <1>3, <1>5, AskFacts DEF KeptBy
  <2>2. \/ Moves(g, "upstream") /\ gen'[g].got = r.got
        \/ Moves(g, "response")
        \/ Moves(g, "finally") /\ gen'[g].got = r.got
    BY <1>5, AskFacts
  <2>3. CASE Moves(g, "upstream") /\ gen'[g].got = r.got
    BY <1>1, <2>1, <2>3, MovesKeep, Pcs DEF Shows, SameStores
  <2>4. CASE Moves(g, "response")
    BY <1>1, <2>1, <2>4, MovesKeep, Pcs DEF Shows, SameStores
  <2>5. CASE Moves(g, "finally") /\ gen'[g].got = r.got
    BY <1>1, <2>1, <2>5, MovesKeep, Pcs DEF Shows, SameStores
  <2> QED BY <2>2, <2>3, <2>4, <2>5
<1>6. CASE ShowImage(g)
  <2>1. /\ r.pc = "response" /\ Moves(g, "save") /\ SameTab(t)
        /\ SameRest /\ SameStores /\ faults' = faults
        /\ tab'[t].view = IF tab[t].mounted THEN NewList(g) ELSE tab[t].view
    BY <1>2, <1>6, ShowImageFacts DEF Shows
  <2> QED BY <1>1, <1>4, <2>1, MovesKeep, Pcs DEF SameStores
<1>7. CASE SaveToServer(g)
  <2>1. /\ r.pc = "save" /\ gen'[g].got = r.got /\ (Moves(g, "fetch") \/ Moves(g, "publish"))
        /\ Shows(t, tab[t].view) /\ SameRest /\ local' = local /\ idb' = idb
        /\ faults' = 0 => faults = 0
    BY <1>7, SaveToServerFacts, SomeFault
  <2>2. r.got /\ tab[t].mounted => g \in tab[t].view
    BY <1>3, <2>1 DEF KeptBy
  <2>3. CASE Moves(g, "fetch")
    BY <1>1, <2>1, <2>2, <2>3, MovesKeep, Pcs DEF Shows
  <2>4. CASE Moves(g, "publish")
    BY <1>1, <2>1, <2>2, <2>4, MovesKeep, Pcs DEF Shows
  <2> QED BY <2>1, <2>3, <2>4
<1>8. CASE FetchBack(g)
  <2>1. /\ r.pc = "fetch" /\ gen'[g].got = r.got /\ (Moves(g, "merge") \/ Moves(g, "publish"))
        /\ Shows(t, tab[t].view) /\ SameRest /\ SameStores
        /\ faults' = 0 => faults = 0
    BY <1>8, FetchBackFacts, SomeFault
  <2>2. r.got /\ tab[t].mounted => g \in tab[t].view
    BY <1>3, <2>1 DEF KeptBy
  <2>3. CASE Moves(g, "merge")
    BY <1>1, <2>1, <2>2, <2>3, MovesKeep, Pcs DEF Shows, SameStores
  <2>4. CASE Moves(g, "publish")
    BY <1>1, <2>1, <2>2, <2>4, MovesKeep, Pcs DEF Shows, SameStores
  <2> QED BY <2>1, <2>3, <2>4
<1>9. CASE MergeBack(g)
  <2>1. /\ r.pc = "merge" /\ Moves(g, "publish") /\ SameTab(t) /\ gen'[g].got = r.got
        /\ SameRest /\ SameStores /\ faults' = faults
        /\ tab'[t].view = IF tab[t].mounted THEN r.remote \cup NewList(g) ELSE tab[t].view
    BY <1>2, <1>9, MergeBackFacts DEF Shows
  <2> QED BY <1>1, <1>4, <2>1, MovesKeep, Pcs DEF SameStores
<1>10. CASE StoreLocal(g)
  <2>1. /\ \/ r.pc = "publish" /\ Moves(g, "persist")
           \/ r.pc = "persist" /\ Moves(g, "idb")
        /\ gen'[g].got = r.got /\ Shows(t, tab[t].view) /\ SameRest /\ idb' = idb
        /\ \/ Written(local, local', r.user, NewList(g)) /\ faults' = faults
           \/ local' = local /\ faults = 0 /\ faults' # 0
    BY <1>2, <1>10, StoreLocalFacts, FirstFault
  <2>2. r.got /\ tab[t].mounted => g \in tab[t].view
    BY <1>3, <2>1 DEF KeptBy
  <2>3. /\ \A u \in User \ {r.user} : local'[u] = local[u]
        /\ local'[r.user] = local[r.user] \/ r.base \subseteq local'[r.user]
        /\ faults' = 0 => faults = 0 /\ g \in local'[r.user]
    BY <1>4, <2>1 DEF Written
  <2>4. CASE r.pc = "publish" /\ Moves(g, "persist")
    BY <1>1, <2>1, <2>2, <2>3, <2>4, MovesKeep, Pcs DEF Shows
  <2>5. CASE r.pc = "persist" /\ Moves(g, "idb")
    <3>1. g \in local'[r.user]
      BY <1>3, <1>4, <2>1, <2>5 DEF KeptBy, Written
    <3> QED BY <1>1, <2>1, <2>2, <2>3, <2>5, <3>1, MovesKeep, Pcs DEF Shows
  <2> QED BY <2>1, <2>4, <2>5
<1>11. CASE StoreIndexed(g)
  <2>1. /\ r.pc = "idb" /\ Moves(g, "finally")
        /\ gen'[g].got = r.got /\ Shows(t, tab[t].view) /\ SameRest /\ local' = local
        /\ \/ Written(idb, idb', r.user, NewList(g)) /\ faults' = faults
           \/ idb' = idb /\ faults' # 0
    BY <1>2, <1>11, StoreIndexedFacts, SomeFault
  <2>2. /\ r.got /\ tab[t].mounted => g \in tab[t].view
        /\ r.got => g \in local[r.user]
    BY <1>3, <2>1 DEF KeptBy
  <2>3. /\ \A u \in User \ {r.user} : idb'[u] = idb[u]
        /\ idb'[r.user] = idb[r.user] \/ r.base \subseteq idb'[r.user]
        /\ faults' = 0 => faults = 0 /\ g \in idb'[r.user]
    BY <1>4, <2>1 DEF Written
  <2> QED BY <1>1, <2>1, <2>2, <2>3, MovesKeep, Pcs DEF Shows
<1>12. CASE Finally(g)
  BY <1>12, FinallyKeep
<1> QED BY <1>5, <1>6, <1>7, <1>8, <1>9, <1>10, <1>11, <1>12 DEF GenerateStep

LEMMA RefreshKeep ==
    ASSUME TypeOK, ~Overlapping, NEW t \in Tab, TurnInv(t), KeepInv(t),
           RefreshRead(t) \/ RefreshApply(t)
    PROVE  KeepInv(t)'
<1>1. CASE RefreshRead(t)
  <2>1. /\ Shows(t, tab[t].view) /\ restore' = restore /\ gen' = gen /\ SameStores /\ SameClears
        /\ faults' = 0 => faults = 0
    BY <1>1, RefreshReadFacts, SomeFault
  <2> QED BY <2>1, FrameKeep DEF SameStores
<1>2. CASE RefreshApply(t)
  <2>1. /\ SameTab(t) /\ tab[t].view \subseteq tab'[t].view /\ restore' = restore /\ gen' = gen
        /\ SameStores /\ SameClears /\ faults' = faults
    BY <1>2, RefreshApplyFacts DEF Shows
  <2>2. \A u : Kept(u)' = Kept(u)
    <3>1. SameDone
      BY <2>1 DEF SameDone
    <3> QED BY <2>1, <3>1, KeptSame DEF SameClears
  <2>3. KeptShown(t)'
    BY <2>1, <2>2 DEF KeepInv, KeptShown, SameTab, SameStores
  <2>4. \A g \in Generation : Runs(g) => gen[g].user \in User
    BY DEF TurnInv, Runs, Running
  <2> QED BY <2>1, <2>3, <2>4, OthersKeep DEF SameStores, SameClears
<1> QED BY <1>1, <1>2

\* What is cleared need not be kept.
LEMMA ClearKeep ==
    ASSUME TypeOK, ~Overlapping, NEW t \in Tab, TurnInv(t), KeepInv(t), Clear(t)
    PROVE  KeepInv(t)'
<1>0. PICK u \in User : u = tab[t].user
  BY DEF TypeOK, TabType
<1>1. /\ ~Replacing(t) /\ Shows(t, {}) /\ Written(local, local', u, {})
      /\ cleared' = cleared \cup tab[t].view \cup local[u]
      /\ restore' = restore /\ gen' = gen /\ idb' = idb /\ faults' = faults
  BY <1>0, ClearFacts
<1>2. restore[t].pc = "none" /\ \A g \in Generation : ~Runs(g)
  BY <1>1, NoneRuns
<1>3. \A v : Kept(v)' \subseteq Kept(v) /\ Kept(v)' \cap cleared' = {}
  BY <1>1, KeptLess
<1>4. Kept(u)' = {}
  BY <1>1, <1>3 DEF KeepInv, KeptStored
<1>5. KeptStored'
  BY <1>1, <1>3, <1>4 DEF KeepInv, KeptStored, Written
<1>6. KeptShown(t)'
  BY <1>0, <1>1, <1>2, <1>4 DEF KeptShown, Shows, SameTab
<1>7. \A g \in Generation : ~Runs(g)'
  BY <1>1, <1>2 DEF Runs
<1> QED BY <1>5, <1>6, <1>7 DEF KeepInv

LEMMA DeleteKeep ==
    ASSUME TypeOK, NEW t \in Tab, TurnInv(t), KeepInv(t),
           ClearIndexed(t) \/ \E u \in User : DeleteCanvasHistory(u)
    PROVE  KeepInv(t)'
<1>1. /\ DeleteFrame(t) /\ Clearing(t) /\ cleared \subseteq cleared'
      /\ faults' = 0 => faults = 0
      /\ \A u \in User : idb'[u] = idb[u] \/ idb[u] \subseteq cleared'
  <2>1. CASE ClearIndexed(t)
    BY <2>1, ClearIndexedFacts, SomeFault DEF Clearing, Written
  <2>2. ASSUME NEW u \in User, DeleteCanvasHistory(u)
        PROVE  /\ DeleteFrame(t) /\ Clearing(t) /\ cleared \subseteq cleared'
               /\ faults' = 0 => faults = 0
               /\ idb' = idb
    BY <2>2, DeleteFacts, SomeFault DEF Clearing
  <2> QED BY <2>1, <2>2
<1>2. restore[t].pc = "none" /\ \A g \in Generation : ~Runs(g)
  BY <1>1 DEF TurnInv
<1>3. \A v : Kept(v)' \subseteq Kept(v) /\ Kept(v)' \cap cleared' = {}
  BY <1>1, KeptLess DEF DeleteFrame
<1>4. KeptStored'
  <2>1. ASSUME NEW u \in User
        PROVE  Kept(u)' \subseteq local'[u] /\ (faults' = 0 => Kept(u)' \subseteq idb'[u])
    <3>1. Kept(u) \subseteq local[u] /\ (faults = 0 => Kept(u) \subseteq idb[u])
      BY DEF KeepInv, KeptStored
    <3> QED BY <1>1, <1>3, <3>1 DEF DeleteFrame
  <2> QED BY <2>1 DEF KeptStored
<1>5. KeptShown(t)'
  BY <1>1, <1>2, <1>3 DEF DeleteFrame, KeepInv, KeptShown, Shows, SameTab
<1>6. \A g \in Generation : ~Runs(g)'
  BY <1>1, <1>2 DEF DeleteFrame, Runs
<1> QED BY <1>4, <1>5, <1>6 DEF KeepInv

LEMMA InitKeep == ASSUME NEW t \in Tab, Init PROVE KeepInv(t)
<1>1. \A g \in Generation : gen[g].pc = "idle"
  BY DEF Init, NotStarted
<1>2. \A u : Kept(u) = {}
  BY <1>1 DEF Kept
<1>3. restore[t].pc = "none" /\ \A g \in Generation : ~Runs(g)
  BY <1>1 DEF Init, NoRestore, Runs, Running
<1> QED BY <1>2, <1>3 DEF KeepInv, KeptStored, KeptShown

LEMMA NextKeep ==
    ASSUME NEW t, OneTab(t), MaxFaults <= 1, ApartInv, TurnInv(t), KeepInv(t), [Next]_vars
    PROVE  KeepInv(t)'
<1>1. t \in Tab /\ ~Overlapping /\ TypeOK
  BY DEF OneTab, ApartInv
<1>2. CASE \/ UNCHANGED vars \/ Connect(t) \/ Disconnect(t) \/ \E e \in Event : Deliver(t, e)
  BY <1>1, <1>2, FrameFacts, FrameKeep DEF Frame, SameStores
<1>3. CASE \/ \E u \in User : SwitchAccount(t, u) \/ SignInAgain(t, u)
           \/ Reload(t) \/ Unmount(t)
  BY <1>1, <1>3, AwayFacts, AwayKeep
<1>4. CASE Mount(t)
  BY <1>1, <1>4, MountKeep
<1>5. CASE Restore(t)
  BY <1>1, <1>5, RestoreKeep
<1>6. CASE RefreshRead(t) \/ RefreshApply(t)
  BY <1>1, <1>6, RefreshKeep
<1>7. CASE Clear(t)
  BY <1>1, <1>7, ClearKeep
<1>8. CASE ClearIndexed(t) \/ \E u \in User : DeleteCanvasHistory(u)
  BY <1>1, <1>8, DeleteKeep
<1>9. CASE \E g \in Generation : Generate(g, t)
  BY <1>1, <1>9, GenerateKeep
<1>10. CASE \E g \in Generation : GenerateStep(g)
  BY <1>1, <1>10, GenerateStepKeep
<1>11. CASE \E p \in posts : LateSave(p)
  BY <1>1, <1>11, LateSaveKeep
<1> QED BY <1>2, <1>3, <1>4, <1>5, <1>6, <1>7, <1>8, <1>9, <1>10, <1>11, OneTabSteps

\* With one tab, whose user waits for the handlers that replace the list, and at
\* most one request or write that fails, every image whose generation came to
\* its end, and which was not cleared, is in one of the three stores.
THEOREM CanvasNothingLost ==
    ASSUME NEW t, OneTab(t), MaxFaults <= 1 PROVE Spec => []NothingLost
<1>1. t \in Tab
  BY DEF OneTab
<1>2. Init => ApartInv /\ TurnInv(t) /\ KeepInv(t)
  BY <1>1, InitApart, InitTurn, InitKeep
<1>3. ApartInv /\ TurnInv(t) /\ KeepInv(t) /\ [Next]_vars
        => (ApartInv /\ TurnInv(t) /\ KeepInv(t))'
  BY NextApart, NextTurn, NextKeep
<1>4. TurnInv(t) /\ KeepInv(t) => NothingLost
  BY DEF TurnInv, KeepInv, KeptStored, Kept, NothingLost
<1> QED BY <1>2, <1>3, <1>4, PTL DEF Spec

-----------------------------------------------------------------------------
(* The view follows the server.                                             *)

\* All is of one account, as long as no other one came in.
LEMMA AllOwn ==
    ASSUME ApartInv, ~mixed, NEW t \in Tab
    PROVE  /\ session \in User /\ tab[t].user = session
           /\ restore[t].pc # "none" => restore[t].user = session
           /\ restore[t].pc = "upload" => restore[t].to = session
           /\ \A g \in Generation : Runs(g) => /\ gen[g].user = session
                                               /\ gen[g].pc = "save" => gen[g].to = session
           /\ \A p \in posts : p.user \in User
BY DEF ApartInv, TypeOK, TabOwn, GenOwn, Runs

LEMMA FrameMirror ==
    ASSUME NEW t, Mirrors(t), Frame(t) PROVE Mirrors(t)'
<1>1. /\ tab'[t].mounted = tab[t].mounted /\ tab'[t].view = tab[t].view
      /\ restore' = restore /\ refresh' = refresh /\ gen' = gen /\ session' = session
      /\ server' = server /\ local' = local /\ idb' = idb /\ legacyLocal' = legacyLocal
      /\ idbDeletes' = idbDeletes /\ deletes' = deletes
  BY DEF Frame, Shows, SameTab, SameAccount, SameStores, SameClears
<1>2. Clearing(t)' <=> Clearing(t)
  BY <1>1 DEF Clearing
<1>3. Saving' = Saving /\ \A g \in Generation : (Runs(g)' <=> Runs(g)) /\ NewList(g)' = NewList(g)
  BY <1>1 DEF Saving, Runs, NewList
<1>4. StoresMirror' /\ OldEntry(t)'
  BY <1>1, <1>3 DEF Mirrors, StoresMirror, OldEntry
<1>5. RestoreMirrors(t)' /\ RefreshMirrors(t)'
  BY <1>1 DEF Mirrors, RestoreMirrors, RefreshMirrors
<1>6. CanvasMirrors(t)'
  BY <1>1, <1>2, <1>3 DEF Mirrors, CanvasMirrors, ClearedMirrors, ShownMirrors
<1>7. \A g \in Generation : Runs(g)' => GenMirrors(t, g)'
  BY <1>1, <1>3 DEF Mirrors, GenMirrors
<1> QED BY <1>4, <1>5, <1>6, <1>7 DEF Mirrors

LEMMA AwayMirror ==
    ASSUME NEW t, Mirrors(t), Away(t),
           \/ session' = session
           \/ restore'[t].pc = "none" /\ \A g \in Generation : ~Runs(g)'
    PROVE  Mirrors(t)'
<1>1. /\ ~tab'[t].mounted /\ refresh'[t] = {}
      /\ server' = server /\ local' = local /\ idb' = idb /\ legacyLocal' = legacyLocal
      /\ deletes' = deletes
  BY DEF Away, SameStores
<1>2. restore'[t].pc # "none" =>
         /\ restore'[t].pc = restore[t].pc /\ restore'[t].remote = restore[t].remote
  BY DEF Away
<1>3. \A g \in Generation : Runs(g)' =>
        /\ Runs(g) /\ gen'[g].pc = gen[g].pc
        /\ gen'[g].base = gen[g].base /\ gen'[g].remote = gen[g].remote
  BY DEF Away, Runs, Running
<1>4. StoresMirror' /\ RefreshMirrors(t)' /\ CanvasMirrors(t)'
  BY <1>1 DEF Mirrors, StoresMirror, RefreshMirrors, CanvasMirrors
<1>5. OldEntry(t)'
  BY <1>1, <1>2, <1>3 DEF Mirrors, OldEntry
<1>6. RestoreMirrors(t)'
  BY <1>1, <1>2 DEF Mirrors, RestoreMirrors
<1>7. ASSUME NEW g \in Generation, Runs(g)' PROVE GenMirrors(t, g)'
  <2>1. GenMirrors(t, g) /\ session' = session
    BY <1>3, <1>7 DEF Mirrors
  <2>2. NewList(g)' = NewList(g)
    BY <1>3, <1>7 DEF NewList
  <2> QED BY <1>1, <1>3, <1>7, <2>1, <2>2 DEF GenMirrors
<1> QED BY <1>4, <1>5, <1>6, <1>7 DEF Mirrors

LEMMA MountMirror ==
    ASSUME TypeOK, ~Overlapping, NEW t \in Tab, TurnInv(t), Mirrors(t), Mount(t)
    PROVE  Mirrors(t)'
<1>1. /\ ~tab[t].mounted /\ ~Replacing(t) /\ tab'[t].view = {} /\ restore'[t].pc = "asked"
      /\ refresh' = refresh /\ gen' = gen /\ session' = session
      /\ server' = server /\ local' = local /\ idb' = idb /\ legacyLocal' = legacyLocal
      /\ deletes' = deletes
  BY MountFacts DEF SameAccount, SameStores, SameClears
<1>2. \A g \in Generation : ~Runs(g)'
  BY <1>1, NoneRuns DEF Runs
<1>3. StoresMirror' /\ OldEntry(t)'
  BY <1>1, <1>2 DEF Mirrors, StoresMirror, OldEntry
<1>4. RestoreMirrors(t)' /\ CanvasMirrors(t)' /\ RefreshMirrors(t)'
  BY <1>1 DEF Mirrors, RestoreMirrors, CanvasMirrors, RefreshMirrors
<1> QED BY <1>2, <1>3, <1>4 DEF Mirrors

\* A step of a restore: no generation runs, nothing is being cleared.
LEMMA RestoreMirrorStep ==
    ASSUME NEW t, TurnInv(t), Mirrors(t), restore[t].pc # "none", gen' = gen, refresh' = refresh,
           session' = session, SameClears,
           StoresMirror', OldEntry(t)', RestoreMirrors(t)', server[session] \subseteq server'[session],
           tab'[t].mounted /\ restore'[t].pc = "none" =>
             /\ idb'[session] \subseteq server'[session] \cup Legacy
             /\ server'[session] \subseteq tab'[t].view
             /\ tab'[t].view \subseteq server'[session] \cup Legacy
    PROVE  Mirrors(t)'
<1>1. ~Clearing(t) /\ \A g \in Generation : ~Runs(g)
  BY DEF TurnInv
<1>2. ~Clearing(t)'
  BY <1>1 DEF Clearing, SameClears
<1>3. \A g \in Generation : ~Runs(g)'
  BY <1>1 DEF Runs
<1>4. CanvasMirrors(t)'
  BY <1>2 DEF CanvasMirrors, ShownMirrors
<1>5. RefreshMirrors(t)'
  BY DEF Mirrors, RefreshMirrors
<1> QED BY <1>3, <1>4, <1>5 DEF Mirrors

LEMMA RestoreMirror ==
    ASSUME ApartInv, ~mixed, faults' = 0, NEW t \in Tab, TurnInv(t), Mirrors(t), Restore(t)
    PROVE  Mirrors(t)'
<1> DEFINE r == restore[t]
           S == server[session]
           L == local[session]
           I == idb[session]
<1>0. TypeOK /\ ~Faulty
  <2>1. TypeOK
    BY DEF ApartInv
  <2> QED BY <2>1, SomeFault
<1>1. /\ session \in User /\ tab[t].user = session /\ (r.pc # "none" => r.user = session)
      /\ r.pc = "upload" => r.to = session
  BY AllOwn
<1>2. r.pc # "none" => /\ ~Clearing(t) /\ r.live = tab[t].mounted
                       /\ \A g \in Generation : ~Runs(g)
  BY DEF TurnInv
<1>3. /\ L \subseteq S \cup Legacy /\ (I \subseteq S \cup Legacy \/ (S = {} /\ L = {}))
      /\ session \in deletes => L = {}
  BY <1>1 DEF Mirrors, StoresMirror
<1>4. /\ r.pc # "failed" /\ (r.pc = "answered" => r.remote = S)
      /\ r.pc \in {"indexed", "upload"} => S = {} /\ L = {}
      /\ r.pc = "upload" => I = r.remote /\ (tab[t].mounted => tab[t].view = r.remote)
      /\ tab[t].mounted /\ r.pc # "none" => tab[t].view \subseteq S \cup L \cup I
  BY DEF Mirrors, RestoreMirrors
<1>5. legacyLocal # {} => S = {} /\ L = {} /\ I = {} /\ r.pc \in {"none", "asked", "answered"}
  BY <1>1 DEF Mirrors, OldEntry
<1>6. CASE RestoreAnswer(t)
  <2>1. /\ r.pc = "asked" /\ Shows(t, tab[t].view) /\ RestoreGoes(t, "answered")
        /\ restore'[t].remote = S /\ refresh' = refresh /\ gen' = gen /\ SameAccount
        /\ SameStores /\ SameClears
    BY <1>0, <1>6, RestoreAnswerFacts
  <2>2. StoresMirror'
    BY <2>1 DEF SameStores, SameClears, Mirrors, StoresMirror
  <2>3. OldEntry(t)'
    BY <2>1 DEF SameStores, RestoreGoes, Runs, Mirrors, OldEntry
  <2>4. RestoreMirrors(t)'
    BY <1>4, <2>1 DEF SameStores, RestoreGoes, SameAccount, Shows, SameTab, RestoreMirrors
  <2> QED BY <2>1, <2>2, <2>3, <2>4, RestoreMirrorStep DEF SameAccount, SameStores, RestoreGoes
<1>7. CASE RestoreMerge(t)
  <2>1. /\ r.pc = "answered" /\ r.remote # {} /\ restore'[t].pc = "none"
        /\ SameTab(t) /\ (tab[t].mounted => tab'[t].view = S \cup L \cup I)
        /\ refresh' = refresh /\ gen' = gen /\ SameAccount /\ SameStores /\ SameClears
    BY <1>0, <1>1, <1>2, <1>4, <1>7, RestoreMergeFacts DEF Shows
  <2>2. S # {}
    BY <1>4, <2>1
  <2>3. StoresMirror'
    BY <2>1 DEF SameStores, SameClears, Mirrors, StoresMirror
  <2>4. OldEntry(t)'
    BY <1>5, <2>1, <2>2 DEF SameStores, OldEntry
  <2>5. RestoreMirrors(t)'
    BY <2>1 DEF RestoreMirrors
  <2> QED BY <1>3, <2>1, <2>2, <2>3, <2>4, <2>5, RestoreMirrorStep
          DEF SameAccount, SameStores, SameTab
<1>8. CASE RestoreLocal(t)
  <2> DEFINE mine == IF session \in Admin THEN legacyLocal ELSE {}
             restored == L \cup mine
  <2>1. r.pc = "answered" /\ S = {} /\ r.user = session
    BY <1>0, <1>1, <1>4, <1>8, RestoreLocalFacts
  <2>2. /\ local'[session] = restored /\ legacyLocal' = {}
        /\ \A v \in User \ {session} : local'[v] = local[v]
        /\ restored # {} => /\ Shows(t, IF r.live THEN restored ELSE tab[t].view)
                            /\ restore'[t].pc = "none"
        /\ restored = {} => Shows(t, tab[t].view) /\ RestoreGoes(t, "indexed")
        /\ refresh' = refresh /\ gen' = gen /\ SameAccount /\ SameClears
        /\ server' = server /\ idb' = idb
    BY <1>0, <1>8, <2>1, RestoreLocalFacts
  <2>3. mine \subseteq Legacy /\ (mine # {} => I = {} /\ L = {})
    BY <1>0, <1>5 DEF TypeOK
  <2> HIDE DEF mine
  <2>4. deletes = {}
    BY <1>2, <2>1 DEF Clearing
  <2>5. /\ restored \subseteq S \cup Legacy
        /\ I \subseteq S \cup Legacy \/ (S = {} /\ restored = {})
    BY <1>3, <2>3
  <2>6. StoresMirror'
    BY <2>2, <2>4, <2>5 DEF SameClears, Mirrors, StoresMirror
  <2>7. OldEntry(t)'
    BY <2>2 DEF OldEntry
  <2>8. CASE restored # {}
    <3>1. /\ restore'[t].pc = "none" /\ SameTab(t)
          /\ tab[t].mounted => tab'[t].view = restored
      BY <1>2, <2>1, <2>2, <2>8 DEF Shows
    <3>2. RestoreMirrors(t)'
      BY <3>1 DEF RestoreMirrors
    <3> QED BY <2>1, <2>2, <2>5, <2>6, <2>7, <2>8, <3>1, <3>2, RestoreMirrorStep
            DEF SameAccount, SameTab
  <2>9. CASE restored = {}
    <3>1. /\ RestoreGoes(t, "indexed") /\ Shows(t, tab[t].view)
          /\ local'[session] = {} /\ L = {}
      BY <2>2, <2>9
    <3>2. RestoreMirrors(t)'
      BY <1>4, <2>1, <2>2, <3>1 DEF RestoreGoes, Shows, SameTab, SameAccount, RestoreMirrors
    <3> QED BY <2>1, <2>2, <2>6, <2>7, <3>1, <3>2, RestoreMirrorStep
            DEF SameAccount, RestoreGoes
  <2> QED BY <2>8, <2>9
<1>9. CASE RestoreIndexed(t)
  <2> DEFINE indexed == I \cup (IF session \in Admin THEN legacyIdb ELSE {})
  <2>1. r.pc = "indexed" /\ S = {} /\ L = {} /\ r.user = session /\ r.live = tab[t].mounted
    BY <1>0, <1>1, <1>2, <1>4, <1>9, RestoreIndexedFacts
  <2>2. /\ idb'[session] = indexed /\ \A v \in User \ {session} : idb'[v] = idb[v]
        /\ r.live /\ indexed # {} =>
             Shows(t, indexed) /\ RestoreGoes(t, "upload") /\ restore'[t].remote = indexed
        /\ ~(r.live /\ indexed # {}) => Shows(t, tab[t].view) /\ restore'[t].pc = "none"
        /\ refresh' = refresh /\ gen' = gen /\ SameAccount /\ SameClears
        /\ server' = server /\ local' = local /\ legacyLocal' = legacyLocal
    BY <1>0, <1>9, <2>1, RestoreIndexedFacts
  <2>3. I \subseteq indexed
    OBVIOUS
  <2> HIDE DEF indexed
  <2>4. StoresMirror'
    BY <2>1, <2>2 DEF SameClears, Mirrors, StoresMirror
  <2>5. OldEntry(t)'
    BY <1>5, <2>1, <2>2 DEF OldEntry
  <2>6. CASE r.live /\ indexed # {}
    <3>1. RestoreMirrors(t)'
      BY <2>1, <2>2, <2>6 DEF RestoreGoes, Shows, SameTab, SameAccount, RestoreMirrors
    <3>2. restore'[t].pc # "none"
      BY <2>2, <2>6 DEF RestoreGoes
    <3> QED BY <2>1, <2>2, <2>4, <2>5, <3>1, <3>2, RestoreMirrorStep DEF SameAccount
  <2>7. CASE ~(r.live /\ indexed # {})
    <3>1. /\ restore'[t].pc = "none" /\ SameTab(t) /\ tab'[t].view = tab[t].view
          /\ tab[t].mounted => indexed = {}
      BY <2>1, <2>2, <2>7 DEF Shows
    <3>2. RestoreMirrors(t)'
      BY <3>1 DEF RestoreMirrors
    <3>3. tab[t].mounted => tab[t].view = {}
      BY <1>4, <2>1, <2>3, <3>1
    <3> QED BY <2>1, <2>2, <2>4, <2>5, <3>1, <3>2, <3>3, RestoreMirrorStep
            DEF SameAccount, SameTab
  <2> QED BY <2>6, <2>7
<1>10. CASE RestoreUpload(t)
  <2>1. /\ r.pc = "upload" /\ S = {} /\ L = {} /\ I = r.remote
        /\ tab[t].mounted => tab[t].view = r.remote
    BY <1>0, <1>4, <1>10, RestoreUploadFacts
  <2>2. /\ Shows(t, tab[t].view) /\ restore'[t].pc = "none"
        /\ Saved(r.to, r.remote)
        /\ refresh' = refresh /\ gen' = gen /\ SameAccount /\ SameClears
        /\ local' = local /\ idb' = idb /\ legacyLocal' = legacyLocal
    BY <1>0, <1>10, RestoreUploadFacts
  <2>3. server'[session] = I /\ \A v \in User \ {session} : server'[v] = server[v]
    BY <1>1, <2>1, <2>2 DEF Saved
  <2>4. StoresMirror'
    BY <2>1, <2>2, <2>3 DEF SameClears, Mirrors, StoresMirror
  <2>5. OldEntry(t)'
    BY <1>5, <2>1, <2>2 DEF OldEntry
  <2>6. RestoreMirrors(t)'
    BY <2>2 DEF RestoreMirrors
  <2> QED BY <2>1, <2>2, <2>3, <2>4, <2>5, <2>6, RestoreMirrorStep DEF SameAccount, Shows, SameTab
<1>11. CASE RestoreFallback(t)
  BY <1>0, <1>4, <1>11, RestoreFallbackFacts
<1> QED BY <1>6, <1>7, <1>8, <1>9, <1>10, <1>11 DEF Restore

LEMMA GenerateMirror ==
    ASSUME ApartInv, ~mixed, ~Overlapping, NEW t \in Tab, TurnInv(t), Mirrors(t),
           NEW g \in Generation, Generate(g, t)
    PROVE  Mirrors(t)'
<1>0. TypeOK
  BY DEF ApartInv
<1>1. /\ tab[t].mounted /\ ~Replacing(t) /\ ~Clearing(t)
      /\ \A h \in Generation \ {g} : gen'[h] = gen[h]
      /\ gen'[g].pc = "key" /\ gen'[g].base = tab[t].view
      /\ Shows(t, tab[t].view) /\ restore' = restore /\ refresh' = refresh
      /\ SameAccount /\ SameStores /\ SameClears
  BY <1>0, GenerateFacts
<1>2. restore[t].pc = "none" /\ \A h \in Generation : ~Runs(h)
  BY <1>1, NoneRuns
<1>3. ShownMirrors(t) /\ legacyLocal = {}
  BY <1>1, <1>2 DEF Mirrors, CanvasMirrors, OldEntry
<1>4. Saving = {} /\ Saving' = {} /\ ~Clearing(t)'
  <2>1. \A h \in Generation : gen[h].pc # "save"
    BY <1>2 DEF Runs, Running
  <2>2. \A h \in Generation : gen'[h].pc # "save"
    BY <1>1, <2>1
  <2> QED BY <1>1, <2>1, <2>2 DEF Saving, Clearing, SameClears
<1>5. StoresMirror' /\ OldEntry(t)' /\ RestoreMirrors(t)' /\ RefreshMirrors(t)'
  <2>1. StoresMirror'
    BY <1>1 DEF Mirrors, StoresMirror, SameStores, SameClears
  <2>2. OldEntry(t)'
    BY <1>1, <1>3 DEF OldEntry, SameStores
  <2>3. RestoreMirrors(t)'
    BY <1>1, <1>2 DEF RestoreMirrors
  <2>4. RefreshMirrors(t)'
    BY <1>1 DEF Mirrors, RefreshMirrors, SameAccount, SameStores
  <2> QED BY <2>1, <2>2, <2>3, <2>4
<1>6. CanvasMirrors(t)'
  BY <1>1, <1>3, <1>4 DEF CanvasMirrors, ShownMirrors, Shows, SameAccount, SameStores
<1>7. ASSUME NEW h \in Generation, Runs(h)' PROVE GenMirrors(t, h)'
  <2>1. h = g
    BY <1>1, <1>2, <1>7 DEF Runs
  <2> QED BY <1>1, <1>3, <1>4, <2>1 DEF GenMirrors, ShownMirrors, SameAccount, SameStores
<1> QED BY <1>5, <1>6, <1>7 DEF Mirrors

\* Only the generation that runs can be about to save.
LEMMA OneSaves ==
    ASSUME NEW t, TurnInv(t), NEW g \in Generation, Runs(g), NEW p, Moves(g, p)
    PROVE  /\ Saving = IF gen[g].pc = "save" THEN {g} ELSE {}
           /\ Saving' = IF p = "save" THEN {g} ELSE {}
<1>1. \A h \in Generation \ {g} : gen[h].pc # "save" /\ gen'[h].pc # "save"
  BY DEF TurnInv, Runs, Running, Moves
<1> QED BY <1>1 DEF Saving, Moves

\* A generation that moves on.
LEMMA MovesMirror ==
    ASSUME NEW t, TurnInv(t), Mirrors(t), NEW g \in Generation, Runs(g), NEW p, Moves(g, p),
           SameTab(t), SameRest, legacyLocal' = legacyLocal, StoresMirror',
           server[session] \subseteq server'[session],
           tab[t].mounted => ShownMirrors(t)', p \in Running => GenMirrors(t, g)'
    PROVE  Mirrors(t)'
<1>1. /\ restore[t].pc = "none" /\ ~Clearing(t) /\ (\A h \in Generation : Runs(h) => h = g)
      /\ legacyLocal = {}
  BY DEF TurnInv, Mirrors, OldEntry
<1>2. restore'[t].pc = "none" /\ ~Clearing(t)' /\ session' = session
  BY <1>1 DEF SameRest, SameAccount, SameClears, Clearing
<1>3. OldEntry(t)' /\ RestoreMirrors(t)'
  BY <1>1, <1>2 DEF OldEntry, RestoreMirrors
<1>4. CanvasMirrors(t)'
  BY <1>2 DEF CanvasMirrors, SameTab
<1>5. RefreshMirrors(t)'
  BY <1>2 DEF Mirrors, RefreshMirrors, SameRest
<1>6. \A h \in Generation : Runs(h)' => h = g /\ p \in Running
  BY <1>1 DEF Moves, Runs
<1> QED BY <1>3, <1>4, <1>5, <1>6 DEF Mirrors

LEMMA GenerateStepMirror ==
    ASSUME ApartInv, ~mixed, faults' = 0, NEW t \in Tab, TurnInv(t), Mirrors(t),
           NEW g \in Generation, GenerateStep(g)
    PROVE  Mirrors(t)'
<1> DEFINE S == server[session]
           V == tab[t].view
           N == NewList(g)
<1>0. TypeOK /\ ~Faulty
  <2>1. TypeOK
    BY DEF ApartInv
  <2> QED BY <2>1, SomeFault
<1>1. Runs(g)
  BY <1>0, GenerateStepTurn
<1>2. /\ session \in User /\ gen[g].user = session /\ gen[g].tab = t
      /\ gen[g].live = tab[t].mounted /\ deletes = {}
      /\ restore[t].pc = "none" /\ ~Clearing(t)
  BY <1>1, AllOwn DEF TurnInv, Clearing
<1>3. /\ gen[g].base \subseteq S \cup Legacy /\ idb[session] \subseteq S \cup Legacy
      /\ gen[g].pc \in {"key", "upstream", "response"} => S \subseteq gen[g].base
      /\ gen[g].pc = "save" /\ tab[t].mounted => N \subseteq V
      /\ gen[g].pc \in {"fetch", "merge", "publish", "persist", "idb"} => N \subseteq S
      /\ gen[g].pc = "merge" => gen[g].remote = S
  BY <1>1 DEF Mirrors, GenMirrors
<1>4. tab[t].mounted =>
         /\ S \subseteq V
         /\ V \subseteq S \cup Legacy \cup (IF gen[g].pc = "save" THEN {g} ELSE {})
  <2>1. Saving = IF gen[g].pc = "save" THEN {g} ELSE {}
    <3>1. \A h \in Generation \ {g} : gen[h].pc # "save"
      BY <1>1 DEF TurnInv, Runs, Running
    <3> QED BY <3>1 DEF Saving
  <2> QED BY <1>2, <2>1 DEF Mirrors, CanvasMirrors, ShownMirrors
<1>5. N = {g} \cup gen[g].base
  BY DEF NewList
<1>6. \A p : Moves(g, p) => /\ NewList(g)' = N /\ gen'[g].base = gen[g].base /\ gen'[g].pc = p
                            /\ Saving' = IF p = "save" THEN {g} ELSE {}
  BY <1>1, OneSaves DEF NewList, Moves
<1>7. SameStores /\ SameRest => StoresMirror' /\ S = server'[session]
  BY DEF Mirrors, StoresMirror, SameStores, SameRest, SameClears
<1>8. CASE FetchKey(g) \/ Upstream(g)
  <2>1. PICK p \in {"upstream", "response", "finally"} :
          /\ gen[g].pc \in {"key", "upstream"} /\ Moves(g, p)
          /\ Shows(t, V) /\ SameRest /\ SameStores
    BY <1>0, <1>8, AskFacts
  <2>2. ShownMirrors(t)' \/ ~tab[t].mounted
    BY <1>3, <1>4, <1>6, <2>1 DEF ShownMirrors, Shows, SameRest, SameAccount, SameStores
  <2>3. GenMirrors(t, g)'
    BY <1>3, <1>6, <2>1 DEF GenMirrors, SameRest, SameAccount, SameStores
  <2> QED BY <1>1, <1>7, <2>1, <2>2, <2>3, MovesMirror DEF Shows, SameStores
<1>9. CASE ShowImage(g)
  <2>1. /\ gen[g].pc = "response" /\ Moves(g, "save")
        /\ SameTab(t) /\ (tab[t].mounted => tab'[t].view = N)
        /\ SameRest /\ SameStores
    BY <1>0, <1>2, <1>9, ShowImageFacts DEF Shows
  <2>2. ShownMirrors(t)' \/ ~tab[t].mounted
    BY <1>3, <1>5, <1>6, <2>1 DEF ShownMirrors, SameRest, SameAccount, SameStores
  <2>3. GenMirrors(t, g)'
    BY <1>3, <1>6, <2>1 DEF GenMirrors, SameTab, SameRest, SameAccount, SameStores
  <2> QED BY <1>1, <1>7, <2>1, <2>2, <2>3, MovesMirror DEF SameStores
<1>10. CASE SaveToServer(g)
  <2>1. /\ gen[g].pc = "save" /\ Moves(g, "fetch") /\ Saved(session, N) /\ Shows(t, V)
        /\ SameRest
        /\ local' = local /\ idb' = idb /\ legacyLocal' = legacyLocal
    BY <1>0, <1>1, <1>10, AllOwn, SaveToServerFacts
  <2>2. server'[session] = S \cup N /\ \A v \in User \ {session} : server'[v] = server[v]
    BY <1>2, <2>1 DEF Saved
  <2>3. StoresMirror'
    <3>1. ASSUME NEW u \in User
          PROVE  /\ local[u] \subseteq server'[u] \cup Legacy /\ (u \in deletes' => local[u] = {})
                 /\ idb[u] \subseteq server'[u] \cup Legacy \/ (server'[u] = {} /\ local[u] = {})
      <4>1. /\ local[u] \subseteq server[u] \cup Legacy /\ (u \in deletes => local[u] = {})
            /\ idb[u] \subseteq server[u] \cup Legacy \/ (server[u] = {} /\ local[u] = {})
        BY DEF Mirrors, StoresMirror
      <4>2. deletes' = deletes
        BY <2>1 DEF SameRest, SameClears
      <4>3. CASE u = session
        BY <1>3, <2>2, <4>1, <4>2, <4>3
      <4>4. CASE u # session
        BY <2>2, <4>1, <4>2, <4>4
      <4> QED BY <4>3, <4>4
    <3> QED BY <2>1, <3>1 DEF StoresMirror
  <2>4. ShownMirrors(t)' \/ ~tab[t].mounted
    BY <1>3, <1>4, <1>5, <1>6, <2>1, <2>2 DEF ShownMirrors, Shows, SameRest, SameAccount
  <2>5. GenMirrors(t, g)'
    BY <1>3, <1>6, <2>1, <2>2 DEF GenMirrors, SameRest, SameAccount
  <2> QED BY <1>1, <2>1, <2>2, <2>3, <2>4, <2>5, MovesMirror DEF Shows
<1>11. CASE FetchBack(g)
  <2>1. /\ gen[g].pc = "fetch" /\ Moves(g, "merge") /\ gen'[g].remote = S
        /\ Shows(t, V) /\ SameRest /\ SameStores
    BY <1>0, <1>11, FetchBackFacts
  <2>2. ShownMirrors(t)' \/ ~tab[t].mounted
    BY <1>3, <1>4, <1>6, <2>1 DEF ShownMirrors, Shows, SameRest, SameAccount, SameStores
  <2>3. GenMirrors(t, g)'
    BY <1>3, <1>6, <2>1 DEF GenMirrors, SameRest, SameAccount, SameStores
  <2> QED BY <1>1, <1>7, <2>1, <2>2, <2>3, MovesMirror DEF Shows, SameStores
<1>12. CASE MergeBack(g)
  <2>1. /\ gen[g].pc = "merge" /\ Moves(g, "publish")
        /\ SameTab(t) /\ (tab[t].mounted => tab'[t].view = gen[g].remote \cup N)
        /\ SameRest /\ SameStores
    BY <1>0, <1>2, <1>12, MergeBackFacts DEF Shows
  <2>2. ShownMirrors(t)' \/ ~tab[t].mounted
    BY <1>3, <1>6, <2>1 DEF ShownMirrors, SameRest, SameAccount, SameStores
  <2>3. GenMirrors(t, g)'
    BY <1>3, <1>6, <2>1 DEF GenMirrors, SameRest, SameAccount, SameStores
  <2> QED BY <1>1, <1>7, <2>1, <2>2, <2>3, MovesMirror DEF SameStores
<1>13. CASE StoreLocal(g)
  <2>1. PICK p \in {"persist", "idb"} :
          /\ gen[g].pc \in {"publish", "persist"} /\ Moves(g, p)
          /\ Written(local, local', session, N) /\ Shows(t, V) /\ SameRest
          /\ server' = server /\ idb' = idb /\ legacyLocal' = legacyLocal
    BY <1>0, <1>2, <1>13, StoreLocalFacts
  <2>2. StoresMirror'
    <3>1. ASSUME NEW u \in User
          PROVE  /\ local'[u] \subseteq server[u] \cup Legacy
                 /\ idb[u] \subseteq server[u] \cup Legacy \/ (server[u] = {} /\ local'[u] = {})
      <4>1. /\ local[u] \subseteq server[u] \cup Legacy
            /\ idb[u] \subseteq server[u] \cup Legacy \/ (server[u] = {} /\ local[u] = {})
        BY DEF Mirrors, StoresMirror
      <4>2. CASE u = session
        BY <1>3, <2>1, <4>2 DEF Written
      <4>3. CASE u # session
        BY <2>1, <4>1, <4>3 DEF Written
      <4> QED BY <4>2, <4>3
    <3>2. deletes' = {}
      BY <1>2, <2>1 DEF SameRest, SameClears
    <3> QED BY <2>1, <3>1, <3>2 DEF StoresMirror
  <2>3. ShownMirrors(t)' \/ ~tab[t].mounted
    BY <1>3, <1>4, <1>6, <2>1 DEF ShownMirrors, Shows, SameRest, SameAccount
  <2>4. GenMirrors(t, g)'
    BY <1>3, <1>6, <2>1 DEF GenMirrors, SameRest, SameAccount
  <2> QED BY <1>1, <2>1, <2>2, <2>3, <2>4, MovesMirror DEF Shows
<1>14. CASE StoreIndexed(g)
  <2>1. /\ gen[g].pc = "idb" /\ Moves(g, "finally")
        /\ Written(idb, idb', session, N) /\ Shows(t, V) /\ SameRest
        /\ server' = server /\ local' = local /\ legacyLocal' = legacyLocal
    BY <1>0, <1>2, <1>14, StoreIndexedFacts
  <2>2. StoresMirror'
    <3>1. ASSUME NEW u \in User
          PROVE  idb'[u] \subseteq server[u] \cup Legacy \/ (server[u] = {} /\ local[u] = {})
      <4>1. idb[u] \subseteq server[u] \cup Legacy \/ (server[u] = {} /\ local[u] = {})
        BY DEF Mirrors, StoresMirror
      <4>2. CASE u = session
        BY <1>3, <2>1, <4>2 DEF Written
      <4>3. CASE u # session
        BY <2>1, <4>1, <4>3 DEF Written
      <4> QED BY <4>2, <4>3
    <3> QED BY <2>1, <3>1 DEF Mirrors, StoresMirror, SameRest, SameClears
  <2>3. idb'[session] \subseteq S
    BY <1>3, <2>1 DEF Written
  <2>4. ShownMirrors(t)' \/ ~tab[t].mounted
    BY <1>4, <1>6, <2>1, <2>3 DEF ShownMirrors, Shows, SameRest, SameAccount
  <2>5. GenMirrors(t, g)'
    BY <1>3, <1>6, <2>1, <2>3 DEF GenMirrors, SameRest, SameAccount
  <2> QED BY <1>1, <2>1, <2>2, <2>4, <2>5, MovesMirror DEF Shows
<1>15. CASE Finally(g)
  <2>1. /\ gen[g].pc = "finally" /\ Moves(g, "done") /\ Shows(t, V) /\ SameRest /\ SameStores
    BY <1>0, <1>15, FinallyFacts
  <2>2. ShownMirrors(t)' \/ ~tab[t].mounted
    BY <1>3, <1>4, <1>6, <2>1 DEF ShownMirrors, Shows, SameRest, SameAccount, SameStores
  <2>3. "done" \notin Running
    BY DEF Running
  <2> QED BY <1>1, <1>7, <2>1, <2>2, <2>3, MovesMirror DEF Shows, SameStores
<1> QED BY <1>8, <1>9, <1>10, <1>11, <1>12, <1>13, <1>14, <1>15 DEF GenerateStep

\* An answer that is waiting: nothing is being cleared.
LEMMA RefreshMirror ==
    ASSUME ApartInv, ~mixed, faults' = 0, ~crossed', NEW t \in Tab, TurnInv(t), Mirrors(t),
           RefreshRead(t) \/ RefreshApply(t)
    PROVE  Mirrors(t)'
<1>0. TypeOK /\ ~Faulty /\ session \in User /\ tab[t].user = session
  <2>1. TypeOK
    BY DEF ApartInv
  <2> QED BY <2>1, SomeFault, AllOwn
<1>1. CASE RefreshRead(t)
  <2>1. /\ Shows(t, tab[t].view) /\ restore' = restore /\ gen' = gen
        /\ SameAccount /\ SameStores /\ SameClears
        /\ refresh'[t] \subseteq refresh[t] \cup {server[session]}
        /\ tab[t].mounted => ~Clearing(t)
    BY <1>0, <1>1, RefreshReadFacts
  <2>2. tab[t].mounted => ~Clearing(t)'
    BY <2>1 DEF Clearing, SameClears
  <2>3. Saving' = Saving /\ \A g \in Generation : (Runs(g)' <=> Runs(g)) /\ NewList(g)' = NewList(g)
    BY <2>1 DEF Saving, Runs, NewList
  <2>4. StoresMirror' /\ OldEntry(t)'
    BY <2>1, <2>3 DEF Mirrors, StoresMirror, OldEntry, SameStores, SameClears, Shows, SameTab
  <2>5. RestoreMirrors(t)' /\ RefreshMirrors(t)'
    BY <2>1 DEF Mirrors, RestoreMirrors, RefreshMirrors, SameStores, SameAccount, Shows, SameTab
  <2>6. CanvasMirrors(t)'
    BY <2>1, <2>2, <2>3 DEF Mirrors, CanvasMirrors, ShownMirrors, SameStores, SameAccount, Shows,
                            SameTab
  <2>7. \A g \in Generation : Runs(g)' => GenMirrors(t, g)'
    BY <2>1, <2>3 DEF Mirrors, GenMirrors, SameStores, SameAccount, Shows, SameTab
  <2> QED BY <2>4, <2>5, <2>6, <2>7 DEF Mirrors
<1>2. CASE RefreshApply(t)
  <2> DEFINE S == server[session]
             L == local[session]
             I == idb[session]
             saved == IF L # {} THEN L ELSE I
  <2>1. PICK R \in refresh[t] :
          /\ Shows(t, tab[t].view \cup (IF R # {} THEN R ELSE saved))
          /\ refresh'[t] = refresh[t] \ {R}
          /\ restore' = restore /\ gen' = gen /\ SameAccount /\ SameStores /\ SameClears
    BY <1>0, <1>2, RefreshApplyFacts
  <2>2. PICK F : F = IF R # {} THEN R ELSE saved
    OBVIOUS
  <2>3. R \subseteq S
    BY DEF Mirrors, RefreshMirrors
  <2>4. tab[t].mounted
    BY DEF TurnInv
  <2>5. F \subseteq S \cup L \cup I /\ (S = {} /\ L = {} => F = I)
    BY <2>2, <2>3
  <2>6. /\ L \subseteq S \cup Legacy
        /\ session' = session /\ server' = server /\ local' = local /\ idb' = idb
        /\ legacyLocal' = legacyLocal /\ deletes' = deletes /\ idbDeletes' = idbDeletes
        /\ tab'[t].mounted = tab[t].mounted /\ tab'[t].view = tab[t].view \cup F
    BY <1>0, <2>1, <2>2 DEF SameAccount, SameStores, SameClears, Shows, SameTab, Mirrors, StoresMirror
  <2>7. Saving' = Saving /\ \A g \in Generation : (Runs(g)' <=> Runs(g)) /\ NewList(g)' = NewList(g)
    BY <2>1 DEF Saving, Runs, NewList
  <2> HIDE DEF saved
  <2>8. StoresMirror' /\ OldEntry(t)'
    BY <2>1, <2>6, <2>7 DEF Mirrors, StoresMirror, OldEntry
  <2>9. RefreshMirrors(t)'
    BY <2>1, <2>6 DEF Mirrors, RefreshMirrors
  <2>10. RestoreMirrors(t)'
    <3>1. restore[t].pc = "upload" => tab[t].view \cup F = tab[t].view
      BY <2>4, <2>5 DEF Mirrors, RestoreMirrors
    <3> QED BY <2>1, <2>5, <2>6, <3>1 DEF Mirrors, RestoreMirrors
  <2>11. CanvasMirrors(t)'
    <3>1. CASE restore[t].pc = "none"
      <4>1. ~Clearing(t)
        BY <2>4, <3>1 DEF Mirrors, CanvasMirrors, ClearedMirrors
      <4>2. ~Clearing(t)'
        BY <2>6, <4>1 DEF Clearing
      <4>3. ShownMirrors(t)
        BY <2>4, <3>1, <4>1 DEF Mirrors, CanvasMirrors
      <4>4. ShownMirrors(t)'
        BY <2>5, <2>6, <2>7, <4>3 DEF ShownMirrors
      <4> QED BY <4>2, <4>4 DEF CanvasMirrors
    <3> QED BY <2>1, <3>1 DEF CanvasMirrors
  <2>12. \A g \in Generation : Runs(g)' => GenMirrors(t, g)'
    BY <2>1, <2>6, <2>7 DEF Mirrors, GenMirrors
  <2> QED BY <2>8, <2>9, <2>10, <2>11, <2>12 DEF Mirrors
<1> QED BY <1>1, <1>2

LEMMA ClearMirror ==
    ASSUME ApartInv, ~mixed, ~crossed', ~Overlapping, NEW t \in Tab, TurnInv(t), Mirrors(t),
           Clear(t)
    PROVE  Mirrors(t)'
<1>0. TypeOK /\ session \in User /\ tab[t].user = session
  <2>1. TypeOK
    BY DEF ApartInv
  <2> QED BY <2>1, AllOwn
<1>1. /\ tab[t].mounted /\ ~Replacing(t) /\ ~Clearing(t) /\ refresh[t] = {}
      /\ Shows(t, {}) /\ Written(local, local', session, {})
      /\ idbDeletes'[t] = idbDeletes[t] \cup {session} /\ deletes' = deletes \cup {session}
      /\ restore' = restore /\ refresh' = refresh /\ gen' = gen /\ session' = session
      /\ server' = server /\ idb' = idb /\ legacyLocal' = legacyLocal
  BY <1>0, ClearFacts DEF SameAccount
<1>2. restore[t].pc = "none" /\ \A g \in Generation : ~Runs(g)
  BY <1>1, NoneRuns
<1>3. /\ idb[session] \subseteq server[session] \cup Legacy /\ legacyLocal = {}
      /\ deletes = {}
  BY <1>1, <1>2 DEF Mirrors, CanvasMirrors, ShownMirrors, OldEntry, Clearing
<1>4. StoresMirror'
  <2>1. ASSUME NEW u \in User
        PROVE  /\ local'[u] \subseteq server[u] \cup Legacy
               /\ u \in deletes \cup {session} => local'[u] = {}
               /\ idb[u] \subseteq server[u] \cup Legacy \/ (server[u] = {} /\ local'[u] = {})
    <3>1. /\ local[u] \subseteq server[u] \cup Legacy /\ (u \in deletes => local[u] = {})
          /\ idb[u] \subseteq server[u] \cup Legacy \/ (server[u] = {} /\ local[u] = {})
      BY DEF Mirrors, StoresMirror
    <3>2. CASE u = session
      BY <1>1, <1>3, <3>2 DEF Written
    <3>3. CASE u # session
      BY <1>1, <3>1, <3>3 DEF Written
    <3> QED BY <3>2, <3>3
  <2> QED BY <1>1, <2>1 DEF StoresMirror
<1>5. OldEntry(t)' /\ RestoreMirrors(t)' /\ RefreshMirrors(t)'
  BY <1>1, <1>2, <1>3 DEF OldEntry, RestoreMirrors, RefreshMirrors
<1>6. CanvasMirrors(t)'
  <2>1. Clearing(t)'
    BY <1>1 DEF Clearing
  <2>2. ClearedMirrors(t)'
    BY <1>1 DEF ClearedMirrors, Shows, Written
  <2> QED BY <2>1, <2>2 DEF CanvasMirrors
<1>7. \A g \in Generation : ~Runs(g)'
  BY <1>1, <1>2 DEF Runs
<1> QED BY <1>4, <1>5, <1>6, <1>7 DEF Mirrors

LEMMA DeleteMirror ==
    ASSUME ApartInv, ~mixed, faults' = 0, NEW t \in Tab, TurnInv(t), Mirrors(t),
           ClearIndexed(t) \/ \E u \in User : DeleteCanvasHistory(u)
    PROVE  Mirrors(t)'
<1>0. TypeOK /\ ~Faulty /\ session \in User
  <2>1. TypeOK
    BY DEF ApartInv
  <2> QED BY <2>1, SomeFault, AllOwn
<1>1. \/ \E u \in User : /\ u \in idbDeletes[t] /\ idbDeletes'[t] = idbDeletes[t] \ {u}
                         /\ deletes' = deletes /\ Written(idb, idb', u, {})
                         /\ DeleteFrame(t) /\ server' = server
      \/ \E u \in User : /\ u \in deletes /\ deletes' = deletes \ {u} /\ idbDeletes' = idbDeletes
                         /\ Written(server, server', u, {})
                         /\ DeleteFrame(t) /\ idb' = idb
  <2>1. CASE ClearIndexed(t)
    BY <1>0, <2>1, ClearIndexedFacts
  <2>2. ASSUME NEW u \in User, DeleteCanvasHistory(u)
        PROVE  /\ u \in deletes /\ deletes' = deletes \ {u} /\ idbDeletes' = idbDeletes
               /\ Written(server, server', u, {}) /\ DeleteFrame(t) /\ idb' = idb
    BY <1>0, <2>2, DeleteFacts
  <2> QED BY <2>1, <2>2
<1>2. /\ DeleteFrame(t) /\ Clearing(t) /\ deletes' \subseteq deletes
      /\ \A u \in User : server'[u] = server[u] \/ (server'[u] = {} /\ u \in deletes)
      /\ \A u \in User : idb'[u] = idb[u] \/ idb'[u] = {}
      /\ session \in deletes => session \in deletes' \/ server'[session] = {}
      /\ session \in idbDeletes[t] => session \in idbDeletes'[t] \/ idb'[session] = {}
  BY <1>0, <1>1 DEF Written, Clearing
<1>3. /\ tab'[t].mounted = tab[t].mounted /\ tab'[t].view = tab[t].view
      /\ restore' = restore /\ refresh' = refresh /\ gen' = gen /\ session' = session
      /\ local' = local /\ legacyLocal' = legacyLocal
  BY <1>2 DEF DeleteFrame, Shows, SameTab, SameAccount
<1>4. restore[t].pc = "none" /\ \A g \in Generation : ~Runs(g)
  BY <1>2 DEF TurnInv
<1>5. tab[t].mounted => ClearedMirrors(t)
  BY <1>2, <1>4 DEF Mirrors, CanvasMirrors
<1>6. refresh[t] = {}
  BY <1>5 DEF ClearedMirrors, TurnInv
<1>7. \A g \in Generation : ~Runs(g)'
  BY <1>3, <1>4 DEF Runs
<1>8. StoresMirror'
  <2>1. ASSUME NEW u \in User
        PROVE  /\ local[u] \subseteq server'[u] \cup Legacy /\ (u \in deletes' => local[u] = {})
               /\ idb'[u] \subseteq server'[u] \cup Legacy \/ (server'[u] = {} /\ local[u] = {})
    <3>1. /\ local[u] \subseteq server[u] \cup Legacy /\ (u \in deletes => local[u] = {})
          /\ idb[u] \subseteq server[u] \cup Legacy \/ (server[u] = {} /\ local[u] = {})
      BY DEF Mirrors, StoresMirror
    <3> QED BY <1>2, <3>1
  <2> QED BY <1>3, <2>1 DEF StoresMirror
<1>9. OldEntry(t)'
  BY <1>2, <1>3, <1>7 DEF Mirrors, OldEntry
<1>10. RestoreMirrors(t)' /\ RefreshMirrors(t)'
  BY <1>3, <1>4, <1>6 DEF RestoreMirrors, RefreshMirrors
<1>11. CanvasMirrors(t)'
  <2>1. tab[t].mounted => ClearedMirrors(t)'
    BY <1>0, <1>2, <1>3, <1>5 DEF ClearedMirrors
  <2>2. tab[t].mounted /\ ~Clearing(t)' => ShownMirrors(t)'
    BY <2>1 DEF ClearedMirrors, ShownMirrors, Clearing
  <2> QED BY <1>3, <2>1, <2>2 DEF CanvasMirrors
<1> QED BY <1>7, <1>8, <1>9, <1>10, <1>11 DEF Mirrors

\* The save of a page that is gone: no page has read yet, or it is of another account.
LEMMA LateSaveMirror ==
    ASSUME ApartInv, ~mixed, faults' = 0, ~crossed', NEW t \in Tab, TurnInv(t), Mirrors(t),
           PostsMirror, NEW p \in posts, LateSave(p)
    PROVE  Mirrors(t)'
<1>0. TypeOK /\ ~Faulty
  <2>1. TypeOK
    BY DEF ApartInv
  <2> QED BY <2>1, SomeFault
<1>1. /\ Shows(t, tab[t].view) /\ restore' = restore /\ refresh' = refresh /\ gen' = gen
      /\ SameAccount /\ SameClears
      /\ local' = local /\ idb' = idb /\ legacyLocal' = legacyLocal /\ faults' = faults
      /\ (Saved(p.user, p.items) \/ server' = server) /\ ~HasRead(t, p.user)
  BY <1>0, LateSaveFacts
<1>2. CASE server' = server
  <2>1. Frame(t)
    BY <1>1, <1>2 DEF Frame, SameStores
  <2> QED BY <2>1, FrameMirror
<1>3. CASE Saved(p.user, p.items)
  <2>1. session \in User /\ tab[t].user = session /\ p.user \in User
    BY AllOwn
  <2>2. /\ deletes = {} /\ legacyLocal = {}
        /\ idb[p.user] \subseteq server[p.user] \cup Legacy \cup p.items
    BY DEF PostsMirror
  <2>3. \A u \in User : /\ server[u] \subseteq server'[u]
                        /\ u # p.user => server'[u] = server[u]
    BY <1>3 DEF Saved
  <2>4. server'[p.user] = server[p.user] \cup p.items
    BY <1>3, <2>1 DEF Saved
  <2>5. StoresMirror'
    <3>1. ASSUME NEW u \in User
          PROVE  /\ local[u] \subseteq server'[u] \cup Legacy
                 /\ idb[u] \subseteq server'[u] \cup Legacy \/ (server'[u] = {} /\ local[u] = {})
      <4>1. /\ local[u] \subseteq server[u] \cup Legacy
            /\ idb[u] \subseteq server[u] \cup Legacy \/ (server[u] = {} /\ local[u] = {})
        BY DEF Mirrors, StoresMirror
      <4>2. CASE u = p.user
        BY <2>2, <2>3, <2>4, <4>1, <4>2
      <4>3. CASE u # p.user
        BY <2>3, <4>1, <4>3
      <4> QED BY <4>2, <4>3
    <3> QED BY <1>1, <2>2, <3>1 DEF StoresMirror, SameClears
  <2>6. OldEntry(t)'
    BY <1>1, <2>2 DEF OldEntry
  <2>7. RefreshMirrors(t)'
    BY <1>1, <2>1, <2>3 DEF Mirrors, RefreshMirrors, SameAccount
  <2>8. Saving' = Saving /\ \A g \in Generation : (Runs(g)' <=> Runs(g)) /\ NewList(g)' = NewList(g)
    BY <1>1 DEF Saving, Runs, NewList
  <2>9. Clearing(t)' <=> Clearing(t)
    BY <1>1 DEF Clearing, SameClears
  <2>10. CASE p.user # session
    <3>1. server'[session] = server[session] /\ session' = session
      BY <1>1, <2>1, <2>3, <2>10 DEF SameAccount
    <3>2. RestoreMirrors(t)'
      BY <1>1, <3>1 DEF Mirrors, RestoreMirrors, Shows, SameTab
    <3>3. CanvasMirrors(t)'
      BY <1>1, <2>8, <2>9, <3>1 DEF Mirrors, CanvasMirrors, ClearedMirrors, ShownMirrors, Shows,
                                    SameTab, SameClears
    <3>4. \A g \in Generation : Runs(g)' => GenMirrors(t, g)'
      BY <1>1, <2>8, <3>1 DEF Mirrors, GenMirrors, Shows, SameTab
    <3> QED BY <2>5, <2>6, <2>7, <3>2, <3>3, <3>4 DEF Mirrors
  <2>11. CASE p.user = session
    <3>1. restore[t].pc = "asked" \/ (~tab[t].mounted /\ ~Replacing(t))
      BY <1>1, <2>1, <2>11 DEF HasRead
    <3>2. \A g \in Generation : ~Runs(g)
      BY <3>1, NoneRuns DEF TurnInv
    <3>3. restore[t].pc = "asked" \/ (~tab[t].mounted /\ restore[t].pc = "none")
      BY <3>1 DEF Replacing
    <3>4. RestoreMirrors(t)'
      BY <1>1, <2>1, <2>3, <3>3 DEF Mirrors, RestoreMirrors, Shows, SameTab, SameAccount
    <3>5. CanvasMirrors(t)'
      BY <1>1, <3>3 DEF CanvasMirrors, Shows, SameTab
    <3> QED BY <2>5, <2>6, <2>7, <2>8, <3>2, <3>4, <3>5 DEF Mirrors
  <2> QED BY <2>10, <2>11
<1> QED BY <1>1, <1>2, <1>3

\* A step that sends nothing, and takes nothing from the server.
LEMMA PostsGoOn ==
    ASSUME PostsMirror, posts' \subseteq posts, \A p \in posts : p.user \in User,
           deletes' \subseteq deletes, legacyLocal' \subseteq legacyLocal,
           deletes = {} => \A u \in User :
                             /\ idb'[u] \subseteq idb[u] \cup server[u] \cup Legacy
                             /\ server[u] \subseteq server'[u]
    PROVE  PostsMirror'
<1> SUFFICES ASSUME NEW p \in posts'
             PROVE  /\ deletes' = {} /\ legacyLocal' = {}
                    /\ idb'[p.user] \subseteq server'[p.user] \cup Legacy \cup p.items
  BY DEF PostsMirror
<1>1. /\ deletes = {} /\ legacyLocal = {} /\ p.user \in User
      /\ idb[p.user] \subseteq server[p.user] \cup Legacy \cup p.items
  BY DEF PostsMirror
<1> QED BY <1>1

\* What a page has sent when it is left.
LEMMA AwayPosts ==
    ASSUME ApartInv, ~mixed, NEW t \in Tab, TurnInv(t), Mirrors(t), PostsMirror, Away(t),
           posts' \subseteq posts \cup Sent(t) \cup SentByRestore(t)
    PROVE  PostsMirror'
<1>1. /\ server' = server /\ idb' = idb /\ legacyLocal' = legacyLocal /\ deletes' = deletes
  BY DEF Away, SameStores
<1> SUFFICES ASSUME NEW p \in posts \cup Sent(t) \cup SentByRestore(t)
             PROVE  /\ deletes = {} /\ legacyLocal = {}
                    /\ idb[p.user] \subseteq server[p.user] \cup Legacy \cup p.items
  BY <1>1 DEF PostsMirror
<1>2. CASE p \in posts
  BY <1>2 DEF PostsMirror
<1>3. CASE p \in Sent(t)
  <2>1. PICK g \in Generation :
          /\ gen[g].pc = "save"
          /\ p = [user |-> gen[g].to, new |-> {g}, items |-> {g} \cup gen[g].base]
    BY <1>3 DEF Sent
  <2>2. Runs(g)
    BY <2>1 DEF Runs, Running
  <2>3. p.user = session
    BY <2>1, <2>2, AllOwn
  <2>4. idb[session] \subseteq server[session] \cup Legacy
    BY <2>2 DEF Mirrors, GenMirrors
  <2>5. deletes = {} /\ legacyLocal = {}
    BY <2>2 DEF Mirrors, OldEntry, TurnInv, Clearing
  <2> QED BY <2>3, <2>4, <2>5
<1>4. CASE p \in SentByRestore(t)
  <2>1. /\ restore[t].pc = "upload"
        /\ p = [user |-> restore[t].to, new |-> {}, items |-> restore[t].remote]
    BY <1>4 DEF SentByRestore
  <2>2. p.user = session /\ p.items = restore[t].remote
    BY <2>1, AllOwn
  <2>3. idb[session] = restore[t].remote
    BY <2>1 DEF Mirrors, RestoreMirrors
  <2>4. deletes = {} /\ legacyLocal = {}
    BY <2>1 DEF Mirrors, OldEntry, TurnInv, Clearing
  <2> QED BY <2>2, <2>3, <2>4
<1> QED BY <1>2, <1>3, <1>4

LEMMA RestorePosts ==
    ASSUME ApartInv, ~mixed, faults' = 0, NEW t \in Tab, PostsMirror, Restore(t)
    PROVE  PostsMirror'
<1>0. TypeOK /\ ~Faulty /\ \A p \in posts : p.user \in User
  <2>1. TypeOK
    BY DEF ApartInv
  <2> QED BY <2>1, SomeFault, AllOwn
<1>1. posts' = posts
  BY DEF Restore, RestoreAnswer, RestoreMerge, RestoreLocal, RestoreIndexed, RestoreUpload,
         RestoreFallback, clearVars
<1>2. /\ deletes' = deletes /\ legacyLocal' \subseteq legacyLocal
      /\ \A u \in User : /\ idb'[u] \subseteq idb[u] \cup Legacy
                         /\ server[u] \subseteq server'[u]
  <2>1. CASE RestoreAnswer(t)
    BY <1>0, <2>1, RestoreAnswerFacts DEF SameStores, SameClears
  <2>2. CASE RestoreMerge(t)
    BY <1>0, <2>2, RestoreMergeFacts DEF SameStores, SameClears
  <2>3. CASE RestoreLocal(t)
    BY <1>0, <2>3, RestoreLocalFacts DEF SameClears
  <2>4. CASE RestoreIndexed(t)
    <3>1. (IF restore[t].user \in Admin THEN legacyIdb ELSE {}) \subseteq Legacy
      BY <1>0 DEF TypeOK
    <3> QED BY <1>0, <2>4, <3>1, RestoreIndexedFacts DEF SameClears
  <2>5. CASE RestoreUpload(t)
    BY <1>0, <2>5, RestoreUploadFacts DEF SameClears, Saved
  <2>6. CASE RestoreFallback(t)
    BY <1>0, <2>6, RestoreFallbackFacts DEF SameStores, SameClears
  <2> QED BY <2>1, <2>2, <2>3, <2>4, <2>5, <2>6 DEF Restore
<1> QED BY <1>0, <1>1, <1>2, PostsGoOn

LEMMA GenerateStepPosts ==
    ASSUME ApartInv, ~mixed, faults' = 0, NEW t \in Tab, TurnInv(t), Mirrors(t), PostsMirror,
           NEW g \in Generation, GenerateStep(g)
    PROVE  PostsMirror'
<1>0. TypeOK /\ ~Faulty /\ \A p \in posts : p.user \in User
  <2>1. TypeOK
    BY DEF ApartInv
  <2> QED BY <2>1, SomeFault, AllOwn
<1>1. posts' = posts /\ deletes' = deletes /\ legacyLocal' = legacyLocal
  BY DEF GenerateStep, FetchKey, Upstream, ShowImage, SaveToServer, FetchBack, MergeBack,
         StoreLocal, StoreIndexed, Finally, clearVars, storeVars
<1>2. Runs(g)
  BY <1>0, GenerateStepTurn
<1>3. CASE SaveToServer(g)
  <2>1. idb' = idb /\ \A u \in User : server[u] \subseteq server'[u]
    BY <1>0, <1>3, SaveToServerFacts DEF Saved
  <2> QED BY <1>0, <1>1, <2>1, PostsGoOn
<1>4. CASE StoreIndexed(g)
  <2>1. /\ gen[g].pc = "idb" /\ server' = server /\ gen[g].user = session /\ session \in User
        /\ Written(idb, idb', session, NewList(g))
    BY <1>0, <1>2, <1>4, AllOwn, StoreIndexedFacts
  <2>2. NewList(g) \subseteq server[session]
    BY <1>2, <2>1 DEF Mirrors, GenMirrors
  <2>3. \A u \in User : idb'[u] \subseteq idb[u] \cup server[u]
    BY <2>1, <2>2 DEF Written
  <2> QED BY <1>0, <1>1, <2>1, <2>3, PostsGoOn
<1>5. CASE ~SaveToServer(g) /\ ~StoreIndexed(g)
  <2>1. idb' = idb /\ server' = server
    BY <1>5 DEF GenerateStep, FetchKey, Upstream, ShowImage, FetchBack, MergeBack, StoreLocal,
                Finally, storeVars
  <2> QED BY <1>0, <1>1, <2>1, PostsGoOn
<1> QED BY <1>3, <1>4, <1>5

LEMMA NextPosts ==
    ASSUME NEW t, OneTab(t), ApartInv, TurnInv(t), Mirrors(t), PostsMirror, [Next]_vars,
           faults' = 0, ~mixed, ~crossed'
    PROVE  PostsMirror'
<1>1. t \in Tab /\ Tab = {t} /\ ~Overlapping /\ TypeOK /\ \A p \in posts : p.user \in User
  BY AllOwn DEF OneTab, ApartInv
<1>2. CASE \/ UNCHANGED vars \/ Connect(t) \/ Disconnect(t) \/ (\E e \in Event : Deliver(t, e))
           \/ Mount(t) \/ RefreshRead(t) \/ RefreshApply(t)
           \/ (\E g \in Generation : Generate(g, t))
  <2>1. /\ posts' = posts /\ deletes' = deletes /\ legacyLocal' = legacyLocal
        /\ idb' = idb /\ server' = server
    <3>1. CASE UNCHANGED vars
      BY <3>1 DEF vars, storeVars, clearVars
    <3>2. CASE \/ Connect(t) \/ Disconnect(t) \/ Mount(t) \/ RefreshRead(t) \/ RefreshApply(t)
      BY <3>2 DEF Connect, Disconnect, Mount, RefreshRead, RefreshApply, storeVars, clearVars
    <3>3. ASSUME NEW e \in Event, Deliver(t, e)
          PROVE  /\ posts' = posts /\ deletes' = deletes /\ legacyLocal' = legacyLocal
                 /\ idb' = idb /\ server' = server
      BY <3>3 DEF Deliver, clearVars
    <3>4. ASSUME NEW g \in Generation, Generate(g, t)
          PROVE  /\ posts' = posts /\ deletes' = deletes /\ legacyLocal' = legacyLocal
                 /\ idb' = idb /\ server' = server
      BY <3>4 DEF Generate, clearVars
    <3> QED BY <1>2, <3>1, <3>2, <3>3, <3>4
  <2> QED BY <1>1, <2>1, PostsGoOn
<1>3. CASE \/ \E u \in User : SwitchAccount(t, u) \/ SignInAgain(t, u)
           \/ Reload(t) \/ Unmount(t)
  <2>1. posts' \subseteq posts \cup Sent(t) \cup SentByRestore(t)
    BY <1>3 DEF SwitchAccount, SignInAgain, Reload, Unmount, Unload, Leave
  <2> QED BY <1>1, <1>3, <2>1, AwayFacts, AwayPosts
<1>4. CASE Restore(t)
  BY <1>1, <1>4, RestorePosts
<1>5. CASE Clear(t)
  <2>1. posts' = {}
    BY <1>1, <1>5, ClearFacts
  <2> QED BY <2>1 DEF PostsMirror
<1>6. CASE ClearIndexed(t)
  <2>1. posts' = posts
    BY <1>6 DEF ClearIndexed
  <2>2. /\ deletes' = deletes /\ server' = server /\ legacyLocal' = legacyLocal
        /\ \A u \in User : idb'[u] \subseteq idb[u]
    BY <1>1, <1>6, ClearIndexedFacts DEF Written, DeleteFrame
  <2> QED BY <1>1, <2>1, <2>2, PostsGoOn
<1>7. ASSUME NEW u \in User, DeleteCanvasHistory(u) PROVE PostsMirror'
  <2>1. posts' = posts /\ u \in deletes
    BY <1>7 DEF DeleteCanvasHistory
  <2>2. posts = {}
    BY <2>1 DEF PostsMirror
  <2> QED BY <2>1, <2>2 DEF PostsMirror
<1>8. CASE \E g \in Generation : GenerateStep(g)
  BY <1>1, <1>8, GenerateStepPosts
<1>9. ASSUME NEW p \in posts, LateSave(p) PROVE PostsMirror'
  <2>1. /\ posts' \subseteq posts /\ deletes' = deletes /\ legacyLocal' = legacyLocal
        /\ idb' = idb /\ \A u \in User : server[u] \subseteq server'[u]
    BY <1>1, <1>9, LateSaveFacts, SomeFault DEF SameClears, Saved
  <2> QED BY <1>1, <2>1, PostsGoOn
<1> QED BY <1>2, <1>3, <1>4, <1>5, <1>6, <1>7, <1>8, <1>9, OneTabSteps

LEMMA InitMirror == ASSUME NEW t \in Tab, Init PROVE MirrorInv(t)
<1>1. /\ session \in User /\ tab[t].mounted = FALSE /\ restore[t].pc = "none" /\ refresh[t] = {}
      /\ deletes = {}
      /\ \A u \in User : server[u] = {} /\ local[u] = {} /\ idb[u] = {}
      /\ \A g \in Generation : gen[g].pc = "idle"
  BY DEF Init, NewTab, NoRestore, NotStarted
<1>2. \A g \in Generation : ~Runs(g)
  BY <1>1 DEF Runs, Running
<1>3. StoresMirror /\ OldEntry(t)
  BY <1>1, <1>2 DEF StoresMirror, OldEntry
<1>4. RestoreMirrors(t) /\ CanvasMirrors(t) /\ RefreshMirrors(t)
  BY <1>1 DEF RestoreMirrors, CanvasMirrors, RefreshMirrors
<1>5. PostsMirror
  BY DEF Init, PostsMirror
<1> QED BY <1>2, <1>3, <1>4, <1>5 DEF MirrorInv, Mirrors

\* The invariant speaks of the time before a fault, before accounts were mixed,
\* and before a save or a refresh was crossed.
LEMMA StillClean ==
    ASSUME NEW t, OneTab(t), ApartInv, [Next]_vars, faults' = 0, ~mixed', ~crossed'
    PROVE  faults = 0 /\ ~mixed /\ ~crossed
<1>1. t \in Tab /\ ~Overlapping /\ TypeOK
  BY DEF OneTab, ApartInv
<1>2. CASE \/ UNCHANGED vars \/ Connect(t) \/ Disconnect(t) \/ \E e \in Event : Deliver(t, e)
  <2>1. faults' = faults /\ mixed' = mixed
    BY <1>1, <1>2, FrameFacts DEF Frame, SameAccount
  <2>2. crossed' = crossed
    BY <1>2 DEF vars, Connect, Disconnect, Deliver, clearVars
  <2> QED BY <2>1, <2>2
<1>3. CASE \/ \E u \in User : SwitchAccount(t, u) \/ SignInAgain(t, u)
           \/ Reload(t) \/ Unmount(t)
  <2>1. faults' = faults /\ ~mixed
    BY <1>1, <1>3, AwayFacts DEF Away
  <2>2. crossed' = crossed
    BY <1>3 DEF SwitchAccount, SignInAgain, Reload, Unmount
  <2> QED BY <2>1, <2>2
<1>4. CASE \/ Mount(t) \/ Restore(t) \/ RefreshRead(t) \/ RefreshApply(t) \/ Clear(t)
           \/ ClearIndexed(t) \/ (\E u \in User : DeleteCanvasHistory(u))
           \/ (\E g \in Generation : Generate(g, t)) \/ (\E g \in Generation : GenerateStep(g))
           \/ (\E p \in posts : LateSave(p))
  <2>1. mixed' = mixed /\ ~crossed /\ (faults' = faults \/ Faulty)
    <3>1. CASE Mount(t)
      BY <3>1 DEF Mount, clearVars
    <3>2. CASE Restore(t)
      <4>1. CASE RestoreAnswer(t) \/ RestoreMerge(t) \/ RestoreFallback(t)
        BY <4>1 DEF RestoreAnswer, RestoreMerge, RestoreFallback, clearVars
      <4>2. CASE RestoreLocal(t)
        BY <4>2 DEF RestoreLocal, clearVars
      <4>3. CASE RestoreIndexed(t)
        BY <4>3 DEF RestoreIndexed, clearVars
      <4>4. CASE RestoreUpload(t)
        BY <4>4 DEF RestoreUpload, SaveCanvasHistory, clearVars
      <4> QED BY <3>2, <4>1, <4>2, <4>3, <4>4 DEF Restore
    <3>3. CASE RefreshRead(t)
      <4>1. mixed' = mixed /\ (faults' = faults \/ Faulty)
        BY <3>3 DEF RefreshRead
      <4>2. crossed' = (crossed \/ (tab[t].mounted /\ Clearing(t)))
        BY <3>3 DEF RefreshRead
      <4> QED BY <4>1, <4>2
    <3>8. CASE RefreshApply(t)
      BY <3>8 DEF RefreshApply, clearVars
    <3>9. CASE Clear(t)
      <4>1. mixed' = mixed /\ faults' = faults
        BY <3>9 DEF Clear
      <4>2. crossed' = (crossed \/ refresh[t] # {} \/ posts # {})
        BY <3>9 DEF Clear
      <4> QED BY <4>1, <4>2
    <3>4. CASE ClearIndexed(t) \/ (\E u \in User : DeleteCanvasHistory(u))
      BY <3>4 DEF ClearIndexed, DeleteCanvasHistory
    <3>5. CASE \E g \in Generation : Generate(g, t)
      BY <3>5 DEF Generate, clearVars
    <3>6. CASE \E g \in Generation : GenerateStep(g)
      <4> PICK g \in Generation : GenerateStep(g)
        BY <3>6
      <4>1. CASE FetchKey(g) \/ Upstream(g) \/ ShowImage(g) \/ MergeBack(g)
        BY <4>1 DEF FetchKey, Upstream, ShowImage, MergeBack, clearVars
      <4>2. CASE SaveToServer(g)
        BY <4>2 DEF SaveToServer, SaveCanvasHistory, clearVars
      <4>3. CASE FetchBack(g)
        <5>1. clearVars' = clearVars /\ (faults' = faults \/ Faulty)
          BY <4>3 DEF FetchBack
        <5> QED BY <5>1 DEF clearVars
      <4>6. CASE Finally(g)
        BY <4>6 DEF Finally, clearVars
      <4>4. CASE StoreLocal(g)
        BY <4>4 DEF StoreLocal, clearVars
      <4>5. CASE StoreIndexed(g)
        BY <4>5 DEF StoreIndexed, clearVars
      <4> QED BY <4>1, <4>2, <4>3, <4>4, <4>5, <4>6 DEF GenerateStep
    <3>7. CASE \E p \in posts : LateSave(p)
      BY <3>7 DEF LateSave, SaveCanvasHistory
    <3> QED BY <1>4, <3>1, <3>2, <3>3, <3>4, <3>5, <3>6, <3>7, <3>8, <3>9
  <2> QED BY <1>1, <2>1, SomeFault
<1> QED BY <1>2, <1>3, <1>4, OneTabSteps

LEMMA NextMirror ==
    ASSUME NEW t, OneTab(t), ApartInv, TurnInv(t), MirrorInv(t), [Next]_vars
    PROVE  MirrorInv(t)'
<1>0. SUFFICES ASSUME faults' = 0, ~mixed', ~crossed' PROVE Mirrors(t)'
  <2>1. ASSUME faults' = 0, ~mixed', ~crossed' PROVE PostsMirror'
    BY <2>1, StillClean, NextPosts DEF MirrorInv
  <2> QED BY <2>1 DEF MirrorInv
<1>1. t \in Tab /\ Tab = {t} /\ ~Overlapping /\ TypeOK /\ ~mixed /\ Mirrors(t) /\ PostsMirror
  BY <1>0, StillClean DEF OneTab, ApartInv, MirrorInv
<1>2. CASE \/ UNCHANGED vars \/ Connect(t) \/ Disconnect(t) \/ \E e \in Event : Deliver(t, e)
  BY <1>0, <1>1, <1>2, FrameFacts, FrameMirror
<1>3. CASE \/ \E u \in User : SwitchAccount(t, u) \/ SignInAgain(t, u)
           \/ Reload(t) \/ Unmount(t)
  BY <1>0, <1>1, <1>3, AwayFacts, AwayMirror
<1>4. CASE Mount(t)
  BY <1>0, <1>1, <1>4, MountMirror
<1>5. CASE Restore(t)
  BY <1>0, <1>1, <1>5, RestoreMirror
<1>6. CASE RefreshRead(t) \/ RefreshApply(t)
  BY <1>0, <1>1, <1>6, RefreshMirror
<1>7. CASE Clear(t)
  BY <1>0, <1>1, <1>7, ClearMirror
<1>8. CASE ClearIndexed(t) \/ \E u \in User : DeleteCanvasHistory(u)
  BY <1>0, <1>1, <1>8, DeleteMirror
<1>9. CASE \E g \in Generation : Generate(g, t)
  BY <1>0, <1>1, <1>9, GenerateMirror
<1>10. CASE \E g \in Generation : GenerateStep(g)
  BY <1>0, <1>1, <1>10, GenerateStepMirror
<1>11. CASE \E p \in posts : LateSave(p)
  BY <1>0, <1>1, <1>11, LateSaveMirror
<1> QED BY <1>2, <1>3, <1>4, <1>5, <1>6, <1>7, <1>8, <1>9, <1>10, <1>11, OneTabSteps

\* With one tab, whose user waits for the handlers that replace the list, the
\* canvas shows what the server has, and images of the time before at most, once
\* nothing is on its way: over any number of visits, reloads, left pages whose
\* saves go on, generations, refreshes and Clears, as long as nothing failed, no
\* account came in while something of another one was open or under way, no save
\* took effect after a Clear or after the next page had read, and no refresh
\* crossed a Clear.
THEOREM CanvasShowsServer ==
    ASSUME NEW t, OneTab(t) PROVE Spec => []ViewMatchesServer
<1>1. t \in Tab /\ Tab = {t}
  BY DEF OneTab
<1>2. Init => ApartInv /\ TurnInv(t) /\ MirrorInv(t)
  BY <1>1, InitApart, InitTurn, InitMirror
<1>3. ApartInv /\ TurnInv(t) /\ MirrorInv(t) /\ [Next]_vars
        => (ApartInv /\ TurnInv(t) /\ MirrorInv(t))'
  BY NextApart, NextTurn, NextMirror
<1>4. ApartInv /\ TurnInv(t) /\ MirrorInv(t) => ViewMatchesServer
  <2> SUFFICES ASSUME ApartInv, TurnInv(t), MirrorInv(t), faults = 0, ~mixed,
                      ~crossed, Quiet(t)
               PROVE  /\ server[tab[t].user] \subseteq tab[t].view
                      /\ tab[t].view \subseteq server[tab[t].user] \cup Legacy
    BY <1>1 DEF ViewMatchesServer
  <2>1. tab[t].user = session
    BY <1>1, AllOwn
  <2>2. restore[t].pc = "none" /\ \A g \in Generation : ~Runs(g)
    BY NoneRuns DEF Quiet
  <2>3. ShownMirrors(t)
    BY <2>2 DEF MirrorInv, Mirrors, CanvasMirrors, Quiet
  <2>4. Saving = {}
    BY <2>2 DEF Saving, Runs, Running
  <2> QED BY <2>1, <2>3, <2>4 DEF ShownMirrors
<1> QED BY <1>2, <1>3, <1>4, PTL DEF Spec
=============================================================================
