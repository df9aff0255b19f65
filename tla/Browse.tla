-------------------------------- MODULE Browse --------------------------------
(***************************************************************************)
(* Finding a pig in frontend/src: the first page, a pig, its live picture, *)
(* its farmer, "my pigs" and an invitation, with the requests that         *)
(* pig.service.ts and farmer.service.ts answer.  A page is opened over the *)
(* one with the tap, which stays as it is; it loads when it is opened, and *)
(* "my pigs" whenever it is shown.                                         *)
(* Bounds: Limit pages (10 in the program), Changes of the catalog, and    *)
(* Strays answers of live pages on their way or come too late.             *)
(* Pages of other modules are opened and left.                             *)
(***************************************************************************)
EXTENDS Naturals, Sequences, FiniteSets

CONSTANTS
  Pigs,        \* the newest has the greatest number
  FarmerOf,    \* the farmer of each pig, who gives its region
  Filmed,      \* pigs with a video
  Owned,       \* pigs of the user's paid orders
  Codes,       \* of invitations
  PageSize,    \* pigs that the first page asks for (20)
  Take,        \* pigs that a farmer's list has at most (20)
  Limit, Changes, Strays

ASSUME PigsAreNumbered == Pigs \subseteq Nat \ {0} /\ IsFiniteSet(Pigs)
ASSUME ListsAreBounded == {PageSize, Take, Strays} \subseteq Nat

VARIABLES
  onSale,      \* backend: the status of each pig, or "gone" when it was deleted
  changes,     \* changes of it so far
  session,     \* the user is logged in
  stack,       \* the pages, the last one is shown
  clocks,      \* intervals that run
  late,        \* answers on their way to live pages that were left
  leaked       \* history: those that came, each to start its intervals all the same

backend == <<onSale, changes>>
leaks == <<late, leaked>>
browseVars == <<backend, session, stack, clocks, leaks>>

Nothing == 0
PigStatus == {"draft", "listed", "sold_out", "closed"}
ListedPigs == {p \in Pigs : onSale[p] = "listed"}
PigsOf(f) == {p \in Pigs : FarmerOf[p] = f}
Newest(S) == CHOOSE p \in S : \A q \in S : q <= p
\* The first rows of a find that is ordered by createdAt, the newest first, and takes n.
FirstRows(S, n) ==
  {rows \in SUBSET S : /\ Cardinality(rows) = (IF Cardinality(S) <= n THEN Cardinality(S) ELSE n)
                       /\ \A p \in rows, q \in S \ rows : q < p}

(***************************************************************************)
(* The pages.                                                              *)
(***************************************************************************)
\* The query that each onLoad reads.
Query == [pig |-> "id", live |-> "pigId", farmer |-> "id", landing |-> "code", confirm |-> "pigId"]
Page(page, arg, load) == [page |-> page, arg |-> arg, load |-> load, shown |-> Nothing, read |-> <<>>]
Elsewhere == {"about", "messages", "foster", "my", "login"}
\* onLoad: a page without its parameter says so, and asks for nothing.
OnLoad(page, key, arg) ==
  IF Query[page] # key THEN Page(page, Nothing, "missing")
  ELSE Page(page, arg, IF page = "confirm" THEN "shown" ELSE "asked")

Here == stack[Len(stack)]
On(page) == Here.page = page
Shows(page) == On(page) /\ Here.load = "shown"
NavigateTo(p) ==
  /\ Len(stack) < Limit /\ stack' = Append(stack, p)
  /\ UNCHANGED <<backend, session, clocks, leaks>>
GoElsewhere(page) == NavigateTo(Page(page, Nothing, "shown"))
Put(p) == stack' = [stack EXCEPT ![Len(stack)] = p]

Live(pages, load) == Cardinality({i \in DOMAIN pages : pages[i].page = "live" /\ pages[i].load = load})
OpenLive(p) ==
  /\ Live(stack, "asked") + late + leaked < Strays   \* bound
  /\ NavigateTo(OnLoad("live", "pigId", p))
\* onUnmounted of the live page clears the intervals it has by then.
UnmountedTicking(pages) ==                                     \* mutant
  /\ UNCHANGED clocks
  /\ late' = late + Live(pages, "asked")
Unmounted(pages) ==
  /\ clocks' = clocks - 2 * Live(pages, "shown")
  /\ late' = late + Live(pages, "asked")
ReLaunch(p) ==
  /\ stack' = <<p>> /\ Unmounted(stack)
  /\ UNCHANGED <<backend, session, leaked>>

\* load of "my pigs": without a token it opens the page for login instead.
MyPigs == Page("mypigs", Nothing, "asked")
ShowMyPigs(below) ==
  IF session THEN Append(below, MyPigs)
  ELSE Append(below, [MyPigs EXCEPT !.load = "shown", !.shown = {}])
         \o (IF Len(below) + 1 < Limit THEN <<Page("login", Nothing, "shown")>> ELSE <<>>)
Back ==
  /\ Len(stack) > 1
  /\ LET left == SubSeq(stack, 1, Len(stack) - 1)
         top == left[Len(left)]
     IN  /\ stack' = IF top.page = "mypigs" THEN ShowMyPigs(SubSeq(left, 1, Len(left) - 1)) ELSE left
         /\ Unmounted(<<Here>>)
  /\ UNCHANGED <<backend, session, leaked>>

(***************************************************************************)
(* The first page.                                                         *)
(***************************************************************************)
Home == Page("home", Nothing, "asked")
HomeAnswered ==
  /\ On("home") /\ Here.load = "asked"
  /\ \E rows \in FirstRows(ListedPigs, PageSize) :
       Put([Here EXCEPT !.load = "shown", !.shown = rows])
  /\ UNCHANGED <<backend, session, clocks, leaks>>
HomeList == IF Here.load = "shown" THEN Here.shown ELSE {}
OnPigTap(p) == Shows("home") /\ p \in Here.shown /\ NavigateTo(OnLoad("pig", "id", p))
\* goFirstPig, goSharePig and goFirstLive: a toast while there is no list.
GoFirstPig == On("home") /\ HomeList # {} /\ NavigateTo(OnLoad("pig", "id", Newest(HomeList)))
GoFirstLive == On("home") /\ HomeList # {} /\ OpenLive(Newest(HomeList))
\* A pig of the region, else the first one.
GoFarmerPig(f) ==
  LET near == PigsOf(f) \cap HomeList
  IN  /\ On("home") /\ HomeList # {}
      /\ NavigateTo(OnLoad("pig", "id", Newest(IF near # {} THEN near ELSE HomeList)))
GoMyPigs ==
  /\ On("home") /\ Len(stack) < Limit
  /\ stack' = ShowMyPigs(stack)
  /\ UNCHANGED <<backend, session, clocks, leaks>>
GoPage == On("home") /\ \E page \in Elsewhere \ {"login"} : GoElsewhere(page)

(***************************************************************************)
(* A pig: its two requests are answered together, whatever its status is.  *)
(***************************************************************************)
PigAnswered ==
  /\ On("pig") /\ Here.load = "asked" /\ onSale[Here.arg] # "gone"
  /\ Put([Here EXCEPT !.load = "shown", !.shown = onSale[Here.arg]])
  /\ UNCHANGED <<backend, session, clocks, leaks>>
OnPlayVideo == Shows("pig") /\ Here.arg \in Filmed /\ OpenLive(Here.arg)
GoFarmer == Shows("pig") /\ NavigateTo(OnLoad("farmer", "id", FarmerOf[Here.arg]))
\* Only a pig that is sold out is refused, neither a draft nor one that is closed (which
\* create of orders refuses later).
OnOrder ==
  /\ Shows("pig") /\ Here.shown # "sold_out"
  /\ NavigateTo(OnLoad("confirm", "pigId", Here.arg))

(***************************************************************************)
(* Its live picture, with two intervals.                                   *)
(***************************************************************************)
LiveAnswered ==
  /\ On("live") /\ Here.load = "asked" /\ onSale[Here.arg] # "gone"
  /\ Put([Here EXCEPT !.load = "shown"])
  /\ clocks' = clocks + 2
  /\ UNCHANGED <<backend, session, leaks>>
\* The page was left: load goes on and starts both, and no onUnmounted is to come.  Or the
\* request fails.
LateAnswer ==
  /\ late > 0 /\ late' = late - 1
  /\ \/ clocks' = clocks + 2 /\ leaked' = leaked + 1
     \/ UNCHANGED <<clocks, leaked>>
  /\ UNCHANGED <<backend, session, stack>>
OnOrderLive == Shows("live") /\ NavigateTo(OnLoad("confirm", "pigId", Here.arg))

(***************************************************************************)
(* Its farmer: getFarmer counts the pigs, and getFarmerPigs lists the      *)
(* newest of them.                                                         *)
(* read has the change of the catalog at which each was read.              *)
(***************************************************************************)
Reads(what, value) ==
  /\ On("farmer") /\ Here.load = "asked"
  /\ what \notin DOMAIN Here.read
  /\ Put([Here EXCEPT !.read = [w \in DOMAIN Here.read \cup {what} |->
             IF w = what THEN [value |-> value, at |-> changes] ELSE Here.read[w]]])
  /\ UNCHANGED <<backend, session, clocks, leaks>>
GetFarmer == Reads("count", Cardinality(PigsOf(Here.arg) \cap ListedPigs))
GetFarmerPigs == \E rows \in FirstRows(PigsOf(Here.arg) \cap ListedPigs, Take) : Reads("pigs", rows)
FarmerAnswered ==
  /\ On("farmer") /\ Here.load = "asked" /\ DOMAIN Here.read = {"count", "pigs"}
  /\ Put([Here EXCEPT !.load = "shown", !.shown = Here.read["pigs"].value])
  /\ UNCHANGED <<backend, session, clocks, leaks>>
GoPig(p) == Shows("farmer") /\ p \in Here.shown /\ NavigateTo(OnLoad("pig", "id", p))

(***************************************************************************)
(* My pigs, and an invitation.                                             *)
(***************************************************************************)
MyPigsAnswered ==
  /\ On("mypigs") /\ Here.load = "asked"
  /\ Put([Here EXCEPT !.load = "shown", !.shown = Owned])
  /\ UNCHANGED <<backend, session, clocks, leaks>>
OnOpen(p) == Shows("mypigs") /\ p \in Here.shown /\ NavigateTo(OnLoad("pig", "id", p))
GoHome == Shows("mypigs") /\ Here.shown = {} /\ ReLaunch(Home)
LandingAnswered ==
  /\ On("landing") /\ Here.load = "asked"
  /\ \E p \in Pigs :
       Put([Here EXCEPT !.load = "shown", !.shown = IF onSale[p] = "gone" THEN Nothing ELSE p])
  /\ UNCHANGED <<backend, session, clocks, leaks>>
\* goPig: without a pig in the answer it opens the first page.
LandingPig ==
  /\ Shows("landing")
  /\ ReLaunch(IF Here.shown = Nothing THEN Home ELSE OnLoad("pig", "id", Here.shown))

\* The page says what was wrong, and has no other way than back.
LoadFails ==
  /\ Here.load = "asked"
  /\ Put([Here EXCEPT !.load = "failed"])
  /\ UNCHANGED <<backend, session, clocks, leaks>>
\* The administrator edits, closes, relists or deletes a pig, a payment sells the last share,
\* or a refund releases one.
CatalogChanges ==
  /\ changes < Changes /\ changes' = changes + 1
  /\ \E p \in Pigs, s \in PigStatus \cup {"gone"} :
       onSale[p] # "gone" /\ onSale[p] # s /\ onSale' = [onSale EXCEPT ![p] = s]
  /\ UNCHANGED <<session, stack, clocks, leaks>>

\* The program is opened at the first page, or from an invitation, perhaps without its code.
BrowseInit ==
  /\ onSale = [p \in Pigs |-> "listed"] /\ changes = 0
  /\ session \in BOOLEAN
  /\ stack \in {<<Home>>, <<OnLoad("landing", "", Nothing)>>} \cup {<<OnLoad("landing", "code", c)>> : c \in Codes}
  /\ clocks = 0 /\ late = 0 /\ leaked = 0

BrowseNext ==
  \/ Back \/ HomeAnswered \/ GoFirstPig \/ GoFirstLive \/ GoMyPigs \/ GoPage
  \/ \E p \in Pigs : OnPigTap(p) \/ GoPig(p) \/ OnOpen(p) \/ GoFarmerPig(FarmerOf[p])
  \/ PigAnswered \/ OnPlayVideo \/ GoFarmer \/ OnOrder
  \/ LiveAnswered \/ LateAnswer \/ OnOrderLive
  \/ GetFarmer \/ GetFarmerPigs \/ FarmerAnswered
  \/ MyPigsAnswered \/ GoHome \/ LandingAnswered \/ LandingPig
  \/ LoadFails \/ CatalogChanges

BrowseSpec == BrowseInit /\ [][BrowseNext]_browseVars

(***************************************************************************)
(* Properties.                                                             *)
(***************************************************************************)

\* Every page is about a pig, a farmer or an invitation that there may be.
BrowseTypeOK ==
  \A i \in DOMAIN stack :
    /\ stack[i].load \in {"asked", "shown", "failed", "missing"}
    /\ stack[i].page \in {"pig", "live", "confirm"} /\ stack[i].load # "missing" => stack[i].arg \in Pigs
    /\ stack[i].page = "farmer" => stack[i].arg \in {FarmerOf[p] : p \in Pigs}

\* Every page that a tap opens finds its parameter: only an invitation from outside may be
\* without its code (pig/detail.vue:259, live/index.vue:181, farmer/detail.vue:134).
ParametersFit == \A i \in DOMAIN stack : stack[i].load = "missing" => stack[i].page = "landing"

\* A live page stops its intervals however it is left.  The intervals that run are those of
\* the live pages that are open, and for ever those of the answers that came after their page
\* was left, when nothing is left to stop them (live/index.vue:164-170): no others leak.
TimersStop == clocks = 2 * (Live(stack, "shown") + leaked)

\* The page of a pig leads on to its own pig, and to an order unless it shows the pig as sold
\* out: also of a draft or a closed pig, which it shows like any other (pig/detail.vue:246).
OrderAsShown ==
  \A i \in DOMAIN stack :
    i > 1 /\ stack[i].page \in {"confirm", "live"} /\ stack[i-1].page \in {"pig", "live"} =>
      /\ stack[i].arg = stack[i-1].arg
      /\ stack[i].page = "confirm" /\ stack[i-1].page = "pig" => stack[i-1].shown # "sold_out"

\* The number of pigs for sale that the page of a farmer gives is that of the pigs it lists,
\* as far as the list goes (farmer.service.ts:57), unless the catalog changed between the two
\* requests.
FarmerCounts ==
  \A i \in DOMAIN stack :
    stack[i].page = "farmer" /\ stack[i].load = "shown" =>
      LET read == stack[i].read
      IN  read["count"].at = read["pigs"].at =>
            Cardinality(stack[i].shown) =
              (IF read["count"].value <= Take THEN read["count"].value ELSE Take)

\* The pages that browse pass each other their parameters, stop what they started, and show
\* numbers that agree (pig, live, farmer and landing pages).
BrowseInv == BrowseTypeOK /\ ParametersFit /\ TimersStop /\ OrderAsShown /\ FarmerCounts

=============================================================================
