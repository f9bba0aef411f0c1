------------------------- MODULE PlaywrightBackend -------------------------
(***************************************************************************)
(* The browser tool: one backend object shared by every agent and by the    *)
(* approvals API. _ensure_page starts the driver, the browser and the page  *)
(* on first use, with an await between any two of them. A driver, browser   *)
(* or page is named by the call that started it.                            *)
(***************************************************************************)
EXTENDS Naturals

CONSTANTS
    Users,          \* the calls of the tool that may be under way
    Nothing

ASSUME PlaywrightAssumption == Nothing \notin Users

VARIABLES
    _playwright, _browser, _page,   \* the backend's attributes
    page_closed,    \* environment: pages that are closed
    browsers,       \* environment: browsers that are up
    shows,          \* environment: each page: the call that last navigated it
    at,             \* each call: where it is
    page,           \* each call: its local page
    overlapped      \* history: two first calls started a driver at once

attributes == <<_playwright, _browser, _page>>
browser    == <<attributes, page_closed, browsers, shows, at, page,
                overlapped>>

PlaywrightInit ==
    /\ _playwright = Nothing /\ _browser = Nothing /\ _page = Nothing
    /\ page_closed = {} /\ browsers = {}
    /\ shows = [u \in Users |-> Nothing]
    /\ at = [u \in Users |-> "out"]
    /\ page = [u \in Users |-> Nothing]
    /\ overlapped = FALSE

At(u, to) == at' = [at EXCEPT ![u] = to]

Raised(u) == At(u, "raised")

\* In the new state two calls wait for a driver.
Overlaps == \E u, v \in Users : u # v /\ at'[u] = "driver" /\ at'[v] = "driver"

\* Mutant: the browser is looked for instead of the driver.
EnsurePage_AsksBrowser(u) ==
    /\ at[u] = "out"
    /\ IF _page # Nothing /\ _page \notin page_closed
         THEN page' = [page EXCEPT ![u] = _page] /\ At(u, "use")
         ELSE /\ At(u, IF _browser = Nothing THEN "driver" ELSE "page")
              /\ UNCHANGED page
    /\ overlapped' = (overlapped \/ Overlaps)
    /\ UNCHANGED <<attributes, page_closed, browsers, shows>>

\* _ensure_page up to its first await. The browser is not asked for when the
\* driver is there: without one, new_context() is an AttributeError.
EnsurePage(u) ==
    /\ at[u] = "out"
    /\ IF _page # Nothing /\ _page \notin page_closed
         THEN page' = [page EXCEPT ![u] = _page] /\ At(u, "use")
         ELSE /\ At(u, CASE _playwright = Nothing -> "driver"
                         [] _playwright # Nothing /\ _browser # Nothing -> "page"
                         [] OTHER -> "raised")
              /\ UNCHANGED page
    /\ overlapped' = (overlapped \/ Overlaps)
    /\ UNCHANGED <<attributes, page_closed, browsers, shows>>

\* async_playwright().start() returns, or raises.
StartDriver(u) ==
    /\ at[u] = "driver"
    /\ \/ _playwright' = u /\ At(u, "launch")
       \/ UNCHANGED _playwright /\ Raised(u)
    /\ UNCHANGED <<_browser, _page, page_closed, browsers, shows, page,
                   overlapped>>

\* chromium.launch() returns, or raises: no browser is installed, say.
Launch(u) ==
    /\ at[u] = "launch"
    /\ \/ /\ browsers' = browsers \cup {u}
          /\ _browser' = u
          /\ At(u, "page")
       \/ UNCHANGED <<browsers, _browser>> /\ Raised(u)
    /\ UNCHANGED <<_playwright, _page, page_closed, shows, page, overlapped>>

\* new_context() and new_page().
OpenPage(u) ==
    /\ at[u] = "page"
    /\ _page' = u
    /\ page' = [page EXCEPT ![u] = u]
    /\ At(u, "use")
    /\ UNCHANGED <<_playwright, _browser, page_closed, browsers, shows,
                   overlapped>>

\* call(): goto loads another document into the page, everything else works on
\* what the page shows. Each method answers an error instead of raising, if the
\* page lets it end: a script that evaluate() runs need not.
Use(u) ==
    /\ at[u] = "use"
    /\ shows' = [shows EXCEPT ![page[u]] = u] \/ UNCHANGED shows
    /\ At(u, "over")
    /\ UNCHANGED <<attributes, page_closed, browsers, page, overlapped>>

\* The page crashes, or a script closes it.
ClosePage ==
    /\ _page # Nothing /\ _page \notin page_closed
    /\ page_closed' = page_closed \cup {_page}
    /\ UNCHANGED <<attributes, browsers, shows, at, page, overlapped>>

\* What comes back from the driver and the browser.
Driven(u) == StartDriver(u) \/ Launch(u) \/ OpenPage(u) \/ Use(u)

Browse(u) == EnsurePage(u) \/ Driven(u)
=============================================================================
