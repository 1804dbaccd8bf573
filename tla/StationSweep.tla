---------------------------- MODULE StationSweep ----------------------------
(* How the collectors that ask one station at a time share a long list of stations over many      *)
(* runs: a cursor that says where the next run goes on, kept in provider_cursors or in memory.    *)
EXTENDS Naturals, FiniteSets

CONSTANTS
  StationCount,  \* stations that may be listed, in the order of their codes
  PageSize,      \* WAQI_STATION_PAGE_SIZE, ADVANCED_METRICS_PAGE_SIZE or a collector's limit
  Unplaced       \* stations with neither coordinates nor a name to ask for

ASSUME SweepAssumption ==
  /\ StationCount \in Nat \ {0} /\ PageSize \in Nat \ {0} /\ Unplaced \subseteq 1..StationCount

Stations == 1..StationCount

\* Pages of the stations table until a time budget ends (WAQI and Advanced), the whole of a
\* provider's list in windows (NOAA), or one window a run, by a cursor that is saved (Sensor
\* Community, NDBC) or in memory (WAQI's index, Open-Meteo, MET Norway).
Sweeps == {"pages", "rounds", "window", "window in memory"}

VARIABLES
  sweep,   \* the kind of collector that runs
  listed,  \* the stations listed; discovery adds to them
  cursor,  \* provider_cursors, or a batch cursor in memory
  pass,    \* the run: the page's offset and size, what is left to ask and how many were asked
  asked    \* the station that was asked last

sweepVars == <<sweep, listed, cursor, pass, asked>>

NoPage == [offset |-> 0, size |-> 0, left |-> {}, done |-> 0]
Pass(at, page, rest) == [at |-> at, page |-> page, rest |-> rest]

\* A pass that fails or is killed is "cut"; one whose budget ended within a short page has "left"
\* stations behind, as the next pass begins at the start.
SweepTypeOK ==
  /\ sweep \in Sweeps /\ listed \subseteq Stations /\ cursor \in 0..StationCount
  /\ pass \in [at : {"timer", "reads", "asks", "cut", "left"}, rest : 0..StationCount,
               page : [offset : 0..StationCount, size : 0..PageSize,
                       left : SUBSET Stations, done : 0..PageSize]]
  /\ asked \in 0..StationCount

SweepInit ==
  /\ sweep \in Sweeps /\ listed = {} /\ cursor = 0
  /\ pass = Pass("timer", NoPage, 0) /\ asked = 0

----------------------------------------------------------------------------
Total == Cardinality(listed)
Place(s) == Cardinality({t \in listed : t < s})

\* getStationsByProviderPage, getOwmStationsPage: LIMIT and OFFSET.
Page(offset, limit) == {s \in listed : Place(s) >= offset /\ Place(s) < offset + limit}
\* buildRotatingSlice
Window(start, limit) ==
  {s \in listed : (Place(s) + Total - (start % Total)) % Total < limit}

BetweenRuns == pass.at \in {"timer", "cut", "left"}

RunStarts ==
  /\ BetweenRuns
  /\ pass' = Pass("reads", NoPage, IF sweep = "pages" THEN 0 ELSE Total)
  /\ UNCHANGED <<sweep, listed, cursor, asked>>

Placed(page) == IF sweep = "pages" THEN page \ Unplaced ELSE page
Short(size)  == size < PageSize

\* A page of the table; the cursor goes back to the start behind the end, and passes a page that
\* holds no station it could ask.
ReadPage ==
  /\ pass.at = "reads" /\ sweep = "pages"
  /\ LET page == Page(cursor, PageSize)
         size == Cardinality(page)
         ends == Pass("timer", NoPage, 0)
     IN  CASE size = 0 ->
                cursor' = 0 /\ pass' = ends
           [] size > 0 /\ Placed(page) = {} ->
                IF Short(size) THEN cursor' = 0 /\ pass' = ends
                               ELSE cursor' = cursor + size /\ pass' \in {pass, ends}
           [] OTHER ->
                /\ pass' = Pass("asks", [offset |-> cursor, size |-> size,
                                         left |-> Placed(page), done |-> 0], 0)
                /\ UNCHANGED cursor
  /\ UNCHANGED <<sweep, listed, asked>>

\* The next window of the list. The cursor is moved on before its stations are asked.
ReadWindow ==
  /\ pass.at = "reads" /\ sweep # "pages"
  /\ LET limit  == IF PageSize < pass.rest THEN PageSize ELSE pass.rest
         window == Window(cursor, limit)
         size   == Cardinality(window)
     IN  IF Total = 0 \/ size = 0
         THEN pass' = Pass("timer", NoPage, 0) /\ UNCHANGED cursor
         ELSE /\ pass' = Pass("asks", [offset |-> cursor, size |-> size, left |-> window, done |-> 0],
                              pass.rest - size)
              /\ cursor' = (cursor + size) % Total
  /\ UNCHANGED <<sweep, listed, asked>>

\* A chunk of the page is asked; a station that fails or answers in vain was asked all the same.
AskStation ==
  /\ pass.at = "asks" /\ pass.page.left # {}
  /\ asked' = CHOOSE s \in pass.page.left : \A t \in pass.page.left : s <= t
  /\ pass' = [pass EXCEPT !.page.left = @ \ {asked'}, !.page.done = @ + 1]
  /\ UNCHANGED <<sweep, listed, cursor>>

NextOffsetAsQueried(page) == page.offset + page.size
NextOffset(page)          == page.offset + page.done

\* The page is through, or the budget ran out: the cursor is set to what was asked, and to the
\* start behind a short page whether all of it was asked or not.
PageEnds ==
  /\ pass.at = "asks"
  /\ sweep # "pages" => pass.page.left = {}
  /\ LET short == sweep = "pages" /\ Short(pass.page.size)
         over  == (sweep = "rounds" /\ pass.rest = 0) \/ sweep \in {"window", "window in memory"}
     IN  /\ cursor' = IF sweep # "pages" THEN cursor
                      ELSE IF short THEN 0 ELSE NextOffset(pass.page)
         /\ \E at \in {"reads", "timer", "left"} :
              /\ at = "left"  <=> short /\ pass.page.left # {}
              /\ at = "reads"  => ~short /\ ~over /\ pass.page.left = {}
              /\ pass' = Pass(at, NoPage, IF at = "reads" THEN pass.rest ELSE 0)
  /\ UNCHANGED <<sweep, listed, asked>>

\* The database fails a query, or the process exits: what is asked since the cursor was written
\* is asked again, or, of a window, skipped. A cursor in memory is lost.
RunIsCut ==
  /\ pass.at \in {"reads", "asks"} /\ pass' = Pass("cut", NoPage, 0)
  /\ cursor' = IF sweep = "window in memory" THEN 0 ELSE cursor
  /\ UNCHANGED <<sweep, listed, asked>>

\* Discovery and the seeding scripts put stations into the list. Windows are cut from a list that
\* is fetched as the run starts, so for them a station comes between two runs.
StationIsListed(s) ==
  /\ s \notin listed /\ listed' = listed \cup {s}
  /\ sweep = "pages" \/ BetweenRuns
  /\ UNCHANGED <<sweep, cursor, pass, asked>>

SweepStep == RunStarts \/ ReadPage \/ ReadWindow \/ AskStation \/ PageEnds
SweepNext == SweepStep \/ RunIsCut \/ \E s \in Stations : StationIsListed(s)

SweepSpec == SweepInit /\ [][SweepNext]_sweepVars

----------------------------------------------------------------------------
\* As long as runs do not fail or are killed again and again, a station that is listed and can be
\* asked is asked again and again, wherever the budget ends the runs and wherever new stations come
\* in between, if a whole page of the list is at or behind it. The last stations are asked again and
\* again if the budget does not end within the short page there time and again: each time it does,
\* the cursor goes back to the start, and what a budget never reaches is left out for good.
EveryStationAsked ==
  \A s \in Stations \ Unplaced :
    /\ <>[](pass.at # "cut" /\ s \in listed /\ Place(s) + PageSize <= Total) => []<>(asked = s)
    /\ <>[](pass.at \notin {"cut", "left"} /\ s \in listed) => []<>(asked = s)
=============================================================================
