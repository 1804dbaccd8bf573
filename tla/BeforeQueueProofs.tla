------------------------- MODULE BeforeQueueProofs --------------------------
(* Theorems about what stands before the queue: StationSweep, ProviderFetch, EmscSocket, Collector*)
(* and WriteDryMode, for any number of stations, calls, sockets, readings and wallets.            *)
EXTENDS StationSweep, ProviderFetch, EmscSocket, Collector, WriteDryMode, NumberLemmas

----------------------------------------------------------------------------
(* StationSweep: types. A page or a window is counted by the places of its stations in the list,  *)
(* and what is asked of it by its size.                                                           *)

PassPage == [offset : 0..StationCount, size : 0..PageSize, left : SUBSET Stations, done : 0..PageSize]
PassRecord == [at : {"timer", "reads", "asks", "cut", "left"}, rest : 0..StationCount, page : PassPage]

\* What a page has left to ask and what it has asked come from its rows, and the rows of a page of
\* the table are rows of the list.
PageIsPart ==
  pass.at = "asks" =>
    /\ pass.page.done + Cardinality(pass.page.left) <= pass.page.size
    /\ sweep = "pages" => pass.page.offset + pass.page.size <= StationCount

SweepInv == SweepTypeOK /\ PageIsPart

LEMMA ListFinite ==
  ASSUME SweepTypeOK, NEW S \in SUBSET Stations
  PROVE  IsFiniteSet(S) /\ S \in SUBSET Nat /\ Cardinality(S) \in 0..StationCount
<1>1. IsFiniteSet(1..StationCount) /\ Cardinality(1..StationCount) = StationCount
  BY SweepAssumption, FS_Interval DEF SweepAssumption
<1>2. IsFiniteSet(S) /\ Cardinality(S) <= StationCount BY <1>1, FS_Subset DEF Stations
<1>3. Cardinality(S) \in Nat BY <1>2, FS_CardinalityType
<1>4. S \in SUBSET Nat BY SweepAssumption DEF SweepAssumption, Stations
<1> QED BY <1>2, <1>3, <1>4, SweepAssumption DEF SweepAssumption

LEMMA PassIs ==
  ASSUME NEW at \in {"timer", "reads", "asks", "cut", "left"}, NEW page \in PassPage,
         NEW rest \in 0..StationCount
  PROVE  /\ Pass(at, page, rest) \in PassRecord
         /\ Pass(at, page, rest).at = at /\ Pass(at, page, rest).page = page
BY DEF Pass, PassRecord

LEMMA SweepParts ==
  ASSUME SweepTypeOK
  PROVE  /\ pass \in PassRecord
         /\ pass.page \in PassPage /\ pass.rest \in 0..StationCount
         /\ pass.page.left \in SUBSET Stations
         /\ pass.page.size \in Nat /\ pass.page.done \in Nat /\ pass.page.offset \in Nat
         /\ pass.page.size <= PageSize
<1>1. pass \in PassRecord BY DEF SweepTypeOK, PassRecord, PassPage
<1>2. pass.page \in PassPage /\ pass.rest \in 0..StationCount BY <1>1 DEF PassRecord
<1> QED BY <1>1, <1>2, SweepAssumption DEF PassPage, SweepAssumption

LEMMA PageIs ==
  ASSUME NEW offset \in 0..StationCount, NEW size \in 0..PageSize, NEW left \in SUBSET Stations,
         NEW done \in 0..PageSize
  PROVE  [offset |-> offset, size |-> size, left |-> left, done |-> done] \in PassPage
BY DEF PassPage

LEMMA NoPageIs == NoPage \in PassPage /\ 0 \in 0..StationCount /\ 0 \in 0..PageSize
BY SweepAssumption DEF NoPage, PassPage, SweepAssumption

LEMMA SweepInitInv == SweepInit => SweepInv
<1> SUFFICES ASSUME SweepInit PROVE SweepInv OBVIOUS
<1>1. pass \in PassRecord /\ pass.at = "timer" BY NoPageIs, PassIs DEF SweepInit
<1>2. SweepTypeOK BY <1>1, NoPageIs DEF SweepInit, SweepTypeOK, PassRecord, PassPage
<1> QED BY <1>1, <1>2 DEF SweepInv, PageIsPart

\* A run between two pages or at rest.
LEMMA AtNoPage ==
  ASSUME SweepInv, NEW at \in {"timer", "reads", "cut", "left"}, NEW rest \in 0..StationCount,
         pass' = Pass(at, NoPage, rest), cursor' \in 0..StationCount,
         UNCHANGED <<sweep, listed, asked>>
  PROVE  SweepInv'
<1>1. pass' \in PassRecord /\ pass'.at = at BY NoPageIs, PassIs
<1> QED BY <1>1 DEF SweepInv, SweepTypeOK, PageIsPart, PassRecord, PassPage

LEMMA RunStartsInv == ASSUME SweepInv, RunStarts PROVE SweepInv'
<1>1. Total \in 0..StationCount BY ListFinite DEF SweepInv, SweepTypeOK, Total
<1>2. (IF sweep = "pages" THEN 0 ELSE Total) \in 0..StationCount BY <1>1, NoPageIs
<1> QED BY <1>2, AtNoPage DEF RunStarts, SweepInv, SweepTypeOK

\* A page of the table holds at most PageSize rows, and ends within the list.
LEMMA PageOfTable ==
  ASSUME SweepTypeOK
  PROVE  /\ Page(cursor, PageSize) \in SUBSET Stations
         /\ Cardinality(Page(cursor, PageSize)) \in 0..PageSize
         /\ Cardinality(Page(cursor, PageSize)) > 0 =>
              cursor + Cardinality(Page(cursor, PageSize)) \in 0..StationCount
<1> DEFINE P == Page(cursor, PageSize)
<1>1. P = {s \in listed : Rank(listed, s) >= cursor /\ Rank(listed, s) < cursor + PageSize}
  BY DEF Page, Place, Rank
<1>2. IsFiniteSet(listed) /\ listed \in SUBSET Nat /\ Cardinality(listed) \in 0..StationCount
  BY ListFinite DEF SweepTypeOK
<1>3. cursor \in Nat /\ PageSize \in Nat /\ StationCount \in Nat
  BY SweepAssumption DEF SweepTypeOK, SweepAssumption
<1>4. P \in SUBSET listed /\ P \in SUBSET Stations BY <1>1 DEF SweepTypeOK
<1>5. \A s \in P : Rank(listed, s) >= cursor BY <1>1
<1> HIDE DEF P
<1>6. IsFiniteSet(P) /\ Cardinality(P) \in Nat /\ Cardinality(P) <= PageSize
  BY <1>1, <1>2, <1>3, PageSizes
<1>7. ASSUME Cardinality(P) > 0 PROVE cursor + Cardinality(P) <= Cardinality(listed)
  <2>1. P # {} BY <1>6, <1>7, FS_EmptySet
  <2> QED BY <1>2, <1>3, <1>4, <1>5, <2>1, PageWithin
<1>8. Cardinality(P) \in 0..PageSize BY <1>3, <1>6
<1>9. Cardinality(P) > 0 => cursor + Cardinality(P) \in 0..StationCount
  BY <1>2, <1>3, <1>6, <1>7
<1> QED BY <1>4, <1>8, <1>9 DEF P

LEMMA ReadPageInv == ASSUME SweepInv, ReadPage PROVE SweepInv'
<1> DEFINE page == Page(cursor, PageSize)
           size == Cardinality(page)
           ends == Pass("timer", NoPage, 0)
<1>1. page \in SUBSET Stations /\ size \in 0..PageSize /\ (size > 0 => cursor + size \in 0..StationCount)
  BY PageOfTable DEF SweepInv
<1>2. SweepTypeOK /\ UNCHANGED <<sweep, listed, asked>> BY DEF SweepInv, ReadPage
<1>3. CASE cursor' \in 0..StationCount /\ pass' \in {pass, ends}
  <2>1. CASE pass' = ends BY <1>2, <1>3, <2>1, NoPageIs, AtNoPage
  <2>2. CASE pass' = pass
    <3>1. pass.at = "reads" BY DEF ReadPage
    <3> QED BY <1>2, <1>3, <2>2, <3>1 DEF SweepInv, SweepTypeOK, PageIsPart
  <2> QED BY <1>3, <2>1, <2>2
<1>4. CASE /\ size > 0 /\ UNCHANGED cursor
           /\ pass' = Pass("asks", [offset |-> cursor, size |-> size, left |-> Placed(page), done |-> 0], 0)
  <2> DEFINE asks == [offset |-> cursor, size |-> size, left |-> Placed(page), done |-> 0]
  <2>1. Placed(page) \in SUBSET Stations /\ Placed(page) \in SUBSET page BY <1>1 DEF Placed
  <2>2. Cardinality(Placed(page)) <= size /\ Cardinality(Placed(page)) \in Nat
    <3>1. IsFiniteSet(page) BY <1>1, <1>2, ListFinite
    <3> HIDE DEF page
    <3> QED BY <2>1, <3>1, FS_Subset, FS_CardinalityType
  <2>3. cursor \in 0..StationCount BY <1>2 DEF SweepTypeOK
  <2> HIDE DEF page, size
  <2>4. asks \in PassPage BY <1>1, <2>1, <2>3, NoPageIs, PageIs
  <2>5. pass' \in PassRecord /\ pass'.at = "asks" /\ pass'.page = asks BY <1>4, <2>4, NoPageIs, PassIs
  <2>6. SweepTypeOK' BY <1>2, <1>4, <2>5 DEF SweepTypeOK, PassRecord, PassPage
  <2>7. cursor + size <= StationCount BY <1>1, <1>4
  <2>8. PageIsPart' BY <1>1, <2>2, <2>5, <2>7 DEF PageIsPart
  <2> QED BY <2>6, <2>8 DEF SweepInv
<1>5. \/ cursor' \in 0..StationCount /\ pass' \in {pass, ends}
      \/ /\ size > 0 /\ UNCHANGED cursor
         /\ pass' = Pass("asks", [offset |-> cursor, size |-> size, left |-> Placed(page), done |-> 0], 0)
  <2>1. cursor \in 0..StationCount BY <1>2 DEF SweepTypeOK
  <2>2. CASE size = 0
    <3>1. cursor' = 0 /\ pass' = ends BY <2>2 DEF ReadPage
    <3> QED BY <3>1, NoPageIs
  <2>3. CASE size > 0 /\ Placed(page) = {}
    <3>1. \/ cursor' = 0 /\ pass' = ends
          \/ cursor' = cursor + size /\ pass' \in {pass, ends}
      <4>1. ~(size = 0) BY <1>1, <2>3
      <4> QED BY <2>3, <4>1 DEF ReadPage
    <3>2. cursor + size \in 0..StationCount BY <1>1, <2>3
    <3> HIDE DEF size, ends
    <3> QED BY <3>1, <3>2, NoPageIs
  <2>4. CASE size > 0 /\ Placed(page) # {}
    <3>1. ~(size = 0) BY <1>1, <2>4
    <3> QED BY <2>4, <3>1 DEF ReadPage
  <2> QED BY <1>1, <2>2, <2>3, <2>4
<1> QED BY <1>3, <1>4, <1>5

\* Turned by the cursor, the places of the listed stations stay apart: a window is no longer than
\* its limit.
LEMMA WindowOfList ==
  ASSUME SweepTypeOK, Total # 0, NEW limit \in Nat
  PROVE  /\ Window(cursor, limit) \in SUBSET Stations
         /\ Cardinality(Window(cursor, limit)) \in 0..limit
<1> DEFINE W == Window(cursor, limit)
           k == Total - (cursor % Total)
           place == [s \in W |-> (Rank(listed, s) + k) % Total]
<1>1. IsFiniteSet(listed) /\ listed \in SUBSET Nat /\ Total \in Nat \ {0} /\ Total = Cardinality(listed)
  BY ListFinite DEF SweepTypeOK, Total
<1>2. k \in 1..Total
  <2>1. cursor \in Nat BY SweepAssumption DEF SweepTypeOK, SweepAssumption
  <2>2. cursor % Total \in 0..(Total - 1) BY <1>1, <2>1, RemainderRange
  <2> QED BY <1>1, <2>2
<1>3. \A s \in listed : Rank(listed, s) \in 0..(Total - 1) BY <1>1, RankBound
<1>4. \A s \in listed : (Place(s) + Total - (cursor % Total)) % Total = (Rank(listed, s) + k) % Total
  <2>1. ASSUME NEW s \in listed PROVE Place(s) + Total - (cursor % Total) = Rank(listed, s) + k
    <3>1. Place(s) = Rank(listed, s) BY DEF Place, Rank
    <3>2. cursor % Total \in Int
      <4>1. cursor \in Nat BY SweepAssumption DEF SweepTypeOK, SweepAssumption
      <4>2. cursor % Total \in 0..(Total - 1) BY <1>1, <4>1, RemainderRange
      <4> QED BY <4>2
    <3>3. Rank(listed, s) \in Int /\ Total \in Int BY <1>1, <1>3
    <3> QED BY <3>1, <3>2, <3>3
  <2> QED BY <2>1
<1>5. W = {s \in listed : (Rank(listed, s) + k) % Total < limit} BY <1>4 DEF Window
<1>6. W \in SUBSET listed /\ W \in SUBSET Stations BY <1>5 DEF SweepTypeOK
<1> HIDE DEF W, k
<1>7. ASSUME NEW s \in W PROVE (Rank(listed, s) + k) % Total \in 0..(limit - 1)
  <2>1. (Rank(listed, s) + k) % Total < limit BY <1>5
  <2>2. Rank(listed, s) + k \in Nat BY <1>1, <1>2, <1>3, <1>6
  <2>3. (Rank(listed, s) + k) % Total \in Nat BY <1>1, <2>2, RemainderRange
  <2> QED BY <2>1, <2>3
<1>8. ASSUME NEW s \in W, NEW t \in W, s # t PROVE place[s] # place[t]
  <2>1. s \in listed /\ t \in listed /\ s \in Nat /\ t \in Nat BY <1>1, <1>6
  <2>2. Rank(listed, s) # Rank(listed, t)
    <3>1. s < t \/ t < s BY <1>8, <2>1
    <3>2. Rank(listed, s) < Rank(listed, t) \/ Rank(listed, t) < Rank(listed, s)
      BY <1>1, <2>1, <3>1, RankGrows
    <3>3. Rank(listed, s) \in Nat /\ Rank(listed, t) \in Nat BY <1>3, <2>1
    <3> QED BY <3>2, <3>3
  <2> QED BY <1>1, <1>2, <1>3, <2>1, <2>2, TurnKeepsApart
<1>9. place \in [W -> 0..(limit - 1)] BY <1>7
<1> HIDE DEF place
<1>10. IsFiniteSet(W) /\ Cardinality(W) <= limit BY <1>8, <1>9, NoMoreThanPlaces
<1>11. Cardinality(W) \in Nat BY <1>10, FS_CardinalityType
<1> QED BY <1>6, <1>10, <1>11 DEF W

LEMMA ReadWindowInv == ASSUME SweepInv, ReadWindow PROVE SweepInv'
<1> DEFINE limit  == IF PageSize < pass.rest THEN PageSize ELSE pass.rest
           window == Window(cursor, limit)
           size   == Cardinality(window)
<1>1. SweepTypeOK /\ UNCHANGED <<sweep, listed, asked>> /\ sweep # "pages" BY DEF SweepInv, ReadWindow
<1>2. limit \in 0..PageSize /\ limit \in 0..pass.rest /\ pass.rest \in 0..StationCount
  BY <1>1, SweepParts, SweepAssumption DEF SweepAssumption
<1>3. CASE Total = 0 \/ size = 0
  <2>1. pass' = Pass("timer", NoPage, 0) /\ UNCHANGED cursor BY <1>3 DEF ReadWindow
  <2>2. cursor' \in 0..StationCount BY <1>1, <2>1 DEF SweepTypeOK
  <2> QED BY <1>1, <2>1, <2>2, NoPageIs, AtNoPage
<1>4. CASE ~(Total = 0 \/ size = 0)
  <2> DEFINE asks == [offset |-> cursor, size |-> size, left |-> window, done |-> 0]
  <2>1. pass' = Pass("asks", asks, pass.rest - size) /\ cursor' = (cursor + size) % Total
    BY <1>4 DEF ReadWindow
  <2>2. window \in SUBSET Stations /\ size \in 0..limit
    <3>1. limit \in Nat BY <1>2
    <3> HIDE DEF limit
    <3> QED BY <1>1, <1>4, <3>1, WindowOfList
  <2>3. size \in 0..PageSize /\ pass.rest - size \in 0..StationCount
    <3> HIDE DEF limit, window, size
    <3> QED BY <1>2, <2>2, SweepAssumption DEF SweepAssumption
  <2>4. cursor \in 0..StationCount BY <1>1 DEF SweepTypeOK
  <2> HIDE DEF limit, window, size
  <2>5. asks \in PassPage BY <2>2, <2>3, <2>4, NoPageIs, PageIs
  <2>6. pass' \in PassRecord /\ pass'.at = "asks" /\ pass'.page = asks BY <2>1, <2>3, <2>5, PassIs
  <2>7. cursor' \in 0..StationCount
    <3>1. Total \in Nat \ {0} /\ Total <= StationCount /\ StationCount \in Nat
      BY <1>1, <1>4, ListFinite, SweepAssumption DEF SweepTypeOK, Total, SweepAssumption
    <3>2. cursor + size \in Nat BY <2>3, <2>4, SweepAssumption DEF SweepAssumption
    <3>3. (cursor + size) % Total \in 0..(Total - 1) BY <3>1, <3>2, RemainderRange
    <3> QED BY <2>1, <3>1, <3>3
  <2>8. SweepTypeOK' BY <1>1, <2>6, <2>7 DEF SweepTypeOK, PassRecord, PassPage
  <2>9. PageIsPart'
    <3>1. Cardinality(window) = size BY DEF size
    <3>2. 0 + size <= size BY <2>3
    <3> QED BY <1>1, <2>6, <3>1, <3>2 DEF PageIsPart
  <2> QED BY <2>8, <2>9 DEF SweepInv
<1> QED BY <1>3, <1>4

LEMMA AskStationInv == ASSUME SweepInv, AskStation PROVE SweepInv'
<1> DEFINE left == pass.page.left
           page == [pass.page EXCEPT !.left = left \ {asked'}, !.done = pass.page.done + 1]
<1>1. SweepTypeOK /\ UNCHANGED <<sweep, listed, cursor>> /\ pass.at = "asks" /\ left # {}
  BY DEF SweepInv, AskStation
<1>2. left \in SUBSET Stations /\ IsFiniteSet(left) /\ left \in SUBSET Nat /\ Cardinality(left) \in Nat
  BY <1>1, SweepParts, ListFinite
<1>3. asked' \in left
  <2>1. \E s \in left : \A t \in left : s <= t BY <1>1, <1>2, HasLeast
  <2>2. asked' = CHOOSE s \in left : \A t \in left : s <= t BY DEF AskStation
  <2> HIDE DEF left
  <2> QED BY <2>1, <2>2
<1>4. Cardinality(left \ {asked'}) = Cardinality(left) - 1 /\ Cardinality(left) # 0
  BY <1>1, <1>2, <1>3, FS_RemoveElement, FS_EmptySet
<1>5. /\ pass.page.done \in Nat /\ pass.page.size \in 0..PageSize /\ pass.page.offset \in 0..StationCount
      /\ pass.page.done + Cardinality(left) <= pass.page.size
  BY <1>1, SweepParts DEF SweepInv, PageIsPart, PassPage
<1>6. pass.page.done + 1 \in 0..PageSize BY <1>2, <1>4, <1>5, SweepAssumption DEF SweepAssumption
<1>7. pass' = [pass EXCEPT !.page.left = left \ {asked'}, !.page.done = pass.page.done + 1]
  BY DEF AskStation
<1>8. pass.page \in PassPage /\ pass \in PassRecord BY <1>1, SweepParts
<1>9. /\ page \in PassPage /\ page.left = left \ {asked'} /\ page.done = pass.page.done + 1
      /\ page.size = pass.page.size /\ page.offset = pass.page.offset
  <2>1. left \ {asked'} \in SUBSET Stations BY <1>2
  <2> HIDE DEF left
  <2> QED BY <1>6, <1>8, <2>1 DEF PassPage
<1>10. pass' = [pass EXCEPT !.page = page] BY <1>7, <1>8 DEF PassRecord, PassPage
<1>11. pass' \in PassRecord /\ pass'.page = page /\ pass'.at = "asks"
  <2> HIDE DEF page
  <2> QED BY <1>1, <1>8, <1>9, <1>10 DEF PassRecord
<1>12. asked' \in 0..StationCount BY <1>2, <1>3, SweepAssumption DEF Stations, SweepAssumption
<1>13. SweepTypeOK' BY <1>1, <1>11, <1>12 DEF SweepTypeOK, PassRecord, PassPage
<1>14. page.done + Cardinality(page.left) <= page.size BY <1>2, <1>4, <1>5, <1>9
<1>15. sweep = "pages" => page.offset + page.size <= StationCount
  BY <1>1, <1>9 DEF SweepInv, PageIsPart
<1>16. PageIsPart'
  <2> HIDE DEF page
  <2> QED BY <1>1, <1>11, <1>14, <1>15 DEF PageIsPart
<1> QED BY <1>13, <1>16 DEF SweepInv

LEMMA PageEndsInv == ASSUME SweepInv, PageEnds PROVE SweepInv'
<1>1. SweepTypeOK /\ UNCHANGED <<sweep, listed, asked>> /\ pass.at = "asks" BY DEF SweepInv, PageEnds
<1>2. cursor' \in {0, cursor} \/ (sweep = "pages" /\ cursor' = pass.page.offset + pass.page.done)
  BY DEF PageEnds, NextOffset
<1>3. sweep = "pages" => pass.page.offset + pass.page.done \in 0..StationCount
  <2>1. Cardinality(pass.page.left) \in Nat BY <1>1, SweepParts, ListFinite
  <2>2. pass.page.done + Cardinality(pass.page.left) <= pass.page.size BY <1>1 DEF SweepInv, PageIsPart
  <2>3. sweep = "pages" => pass.page.offset + pass.page.size <= StationCount
    BY <1>1 DEF SweepInv, PageIsPart
  <2>4. /\ pass.page.size \in Nat /\ pass.page.done \in Nat /\ pass.page.offset \in Nat
    BY <1>1, SweepParts
  <2> QED BY <2>1, <2>2, <2>3, <2>4, SweepAssumption DEF SweepAssumption
<1>4. cursor' \in 0..StationCount BY <1>1, <1>2, <1>3, NoPageIs DEF SweepTypeOK
<1>5. PICK at \in {"reads", "timer", "left"} :
        pass' = Pass(at, NoPage, IF at = "reads" THEN pass.rest ELSE 0)
  BY DEF PageEnds
<1>6. (IF at = "reads" THEN pass.rest ELSE 0) \in 0..StationCount BY <1>1, SweepParts, NoPageIs
<1> QED BY <1>1, <1>4, <1>5, <1>6, AtNoPage

LEMMA RunIsCutInv == ASSUME SweepInv, RunIsCut PROVE SweepInv'
<1>1. cursor' \in 0..StationCount BY NoPageIs DEF RunIsCut, SweepInv, SweepTypeOK
<1> QED BY <1>1, NoPageIs, AtNoPage DEF RunIsCut

LEMMA SweepStepInv == SweepInv /\ [SweepNext]_sweepVars => SweepInv'
<1> SUFFICES ASSUME SweepInv, [SweepNext]_sweepVars PROVE SweepInv' OBVIOUS
<1>1. ASSUME NEW s \in Stations, StationIsListed(s) PROVE SweepInv'
  BY <1>1 DEF StationIsListed, SweepInv, SweepTypeOK, PageIsPart
<1>2. CASE UNCHANGED sweepVars BY <1>2 DEF sweepVars, SweepInv, SweepTypeOK, PageIsPart
<1> QED BY <1>1, <1>2, RunStartsInv, ReadPageInv, ReadWindowInv, AskStationInv, PageEndsInv, RunIsCutInv
    DEF SweepNext, SweepStep

\* Cursors stay within the list, and what a page asks within its size.
THEOREM SweepTypeCorrect == SweepSpec => []SweepTypeOK
BY SweepInitInv, SweepStepInv, PTL DEF SweepSpec, SweepInv

----------------------------------------------------------------------------
(* ProviderFetch: types. A body that is parsed is one of a version, which "no validator" is not.  *)

Places == Results \cup {"waits", "asks", "parses"}
FetchCall == [at : Places, attempt : 0..(Retries + 1), of : Versions \cup {NoVersion}]

BodiesHaveVersions == \A c \in Fetches : fetch[c].at = "parses" => fetch[c].of \in Versions

FetchTypeInv == FetchTypeOK /\ BodiesHaveVersions

LEMMA AttemptRange == 0 \in 0..(Retries + 1) /\ 1 \in 0..(Retries + 1)
BY FetchAssumption DEF FetchAssumption

LEMMA PlacesAre ==
  Places = {"none", "data", "not modified", "error", "waits", "asks", "parses"}
BY DEF Places, Results

LEMMA CallType ==
  ASSUME NEW at \in Places, NEW n \in 0..(Retries + 1), NEW v \in Versions \cup {NoVersion}
  PROVE  /\ Call(at, n, v) \in FetchCall
         /\ Call(at, n, v).at = at /\ Call(at, n, v).attempt = n /\ Call(at, n, v).of = v
BY DEF Call, FetchCall

LEMMA CallParts ==
  ASSUME FetchTypeOK, NEW c \in Fetches
  PROVE  /\ fetch \in [Fetches -> FetchCall]
         /\ fetch[c].at \in Places /\ fetch[c].attempt \in 0..(Retries + 1)
         /\ fetch[c].of \in Versions \cup {NoVersion}
BY DEF FetchTypeOK, FetchCall, Places

\* A step of a caller replaces its call and keeps the rest of the types.
LEMMA CallReplaced ==
  ASSUME FetchTypeInv, NEW c \in Fetches, NEW at \in Places, NEW n \in 0..(Retries + 1),
         NEW v \in Versions \cup {NoVersion}, at = "parses" => v \in Versions,
         fetch' = [fetch EXCEPT ![c] = Call(at, n, v)]
  PROVE  fetch' \in [Fetches -> FetchCall] /\ BodiesHaveVersions'
<1>1. fetch \in [Fetches -> FetchCall] BY CallParts DEF FetchTypeInv
<1>2. Call(at, n, v) \in FetchCall /\ Call(at, n, v).at = at /\ Call(at, n, v).of = v BY CallType
<1>3. fetch' \in [Fetches -> FetchCall] BY <1>1, <1>2
<1>4. ASSUME NEW d \in Fetches, fetch'[d].at = "parses" PROVE fetch'[d].of \in Versions
  BY <1>1, <1>2, <1>4 DEF FetchTypeInv, BodiesHaveVersions
<1> QED BY <1>3, <1>4 DEF BodiesHaveVersions

LEMMA FetchTypeInit == FetchInit => FetchTypeInv
<1> SUFFICES ASSUME FetchInit PROVE FetchTypeInv OBVIOUS
<1>1. "none" \in Places BY PlacesAre
<1>2. Call("none", 0, NoVersion) \in FetchCall /\ Call("none", 0, NoVersion).at = "none"
  BY <1>1, CallType, AttemptRange
<1>3. fetch \in [Fetches -> FetchCall] BY <1>2 DEF FetchInit
<1>4. BodiesHaveVersions BY <1>2 DEF BodiesHaveVersions, FetchInit
<1>5. 1 \in Versions BY FetchAssumption DEF Versions, FetchAssumption
<1>6. spent \in [second : 0..PerSecond, day : 0..PerDay]
  BY FetchAssumption DEF FetchInit, FetchAssumption
<1> QED BY <1>3, <1>4, <1>5, <1>6 DEF FetchInit, FetchTypeInv, FetchTypeOK, FetchCall, Places

LEMMA ConsumeType ==
  ASSUME FetchTypeOK, Consume PROVE spent' \in [second : 0..PerSecond, day : 0..PerDay]
BY FetchAssumption DEF FetchTypeOK, Consume, CanConsume, FetchAssumption

LEMMA FetchTypeStep == FetchTypeInv /\ [FetchNext]_fetchVars => FetchTypeInv'
<1> SUFFICES ASSUME FetchTypeInv, [FetchNext]_fetchVars PROVE FetchTypeInv' OBVIOUS
<1>0. /\ version \in Versions /\ validator \in Versions \cup {NoVersion} /\ parsed \subseteq Versions
      /\ spent \in [second : 0..PerSecond, day : 0..PerDay]
      /\ \A c \in Fetches : fetch[c].at \in Places /\ fetch[c].attempt \in 0..(Retries + 1)
                            /\ fetch[c].of \in Versions \cup {NoVersion}
      /\ FetchTypeOK
  BY CallParts DEF FetchTypeInv, FetchTypeOK
<1>a. SUFFICES /\ version' \in Versions /\ validator' \in Versions \cup {NoVersion}
               /\ parsed' \subseteq Versions /\ spent' \in [second : 0..PerSecond, day : 0..PerDay]
               /\ fetch' \in [Fetches -> FetchCall] /\ BodiesHaveVersions'
  BY DEF FetchTypeInv, FetchTypeOK, FetchCall, Places
<1>b. fetch' = fetch => fetch' \in [Fetches -> FetchCall] /\ BodiesHaveVersions'
  BY DEF FetchTypeInv, FetchTypeOK, FetchCall, Places, BodiesHaveVersions
<1>1. CASE SecondRolls \/ DayRolls
  <2>1. spent' \in [second : 0..PerSecond, day : 0..PerDay]
    BY <1>0, <1>1, FetchAssumption DEF SecondRolls, DayRolls, FetchAssumption
  <2> QED BY <1>0, <1>b, <1>1, <2>1 DEF SecondRolls, DayRolls
<1>2. CASE ProviderPublishes
  <2>1. version' \in Versions
    BY <1>0, <1>2, FetchAssumption DEF ProviderPublishes, Versions, FetchAssumption
  <2> QED BY <1>0, <1>b, <1>2, <2>1 DEF ProviderPublishes
<1>3. ASSUME NEW c \in Fetches, FetchStarts(c)
      PROVE  fetch' \in [Fetches -> FetchCall] /\ BodiesHaveVersions'
  BY <1>3, CallReplaced, AttemptRange, PlacesAre DEF FetchStarts
<1>4. ASSUME NEW c \in Fetches, Request(c)
      PROVE  fetch' \in [Fetches -> FetchCall] /\ BodiesHaveVersions'
  BY <1>0, <1>4, CallReplaced, PlacesAre DEF Request
<1>5. ASSUME NEW c \in Fetches, NotModified(c)
      PROVE  fetch' \in [Fetches -> FetchCall] /\ BodiesHaveVersions'
  BY <1>0, <1>5, CallReplaced, AttemptRange, PlacesAre DEF NotModified
<1>6. ASSUME NEW c \in Fetches, Answered(c)
      PROVE  fetch' \in [Fetches -> FetchCall] /\ BodiesHaveVersions'
  BY <1>0, <1>6, CallReplaced, PlacesAre DEF Answered
<1>7. ASSUME NEW c \in Fetches, Parses(c)
      PROVE  fetch' \in [Fetches -> FetchCall] /\ BodiesHaveVersions'
  BY <1>0, <1>7, CallReplaced, AttemptRange, PlacesAre DEF Parses
<1>8. ASSUME NEW c \in Fetches, FetchFails(c)
      PROVE  fetch' \in [Fetches -> FetchCall] /\ BodiesHaveVersions'
  <2>1. CASE fetch[c].attempt > Retries
    BY <1>8, <2>1, CallReplaced, AttemptRange, PlacesAre DEF FetchFails
  <2>2. CASE ~(fetch[c].attempt > Retries)
    <3>1. NextAttempt(fetch[c].attempt) \in 0..(Retries + 1)
      BY <1>0, <2>2, FetchAssumption DEF NextAttempt, FetchAssumption
    <3>2. fetch' = [fetch EXCEPT ![c] = Call("waits", NextAttempt(fetch[c].attempt), NoVersion)]
      BY <1>8, <2>2 DEF FetchFails
    <3> QED BY <3>1, <3>2, CallReplaced, PlacesAre
  <2> QED BY <2>1, <2>2
<1>9. ASSUME NEW c \in Fetches, FetchStarts(c) \/ Request(c) \/ CallStep(c)
      PROVE  /\ version' \in Versions /\ validator' \in Versions \cup {NoVersion}
             /\ parsed' \subseteq Versions /\ spent' \in [second : 0..PerSecond, day : 0..PerDay]
  <2>1. version' = version
    BY <1>9 DEF FetchStarts, Request, CallStep, NotModified, Answered, Parses, FetchFails
  <2>2. spent' = spent \/ Consume
    BY <1>9 DEF FetchStarts, Request, CallStep, NotModified, Answered, Parses, FetchFails
  <2>3. \/ validator' = validator /\ parsed' = parsed
        \/ /\ fetch[c].at = "parses" /\ validator' \in {validator, fetch[c].of}
           /\ parsed' = parsed \cup {fetch[c].of}
    BY <1>9 DEF FetchStarts, Request, CallStep, NotModified, Answered, Parses, FetchFails, AfterParsing
  <2>4. fetch[c].at = "parses" => fetch[c].of \in Versions
    BY DEF FetchTypeInv, BodiesHaveVersions
  <2> QED BY <1>0, <2>1, <2>2, <2>3, <2>4, ConsumeType
<1>10. CASE UNCHANGED fetchVars BY <1>0, <1>b, <1>10 DEF fetchVars
<1> QED BY <1>1, <1>2, <1>3, <1>4, <1>5, <1>6, <1>7, <1>8, <1>9, <1>10 DEF FetchNext, CallStep

\* Neither the budget's counters nor the attempts of a call leave their range, and no validator
\* stands for a version that was never served.
THEOREM FetchTypeCorrect == FetchSpec => []FetchTypeOK
BY FetchTypeInit, FetchTypeStep, PTL DEF FetchSpec, FetchTypeInv

----------------------------------------------------------------------------
(* "Not modified" is an answer to a validator, and a validator is kept only once a body of its    *)
(* version was parsed: in the cache and in every request on its way.                              *)

ValidatorsWereParsed ==
  /\ validator \in parsed \cup {NoVersion}
  /\ \A c \in Fetches : fetch[c].at = "asks" => fetch[c].of \in parsed \cup {NoVersion}

ParsedInv == FetchTypeInv /\ ValidatorsWereParsed /\ NotModifiedWasParsed

LEMMA ParsedStep ==
  ASSUME ParsedInv, [FetchNext]_fetchVars
  PROVE  ValidatorsWereParsed' /\ NotModifiedWasParsed'
<1>0. fetch \in [Fetches -> FetchCall] /\ FetchTypeOK
  BY DEF ParsedInv, FetchTypeInv, FetchTypeOK, FetchCall, Places
<1>1. CASE SecondRolls \/ DayRolls \/ ProviderPublishes \/ UNCHANGED fetchVars
  BY <1>1 DEF SecondRolls, DayRolls, ProviderPublishes, fetchVars, ParsedInv, ValidatorsWereParsed,
     NotModifiedWasParsed
<1>2. ASSUME NEW c \in Fetches, FetchStarts(c) \/ FetchFails(c)
      PROVE  ValidatorsWereParsed' /\ NotModifiedWasParsed'
  <2>1. PICK at \in {"waits", "error"} : \E n : fetch' = [fetch EXCEPT ![c] = Call(at, n, NoVersion)]
    BY <1>2 DEF FetchStarts, FetchFails
  <2>2. PICK n : fetch' = [fetch EXCEPT ![c] = Call(at, n, NoVersion)] BY <2>1
  <2>3. Call(at, n, NoVersion).at = at BY DEF Call
  <2>4. ASSUME NEW d \in Fetches, fetch'[d].at \in {"asks", "not modified"} PROVE fetch'[d] = fetch[d]
    BY <1>0, <2>2, <2>3, <2>4
  <2>5. validator' = validator /\ parsed' = parsed BY <1>2 DEF FetchStarts, FetchFails
  <2> QED BY <2>4, <2>5 DEF ParsedInv, ValidatorsWereParsed, NotModifiedWasParsed
<1>3. ASSUME NEW c \in Fetches, Request(c) PROVE ValidatorsWereParsed' /\ NotModifiedWasParsed'
  BY <1>0, <1>3 DEF Request, Call, ParsedInv, ValidatorsWereParsed, NotModifiedWasParsed
<1>4. ASSUME NEW c \in Fetches, NotModified(c) PROVE ValidatorsWereParsed' /\ NotModifiedWasParsed'
  <2>1. version # NoVersion
    BY <1>0, FetchAssumption DEF FetchTypeOK, Versions, NoVersion, FetchAssumption
  <2>2. version \in parsed BY <1>4, <2>1 DEF NotModified, ParsedInv, ValidatorsWereParsed
  <2> QED BY <1>0, <1>4, <2>2 DEF NotModified, Call, ParsedInv, ValidatorsWereParsed, NotModifiedWasParsed
<1>5. ASSUME NEW c \in Fetches, Answered(c) PROVE ValidatorsWereParsed' /\ NotModifiedWasParsed'
  BY <1>0, <1>5 DEF Answered, AfterParsing, Call, ParsedInv, ValidatorsWereParsed, NotModifiedWasParsed
<1>6. ASSUME NEW c \in Fetches, Parses(c) PROVE ValidatorsWereParsed' /\ NotModifiedWasParsed'
  BY <1>0, <1>6 DEF Parses, Call, ParsedInv, ValidatorsWereParsed, NotModifiedWasParsed
<1> QED BY <1>1, <1>2, <1>3, <1>4, <1>5, <1>6 DEF FetchNext, CallStep

\* A caller is told "not modified" only of a version whose body was parsed, however calls that share
\* the validator overlap, whatever fails between the answer and the parsing.
THEOREM NothingMissedAsUnmodified == FetchSpec => []NotModifiedWasParsed
<1>1. FetchInit => ParsedInv
  <2>1. ASSUME FetchInit PROVE ValidatorsWereParsed /\ NotModifiedWasParsed
    BY <2>1 DEF FetchInit, Call, ValidatorsWereParsed, NotModifiedWasParsed
  <2> QED BY <2>1, FetchTypeInit DEF ParsedInv
<1>2. ParsedInv /\ [FetchNext]_fetchVars => ParsedInv'
  BY ParsedStep, FetchTypeStep DEF ParsedInv
<1>3. ParsedInv => NotModifiedWasParsed BY DEF ParsedInv
<1> QED BY <1>1, <1>2, <1>3, PTL DEF FetchSpec

----------------------------------------------------------------------------
(* EmscSocket: types.                                                                             *)

LEMMA SocketTypeInit == SocketInit => SocketTypeOK
BY DEF SocketInit, SocketTypeOK

LEMMA SocketTypeStep == SocketTypeOK /\ [SocketNext]_socketVars => SocketTypeOK'
<1> SUFFICES ASSUME SocketTypeOK, [SocketNext]_socketVars PROVE SocketTypeOK' OBVIOUS
<1>1. CASE EnsureSocket BY <1>1 DEF EnsureSocket, SocketTypeOK
<1>2. CASE EndpointChanges
  <2>1. reachable' \in BOOLEAN BY <1>2, Zenon DEF EndpointChanges
  <2> QED BY <1>2, <2>1 DEF EndpointChanges, SocketTypeOK
<1>3. ASSUME NEW s \in Sockets, OnOpen(s) \/ OnError(s) \/ OnClose(s) PROVE SocketTypeOK'
  BY <1>3 DEF OnOpen, OnError, OnClose, ForgetsAll, SocketTypeOK
<1>4. CASE UNCHANGED socketVars BY <1>4 DEF socketVars, SocketTypeOK
<1> QED BY <1>1, <1>2, <1>3, <1>4 DEF SocketNext

\* The worker's field is one of the sockets or none, whichever socket's handler wrote it last.
THEOREM SocketTypeCorrect == SocketSpec => []SocketTypeOK
BY SocketTypeInit, SocketTypeStep, PTL DEF SocketSpec

----------------------------------------------------------------------------
(* Collector: types.                                                                              *)

FeedRecord == [mark : {"none", "drained", "newest", "changed"},
               reads : {"all", "some", "filtered"}]

LEMMA FeedsAre == Feeds \subseteq FeedRecord
<1> SUFFICES ASSUME NEW f \in Feeds PROVE f \in FeedRecord OBVIOUS
<1>1. f \in
     {SeismicDataBatch, EmscBuffer, EmscLatestEvents, GeoNetLatestEvents, SensorCommunityBatch,
      NdbcLatestObservations, WaqiStationsBatch, AirQualityDataBatch, SpaceWeatherData,
      GeomagnetismData, VolcanoAlerts, UpperAtmosphereData, OpenSenseMapData, IntermagnetData,
      IrisEvents, NasaPowerData, CamsData, UsgsWaterData, UkEaFloodWarnings, UkEaFloodReadings,
      GbifOccurrences, INaturalistObservations, ObisOccurrences, EcosSpecies, NatureServeSpecies,
      NasaEonetEvents, GfwAlerts, UsgsMrdsSites, NswPlanningApplications, OpenSkyStates,
      AisBufferSnapshot, MovebankTracking, OpenMeteoCurrent, NoaaNwsAlerts, GdacsEvents,
      ReliefWebDisasters, MetNoForecast, HubeauObservations, NoaaSwpcIndices}
  BY DEF
     Feeds, WaqiEnvironmentalWorker, SensorCommunityWorker, NoaaNdbcWorker, UsgsWorker,
     EmscRealtimeWorker, GeoNetWorker, SpaceWeatherWorker, GeomagnetismWorker, VolcanoWorker,
     UpperAtmosphereWorker, OpenSenseMapWorker, IntermagnetWorker, IrisWorker, NasaPowerWorker,
     CopernicusCamsWorker, UsgsWaterWorker, UkEaFloodWorker, GbifWorker, INaturalistWorker,
     ObisWorker, EcosWorker, NatureServeWorker, NasaEonetWorker, GfwWorker, UsgsMrdsWorker,
     InternationalPlanningWorker, OpenSkyWorker, AisStreamWorker, MovebankWorker, OpenMeteoWorker,
     NoaaNwsAlertsWorker, GdacsWorker, ReliefWebWorker, MetNorwayWorker, HubeauFranceWorker,
     NoaaSwpcIndicesWorker
<1> QED
  BY <1>1 DEF FeedRecord,
     Feed, SeismicDataBatch, EmscBuffer, EmscLatestEvents, GeoNetLatestEvents,
     SensorCommunityBatch, NdbcLatestObservations, WaqiStationsBatch, AirQualityDataBatch,
     SpaceWeatherData, GeomagnetismData, VolcanoAlerts, UpperAtmosphereData, OpenSenseMapData,
     IntermagnetData, IrisEvents, NasaPowerData, CamsData, UsgsWaterData, UkEaFloodWarnings,
     UkEaFloodReadings, GbifOccurrences, INaturalistObservations, ObisOccurrences, EcosSpecies,
     NatureServeSpecies, NasaEonetEvents, GfwAlerts, UsgsMrdsSites, NswPlanningApplications,
     OpenSkyStates, AisBufferSnapshot, MovebankTracking, OpenMeteoCurrent, NoaaNwsAlerts,
     GdacsEvents, ReliefWebDisasters, MetNoForecast, HubeauObservations, NoaaSwpcIndices

RunRecord == [at : {"timer", "fetched", "offers"}, items : SUBSET Readings]

LEMMA RunIs ==
  ASSUME CollectorTypeOK
  PROVE  run \in RunRecord /\ run.items \in SUBSET Readings /\ feed \in FeedRecord
BY FeedsAre DEF CollectorTypeOK, RunRecord

LEMMA NoRunIs == NoRun \in RunRecord /\ 0 \in 0..ReadingCount
BY CollectorAssumption DEF NoRun, RunRecord, CollectorAssumption

LEMMA CollectorTypeInit == CollectorInit => CollectorTypeOK
<1> SUFFICES ASSUME CollectorInit PROVE CollectorTypeOK OBVIOUS
<1>1. run \in RunRecord /\ mark \in 0..ReadingCount BY NoRunIs DEF CollectorInit
<1> QED BY <1>1 DEF CollectorInit, CollectorTypeOK, RunRecord

\* What a step leaves of the run, when it changes nothing else of a given kind.
LEMMA LeftIs ==
  ASSUME CollectorTypeOK, NEW items \in SUBSET Readings, Left(items)
  PROVE  run' \in RunRecord
BY RunIs, NoRunIs DEF Left, RunRecord

LEMMA OfferType ==
  ASSUME CollectorTypeOK, NEW r \in Readings, Offer(r)
  PROVE  CollectorTypeOK'
<1>1. run.items \ {r} \in SUBSET Readings /\ {} \in SUBSET Readings BY RunIs
<1>2. run' \in RunRecord
  BY <1>1, LeftIs DEF Offer, DropDuplicate, DropOnChain, DropUnwritten, Take, Backpressured
<1>3. feed' = feed /\ listing' = listing /\ mark' = mark /\ dry' = dry
  BY DEF Offer, DropDuplicate, DropOnChain, DropUnwritten, Take, Backpressured, Adds
<1>4. remembered' \in {remembered, remembered \cup {<<"hash", r>>}}
  BY DEF Offer, DropDuplicate, DropOnChain, DropUnwritten, Take, Backpressured, Adds
<1>5. taken' \subseteq Readings /\ skipped' \subseteq Readings
  BY DEF Offer, DropDuplicate, DropOnChain, DropUnwritten, Take, Backpressured, NotTaken, CollectorTypeOK
<1>6. remembered' \subseteq {"key", "hash"} \X Readings BY <1>4 DEF CollectorTypeOK
<1> QED BY <1>2, <1>3, <1>5, <1>6 DEF CollectorTypeOK, RunRecord

\* The mark is a time stamp that was read, or the one before.
LEMMA NewestIs ==
  ASSUME NEW S \in SUBSET (0..ReadingCount), S # {}
  PROVE  Newest(S) \in S
<1>1. \E r \in S : \A s \in S : s <= r BY CollectorAssumption, HasGreatest DEF CollectorAssumption
<1> QED BY <1>1 DEF Newest

LEMMA PassesMarkType ==
  ASSUME CollectorTypeOK, NEW read \in SUBSET Readings, NEW p \in PassesMark(read)
  PROVE  p.new \in SUBSET Readings /\ p.mark \in 0..ReadingCount
<1>1. mark \in 0..ReadingCount BY DEF CollectorTypeOK
<1>2. Readings \subseteq 0..ReadingCount BY CollectorAssumption DEF CollectorAssumption, Readings
<1>3. feed.mark \in {"none", "drained", "newest", "changed"} BY RunIs DEF FeedRecord
<1>4. CASE feed.mark \in {"none", "drained"}
  <2>1. p = [new |-> read, mark |-> mark] BY <1>4 DEF PassesMark
  <2> QED BY <1>1, <2>1
<1>5. CASE feed.mark = "newest"
  <2>1. p = [new |-> {r \in read : r > mark}, mark |-> Newest(read \cup {mark})] BY <1>5 DEF PassesMark
  <2>2. Newest(read \cup {mark}) \in 0..ReadingCount
    <3>1. read \cup {mark} \in SUBSET (0..ReadingCount) /\ read \cup {mark} # {} BY <1>1, <1>2
    <3> QED BY <3>1, NewestIs
  <2>3. {r \in read : r > mark} \in SUBSET Readings OBVIOUS
  <2> QED BY <2>1, <2>2, <2>3
<1>6. CASE feed.mark = "changed"
  <2>1. CASE read \subseteq {mark}
    <3>1. p = [new |-> {}, mark |-> mark] BY <1>6, <2>1 DEF PassesMark
    <3> QED BY <1>1, <3>1
  <2>2. CASE ~(read \subseteq {mark})
    <3>1. p \in [new : {read, read \ {mark}}, mark : read] BY <1>6, <2>2 DEF PassesMark
    <3> QED BY <1>2, <3>1
  <2> QED BY <2>1, <2>2
<1> QED BY <1>3, <1>4, <1>5, <1>6

LEMMA CollectType == ASSUME CollectorTypeOK, Collect PROVE CollectorTypeOK'
<1> DEFINE fresh(out) == {r \in out : ~Known("key", r)}
           Collected(read, q, out) ==
             /\ run' \in {NoRun, [at |-> "offers", items |-> fresh(out)]}
             /\ mark' = q.mark
             /\ remembered' = remembered \cup ({"key"} \X out)
             /\ skipped' \in {skipped, skipped \cup (fresh(out) \ taken)}
             /\ listing' \in {listing, listing \ read}
<1>1. PICK read \in (IF feed.reads = "some" THEN SUBSET run.items ELSE {run.items}) :
        \E q \in PassesMark(read) :
        \E out \in (IF feed.reads = "filtered" THEN SUBSET q.new ELSE {q.new}) :
          Collected(read, q, out)
  BY DEF Collect
<1>2. PICK q \in PassesMark(read) :
        \E out \in (IF feed.reads = "filtered" THEN SUBSET q.new ELSE {q.new}) :
          Collected(read, q, out)
  BY <1>1, Zenon
<1>3. PICK out \in (IF feed.reads = "filtered" THEN SUBSET q.new ELSE {q.new}) :
        Collected(read, q, out)
  BY <1>2, Zenon
<1>4. read \in SUBSET Readings BY RunIs
<1>5. q.new \in SUBSET Readings /\ mark' \in 0..ReadingCount BY <1>3, <1>4, PassesMarkType
<1>6. out \in SUBSET Readings /\ fresh(out) \in SUBSET Readings BY <1>5
<1>7. run' \in RunRecord BY <1>3, <1>6, NoRunIs DEF RunRecord
<1>8. remembered' \subseteq {"key", "hash"} \X Readings BY <1>3, <1>6 DEF CollectorTypeOK
<1>9. listing' \subseteq Readings /\ skipped' \subseteq Readings BY <1>3, <1>6 DEF CollectorTypeOK
<1>10. feed' = feed /\ dry' = dry /\ taken' = taken BY DEF Collect
<1> QED BY <1>5, <1>7, <1>8, <1>9, <1>10 DEF CollectorTypeOK, RunRecord

LEMMA CollectorTypeStep ==
  CollectorTypeOK /\ [CollectorNext]_collectorVars => CollectorTypeOK'
<1> SUFFICES ASSUME CollectorTypeOK, [CollectorNext]_collectorVars PROVE CollectorTypeOK' OBVIOUS
<1>1. CASE Fetch
  <2>1. run' \in RunRecord BY <1>1 DEF Fetch, CollectorTypeOK, RunRecord
  <2> QED BY <1>1, <2>1 DEF Fetch, CollectorTypeOK, RunRecord
<1>2. CASE RunFails
  <2>1. run' \in RunRecord BY <1>2, NoRunIs DEF RunFails
  <2> QED BY <1>2, <2>1 DEF RunFails, CollectorTypeOK, RunRecord
<1>3. CASE CollectorRestarts
  <2>1. run' \in RunRecord /\ mark' \in 0..ReadingCount BY <1>3, NoRunIs DEF CollectorRestarts
  <2>2. listing' \subseteq Readings BY <1>3 DEF CollectorRestarts, CollectorTypeOK
  <2>3. dry' \in BOOLEAN BY <1>3, Zenon DEF CollectorRestarts
  <2>4. remembered' \subseteq {"key", "hash"} \X Readings BY <1>3 DEF CollectorRestarts
  <2> QED BY <1>3, <2>1, <2>2, <2>3, <2>4 DEF CollectorRestarts, CollectorTypeOK, RunRecord
<1>4. CASE FundingChanges
  <2>1. dry' \in BOOLEAN BY <1>4, Zenon DEF FundingChanges
  <2> QED BY <1>4, <2>1 DEF FundingChanges, CollectorTypeOK
<1>5. ASSUME NEW r \in Readings, ListingChanges(r) PROVE CollectorTypeOK'
  BY <1>5 DEF ListingChanges, CollectorTypeOK
<1>6. ASSUME NEW k, Forget(k) PROVE CollectorTypeOK'
  BY <1>6 DEF Forget, CollectorTypeOK
<1>7. CASE UNCHANGED collectorVars BY <1>7 DEF collectorVars, CollectorTypeOK
<1> QED BY <1>1, <1>2, <1>3, <1>4, <1>5, <1>6, <1>7, OfferType, CollectType DEF CollectorNext, RunStep

\* What a collector remembers, returns and offers are readings, its mark a time stamp of one.
THEOREM CollectorTypeCorrect == CollectorSpec => []CollectorTypeOK
BY CollectorTypeInit, CollectorTypeStep, PTL DEF CollectorSpec

----------------------------------------------------------------------------
(* WriteDryMode: types. Only wallets below the one to be read next have been read, which is why the*)
(* decision at the end of a cycle is about all of them.                                           *)

Reading == {"unread", "usable", "low", "failed"}

ReadInOrder ==
  \A w \in Gates : gateCycle.read[w] = "unread" <=> w >= gateCycle.next \/ gateCycle.next = 0

GateTypeInv == GateTypeOK /\ ReadInOrder

LEMMA OneMoreType == ASSUME NEW n \in 0..2 PROVE OneMore(n) \in 0..2
BY DEF OneMore

LEMMA UnreadType == Unread \in [Gates -> Reading]
BY DEF Unread, Reading

LEMMA GateTypeInit == GateInit => GateTypeInv
<1> SUFFICES ASSUME GateInit PROVE GateTypeInv OBVIOUS
<1> USE GateAssumption DEF GateInit, GateAssumption
<1>1. gateCycle \in [next : 0..(GateWallets + 1), read : [Gates -> Reading]] BY UnreadType
<1>2. low \in [Gates -> 0..2] OBVIOUS
<1>3. paused \in BOOLEAN OBVIOUS
<1>4. usable \subseteq Gates /\ checks \in 0..2 OBVIOUS
<1>5. GateTypeOK BY <1>1, <1>2, <1>3, <1>4, Zenon DEF GateTypeOK, Reading
<1>6. ReadInOrder BY DEF ReadInOrder, Unread
<1> QED BY <1>5, <1>6 DEF GateTypeInv

LEMMA GateTypeStep == GateTypeInv /\ [GateNext]_gateVars => GateTypeInv'
<1> SUFFICES ASSUME GateTypeInv, [GateNext]_gateVars PROVE GateTypeInv' OBVIOUS
<1> USE GateAssumption DEF GateTypeInv, GateAssumption, Gates
<1>0. Unread \in [Gates -> Reading] BY UnreadType
<1>1. CASE GateCycleStarts
  BY <1>1 DEF GateCycleStarts, GateTypeOK, ReadInOrder, Unread
<1>2. ASSUME NEW w \in Gates, NEW result \in {"usable", "low", "failed"}, ReadWallet(w, result)
      PROVE  GateTypeInv'
  <2>1. gateCycle'.next = w + 1 /\ gateCycle'.read = [gateCycle.read EXCEPT ![w] = result]
    BY <1>2 DEF ReadWallet
  <2>2. GateTypeOK' BY <1>2, <2>1 DEF ReadWallet, GateTypeOK
  <2>3. ReadInOrder' BY <1>2, <2>1 DEF ReadWallet, GateTypeOK, ReadInOrder
  <2> QED BY <2>2, <2>3
<1>3. CASE Evaluate
  <2>1. checks' \in 0..2 /\ paused' \in BOOLEAN
    <3>1. \/ checks' = 0 /\ paused' = FALSE
          \/ checks' = 0 /\ paused' = paused
          \/ checks' = OneMore(checks) /\ paused' = (paused \/ checks >= 1)
      BY <1>3 DEF Evaluate
    <3>2. checks \in 0..2 /\ paused \in BOOLEAN BY DEF GateTypeOK
    <3>3. OneMore(checks) \in 0..2 BY <3>2, OneMoreType
    <3>4. paused' \in BOOLEAN BY <3>1, <3>2, Zenon
    <3> QED BY <3>1, <3>3, <3>4
  <2>2. low' \in [Gates -> 0..2] BY <1>3, OneMoreType DEF Evaluate, GateTypeOK
  <2> QED BY <1>3, <2>1, <2>2 DEF Evaluate, GateTypeOK, ReadInOrder, Unread
<1>4. CASE GateRestarts
  <2>1. gateCycle' \in [next : 0..(GateWallets + 1), read : [Gates -> Reading]]
    BY <1>0, <1>4 DEF GateRestarts
  <2>2. low' \in [Gates -> 0..2] /\ checks' \in 0..2 /\ usable' \subseteq Gates
    BY <1>4 DEF GateRestarts, GateTypeOK
  <2>3. paused' \in BOOLEAN BY <1>4, Zenon DEF GateRestarts
  <2>4. GateTypeOK' BY <2>1, <2>2, <2>3, Zenon DEF GateTypeOK, Reading
  <2>5. ReadInOrder' BY <1>4 DEF GateRestarts, ReadInOrder, Unread
  <2> QED BY <2>4, <2>5
<1>5. ASSUME NEW w \in Gates, PoolChanges(w) PROVE GateTypeInv'
  BY <1>5 DEF PoolChanges, GateTypeOK, ReadInOrder
<1>6. CASE UNCHANGED gateVars BY <1>6 DEF gateVars, GateTypeOK, ReadInOrder
<1> QED BY <1>1, <1>2, <1>3, <1>4, <1>5, <1>6 DEF GateNext, GateStep

\* The count of dry checks and the position of a cycle keep to their ranges, over restarts.
THEOREM GateTypeCorrect == GateSpec => []GateTypeOK
BY GateTypeInit, GateTypeStep, PTL DEF GateSpec, GateTypeInv

----------------------------------------------------------------------------
(* Writes are paused on evidence. The counter is shared by all wallets: it never runs ahead of    *)
(* what was read of any one of them.                                                              *)

CountHasEvidence == \A w \in Gates : checks <= low[w]

EvidenceInv == GateTypeInv /\ CountHasEvidence

\* A cycle that found no usable wallet and read them all found each of them low.
LEMMA AllLow ==
  ASSUME GateTypeInv, gateCycle.next = GateWallets + 1,
         ~AnyUsable(gateCycle.read), Conclusive(gateCycle.read), NEW w \in Gates
  PROVE  gateCycle.read[w] = "low"
BY GateAssumption DEF GateTypeInv, GateTypeOK, ReadInOrder, AnyUsable, Conclusive, Gates, GateAssumption

LEMMA EvidenceStep ==
  ASSUME EvidenceInv, [GateNext]_gateVars
  PROVE  CountHasEvidence' /\ (~paused /\ paused' => \A w \in Gates : low'[w] = 2)
<1> USE DEF EvidenceInv
<1>0. GateTypeOK /\ GateTypeInv' BY GateTypeStep DEF GateTypeInv
<1>1. CASE Evaluate
  <2>1. CASE AnyUsable(gateCycle.read)
    BY <1>0, <1>1, <2>1 DEF Evaluate, CountHasEvidence, GateTypeInv, GateTypeOK
  <2>2. CASE ~AnyUsable(gateCycle.read) /\ ~Conclusive(gateCycle.read)
    BY <1>0, <1>1, <2>2 DEF Evaluate, CountHasEvidence, GateTypeInv, GateTypeOK
  <2>3. CASE ~AnyUsable(gateCycle.read) /\ Conclusive(gateCycle.read)
    <3>1. \A w \in Gates : low'[w] = OneMore(low[w]) BY <1>1, <2>3, AllLow DEF Evaluate
    <3>2. checks' = OneMore(checks) /\ paused' = (paused \/ checks >= 1) BY <1>1, <2>3 DEF Evaluate
    <3>3. ASSUME NEW w \in Gates PROVE checks' <= low'[w]
      BY <1>0, <3>1, <3>2 DEF OneMore, CountHasEvidence, GateTypeOK
    <3>4. ASSUME ~paused, paused', NEW w \in Gates PROVE low'[w] = 2
      <4>1. checks >= 1 BY <3>2, <3>4
      <4>2. low[w] \in 1..2 BY <4>1, <1>0 DEF CountHasEvidence, GateTypeOK
      <4> QED BY <3>1, <4>2 DEF OneMore
    <3> QED BY <3>3, <3>4 DEF CountHasEvidence
  <2> QED BY <2>1, <2>2, <2>3
<1>2. CASE GateRestarts
  BY <1>2 DEF GateRestarts, CountHasEvidence
<1>3. CASE UNCHANGED <<checks, paused, low>>
  BY <1>3 DEF CountHasEvidence
<1>4. GateNext => Evaluate \/ GateRestarts \/ UNCHANGED <<checks, paused, low>>
  BY DEF GateNext, GateStep, GateCycleStarts, ReadWallet, PoolChanges
<1> QED BY <1>1, <1>2, <1>3, <1>4 DEF gateVars

\* The gate closes only after every wallet was read, and was low, in both of the last two cycles:
\* reads that fail, cycles that end early with a restart and pools that change under a cycle do
\* not close it.
THEOREM NoPauseWithoutEvidence == GateSpec => PausedOnEvidence
<1>1. GateInit => EvidenceInv
  BY GateTypeInit DEF EvidenceInv, CountHasEvidence, GateInit
<1>2. EvidenceInv /\ [GateNext]_gateVars => EvidenceInv'
  BY GateTypeStep, EvidenceStep DEF EvidenceInv
<1>3. EvidenceInv /\ [GateNext]_gateVars => [~paused /\ paused' => \A w \in Gates : low'[w] = 2]_gateVars
  BY EvidenceStep
<1> QED BY <1>1, <1>2, <1>3, PTL DEF GateSpec, PausedOnEvidence
=============================================================================
