---------------------------- MODULE MCPageManager ----------------------------
(* Small files for TLC: 24-byte pages, a 5-entry header table whose first  *)
(* data page is 2, so 3 physical data pages; a datapoint takes 60 bits, so  *)
(* a fresh page holds 3 points and a shrunk one leaves room to pack.      *)
EXTENDS PageManager

MCPageSize == 24
MCDpBits == {60}
MCPageCount == 5
MCHeaderSize == 8
MCInfoSize == 4

\* restarts: 16-byte pages holding 2 points, a 3-entry table whose first
\* data page is 2, so 1 data page: a second allocation happens only when
\* recovery hands page 2 out again; headers 0-1 share page 0 with the
\* tsdb_header
MCRestartPageSize == 16
MCRestartPageCount == 3
\* power loss with the table spread over pages: a 6-entry table, headers
\* 2-5 on page 1, 4 data pages, so a fresh file reaches header 2
MCCrashPageCount == 6
\* refinement: 24-byte pages, a 3-entry table whose first data page is 1,
\* so 2 data pages for 3 headers
MCRefinePageCount == 3
=============================================================================
