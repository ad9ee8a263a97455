-------------------------------- MODULE Startup --------------------------------
(****************************************************************************)
(* The start of the gateway: main starts the thread read_addr, which reads  *)
(* the address dial and writes /config/addr.txt, and remote_init_thread,    *)
(* which fills the tables of remote.db and dimmer.db, and goes on.  Nothing *)
(* makes the two wait for each other but that the file must exist.          *)
(*                                                                          *)
(* The gateway may be stopped at any moment, the dial turned, and the       *)
(* gateway started again.  addr.txt is known by its first address; what     *)
(* fprintf writes is in it from fclose on.                                  *)
(****************************************************************************)
EXTENDS Translation, Sequences

CONSTANTS
  Dials,       (* positions of the dial                                     *)
  DIMMER_CNT, PIR_NUM,   (* /config/dev_num.txt                             *)
  KEYS,        (* rows of remote.db: PIR_NUM * CIRCUIT_MAX                  *)
  SUBS,        (* rows of dimmer.db for one module                          *)
  Texts,       (* the text files that commands make                         *)
  Missing, Empty,        (* addr.txt before its first line                  *)
  Strays,      (* what may be in an address that has not been read          *)
  MaxStops     (* bound                                                     *)

ASSUME StartupAssumption ==
  /\ Dials \subseteq 0 .. 255 /\ Strays \subseteq 0 .. 255
  /\ DIMMER_CNT \in Nat \ {0} /\ PIR_NUM \in Nat
  /\ DIMMER_CNT + PIR_NUM <= 16      (* the addresses from 240 on are bytes *)
  /\ Texts \subseteq {"photometric", "scene"}
  /\ KEYS \in Nat /\ SUBS \in Nat /\ MaxStops \in Nat
  /\ Missing # Empty /\ Missing \notin 0 .. 255 /\ Empty \notin 0 .. 255

VARIABLES
  on, dial,
  addr,            (* addr.txt                                              *)
  texts,           (* which of them there are                               *)
  remote, dimmer,  (* the rows of the two databases, in order               *)
  handle,          (* closed, open, or open on a file that was removed      *)
  reader, data, flag,        (* read_addr: its place, dial value and flag   *)
  init, dev_addr, i, j,      (* remote_init_thread                          *)
  home,            (* the first address that was last written completely    *)
  was,             (* home when the dial was read                           *)
  torn,            (* a stop has left addr.txt empty, up to a complete start*)
  stops

read_addr_vars == <<reader, data, flag, home, was, torn>>
init_vars      == <<init, dev_addr, i, j>>
startup        == <<on, dial, addr, texts, remote, dimmer, handle,
                    read_addr_vars, init_vars, stops>>

StartupInit ==
  /\ on = FALSE /\ dial \in Dials
  /\ addr = Missing /\ texts = {} /\ remote = <<>> /\ dimmer = <<>>
  /\ handle = [db \in {"remote", "dimmer"} |-> "closed"]
  /\ reader = "off" /\ data = 0 /\ flag = 2
  /\ init = "off" /\ dev_addr = 0 /\ i = 0 /\ j = 0
  /\ home = Missing /\ was = Missing /\ torn = FALSE
  /\ stops = 0

(* What the threads know goes with them.                                    *)
ReaderEnds(place) == reader' = place /\ data' = 0 /\ flag' = 2 /\ was' = Missing
InitEnds(place)   == init' = place /\ dev_addr' = 0 /\ i' = 0 /\ j' = 0

--------------------------------------------------------------------------------
(* main, the user and the power switch.                                     *)

main ==
  /\ ~ on
  /\ on' = TRUE
  /\ reader' = "dial" /\ init' = "parse"
  /\ UNCHANGED <<dial, addr, texts, remote, dimmer, handle, data, flag, home, was, torn,
                 dev_addr, i, j, stops>>

Stop ==
  /\ on /\ stops < MaxStops
  /\ stops' = stops + 1
  /\ on' = FALSE
  /\ handle' = [db \in DOMAIN handle |-> "closed"]
  /\ ReaderEnds("off") /\ InitEnds("off")
  /\ torn' = (torn \/ reader = "write")
  /\ UNCHANGED <<dial, addr, texts, remote, dimmer, home>>

Turn ==
  /\ ~ on \/ reader = "dial"
  /\ dial' \in Dials \ {dial}
  /\ UNCHANGED <<on, addr, texts, remote, dimmer, handle, read_addr_vars, init_vars, stops>>

(* A command or a scene makes one of the text files.                        *)
Save ==
  /\ on
  /\ \E t \in Texts \ texts : texts' = texts \cup {t}
  /\ UNCHANGED <<on, dial, addr, remote, dimmer, handle, read_addr_vars, init_vars, stops>>

--------------------------------------------------------------------------------
(* The thread read_addr.                                                    *)

BrokenComparesSecond(d) ==
  addr # Empty /\ match_addr(d, addr + 1, DIMMER_CNT)

(* The file has a line "dimmer_addr <d>...".                                *)
match_addr_flag(d) == addr # Empty /\ match_addr(d, addr, DIMMER_CNT)

(* A dial above 0xF0 is read again.  flag remains 2 without a file.         *)
ReadDial ==
  /\ reader = "dial"
  /\ dial <= 240
  /\ data' = dial /\ was' = home
  /\ flag' = IF addr = Missing THEN flag ELSE IF match_addr_flag(dial) THEN 1 ELSE 0
  /\ reader' = "open"
  /\ UNCHANGED <<on, dial, addr, texts, remote, dimmer, handle, home, torn, init_vars, stops>>

(* save_to_addr: fopen for "w" ...                                          *)
save_to_addr ==
  /\ reader = "open"
  /\ addr' = Empty
  /\ reader' = "write"
  /\ UNCHANGED <<on, dial, texts, remote, dimmer, handle, data, flag, home, was, torn,
                 init_vars, stops>>

(* ... and fclose.                                                          *)
WriteAddr ==
  /\ reader = "write"
  /\ addr' = data /\ home' = data
  /\ IF flag = 0 THEN reader' = "photometric" /\ UNCHANGED <<data, flag, was>>
     ELSE ReaderEnds("done")
  /\ torn' = (torn /\ flag = 0)
  /\ UNCHANGED <<on, dial, texts, remote, dimmer, handle, init_vars, stops>>

RemoveText(place, next) ==
  /\ reader = place
  /\ texts' = texts \ {place}
  /\ reader' = next
  /\ UNCHANGED <<on, dial, addr, remote, dimmer, handle, data, flag, home, was, torn,
                 init_vars, stops>>

(* A database that is open goes on without a file.                          *)
RemoveDb(place) ==
  /\ reader = place
  /\ handle' = [handle EXCEPT ![place] = IF @ = "open" THEN "removed" ELSE @]
  /\ UNCHANGED <<on, dial, addr, texts, home, init_vars, stops>>

RemoveRemote ==
  /\ RemoveDb("remote") /\ remote' = <<>>
  /\ reader' = "dimmer"
  /\ UNCHANGED <<dimmer, data, flag, was, torn>>

RemoveDimmer ==
  /\ RemoveDb("dimmer") /\ dimmer' = <<>>
  /\ ReaderEnds("done")
  /\ torn' = FALSE
  /\ UNCHANGED remote

remove_all_files ==
  \/ RemoveText("photometric", "scene") \/ RemoveText("scene", "remote")
  \/ RemoveRemote \/ RemoveDimmer

--------------------------------------------------------------------------------
(* The thread remote_init_thread.                                           *)

(* It waits until the file exists; what it reads from an empty one is left  *)
(* to chance.                                                               *)
parse_addr_file ==
  /\ init = "parse" /\ addr # Missing
  /\ dev_addr' \in IF addr = Empty THEN Strays ELSE {addr}
  /\ init' = "remote"
  /\ UNCHANGED <<on, dial, addr, texts, remote, dimmer, handle, read_addr_vars, i, j, stops>>

DbOpen(db) ==
  /\ init = db /\ handle[db] = "closed"
  /\ handle' = [handle EXCEPT ![db] = "open"]
  /\ UNCHANGED <<on, dial, addr, texts, remote, dimmer, read_addr_vars, init_vars, stops>>

BrokenInsertAlways(num) == Append(remote, num)

(* remote afterwards, when row num has been looked for.                     *)
InsertRemote(num) ==
  IF \E k \in DOMAIN remote : remote[k] = num THEN remote ELSE Append(remote, num)

(* One turn of the loop.  Statements on a removed file leave no trace.      *)
remote_table_init ==
  /\ init = "remote" /\ handle["remote"] # "closed"
  /\ IF i < KEYS
     THEN /\ i' = i + 1 /\ UNCHANGED init
          /\ remote' = IF handle["remote"] = "open" THEN InsertRemote(i + 1) ELSE remote
     ELSE i' = 0 /\ init' = "dimmer" /\ UNCHANGED remote
  /\ UNCHANGED <<on, dial, addr, texts, dimmer, handle, read_addr_vars, dev_addr, j, stops>>

if_dimmer_exist(dev) == \E k \in DOMAIN dimmer : dimmer[k].dev = dev

(* A module that has rows is passed over, and so is the increment of the    *)
(* address.                                                                 *)
dimmer_table_init ==
  /\ init = "dimmer" /\ handle["dimmer"] # "closed"
  /\ IF i = DIMMER_CNT
     THEN InitEnds("done")
     ELSE /\ IF if_dimmer_exist(dev_addr)
             THEN i' = i + 1 /\ UNCHANGED init
             ELSE init' = "rows" /\ UNCHANGED i
          /\ j' = 0 /\ UNCHANGED dev_addr
  /\ UNCHANGED <<on, dial, addr, texts, remote, dimmer, handle, read_addr_vars, stops>>

InsertDimmer ==
  /\ init = "rows"
  /\ IF j < SUBS
     THEN /\ dimmer' = IF handle["dimmer"] = "open"
                       THEN Append(dimmer, [dev |-> dev_addr, sub |-> j]) ELSE dimmer
          /\ j' = j + 1
          /\ UNCHANGED <<init, i, dev_addr>>
     ELSE /\ init' = "dimmer" /\ i' = i + 1 /\ j' = 0
          /\ dev_addr' = UCHAR(dev_addr + 1)
          /\ UNCHANGED dimmer
  /\ UNCHANGED <<on, dial, addr, texts, remote, handle, read_addr_vars, stops>>

read_addr == ReadDial \/ save_to_addr \/ WriteAddr \/ remove_all_files

remote_init_thread ==
  \/ parse_addr_file \/ DbOpen("remote") \/ DbOpen("dimmer")
  \/ remote_table_init \/ dimmer_table_init \/ InsertDimmer

StartupNext == main \/ Stop \/ Turn \/ Save \/ read_addr \/ remote_init_thread

StartupSpec == StartupInit /\ [][StartupNext]_startup

--------------------------------------------------------------------------------
(* Properties.                                                              *)

(* Type invariant.                                                          *)
StartupTypeOK ==
  /\ on \in BOOLEAN /\ dial \in Dials
  /\ addr \in 0 .. 240 \cup {Missing, Empty}
  /\ texts \subseteq Texts
  /\ remote \in Seq(1 .. KEYS) /\ dimmer \in Seq([dev : 0 .. 255, sub : Nat])
  /\ handle \in [{"remote", "dimmer"} -> {"closed", "open", "removed"}]
  /\ reader \in {"off", "dial", "open", "write", "photometric", "scene",
                 "remote", "dimmer", "done"}
  /\ data \in 0 .. 240 /\ flag \in 0 .. 2
  /\ init \in {"off", "parse", "remote", "dimmer", "rows", "done"}
  /\ dev_addr \in 0 .. 255 /\ i \in Nat /\ j \in Nat
  /\ home \in 0 .. 240 \cup {Missing} /\ was \in 0 .. 240 \cup {Missing}
  /\ torn \in BOOLEAN /\ stops \in 0 .. MaxStops

(* What the user has set up is only lost when the dial was turned, as the   *)
(* README warns: no file is removed while the dial is where it was, however *)
(* often and wherever the gateway was stopped, except in the one place      *)
(* where addr.txt is empty.                                                 *)
Loses == \/ texts \ texts' # {}
         \/ Len(remote') < Len(remote)
         \/ Len(dimmer') < Len(dimmer)
KeptUnlessDialChanged == [][Loses => torn \/ was # data]_startup

(* The same wherever the gateway was stopped ("Persist runtime state",      *)
(* README.md:26).                                                           *)
KeptThroughStops == [][Loses => was # data]_startup

(* dimmer_table_read takes the rows of a module by their order, and the     *)
(* rows of a sensor are found by number: however often the tables are       *)
(* filled, after whatever stops, no row is there twice or out of order.     *)
RowsInOrder ==
  /\ \A k, m \in DOMAIN remote : k < m => remote[k] < remote[m]
  /\ \A k, m \in DOMAIN dimmer :
       k < m /\ dimmer[k].dev = dimmer[m].dev => dimmer[k].sub < dimmer[m].sub

(* "The dimmer database stores the current value of each module subaddress" *)
(* (README.md:249): after a complete start there is a row for each.         *)
TablesComplete ==
  reader = "done" /\ init = "done" =>
    \A k \in 0 .. DIMMER_CNT - 1, s \in 0 .. SUBS - 1 :
      \E m \in DOMAIN dimmer : dimmer[m] = [dev |-> UCHAR(addr + k), sub |-> s]

================================================================================
