------------------------------ MODULE StartupProofs ----------------------------
(****************************************************************************)
(* Theorems about Startup and Enrollment, for all dials, numbers of modules *)
(* and rows, and any number of stops, presses and answers.                  *)
(*                                                                          *)
(* IInv: away from the moment in which addr.txt is empty, it holds the      *)
(* address that was last written, unless a stop has left it empty.  So flag *)
(* is 0 only if the dial was turned, or after such a stop.  The rows of     *)
(* remote.db are numbered without gaps, as far as the loop has come.        *)
(*                                                                          *)
(* EnrollInv: whatever announces a module, the button, the main loop or a   *)
(* row of the queue, all modules before it have been accepted.              *)
(****************************************************************************)
EXTENDS Enrollment, WellFoundedInduction, TLAPS

(* The places of read_addr in which it removes a file.                      *)
Removing == {"photometric", "scene", "remote", "dimmer"}

(* The address in the file.                                                 *)
AddrInv ==
  /\ ~ torn /\ reader # "write" => addr = home
  /\ reader \in Removing => addr = home

(* Files are removed only after a change of the dial, or such a stop.       *)
FlagInv ==
  (reader \in {"open", "write"} /\ flag = 0) \/ reader \in Removing => torn \/ was # data

(* The rows of remote.db are those from 1 on, without a gap.                *)
RemoteInv ==
  /\ \A k \in DOMAIN remote : remote[k] = k
  /\ init = "parse" => i = 0 /\ handle["remote"] = "closed"
  /\ init = "remote" /\ handle["remote"] = "closed" => i = 0
  /\ init = "remote" /\ handle["remote"] = "open" => i <= Len(remote)

(* The rows of a module in dimmer.db ascend.                                *)
DimmerInv ==
  /\ \A k, m \in DOMAIN dimmer :
       k < m /\ dimmer[k].dev = dimmer[m].dev => dimmer[k].sub < dimmer[m].sub
  /\ init = "rows" /\ handle["dimmer"] = "open" =>
       \A k \in DOMAIN dimmer : dimmer[k].dev = dev_addr => dimmer[k].sub < j
  /\ init = "rows" => handle["dimmer"] # "closed"

(* What is off has no threads and no open database.                         *)
OffInv ==
  ~ on => reader = "off" /\ init = "off" /\ i = 0 /\ handle["remote"] = "closed"

(* The inductive invariant of the start-up.                                 *)
IInv == StartupTypeOK /\ OffInv /\ AddrInv /\ FlagInv /\ RemoteInv /\ DimmerInv

--------------------------------------------------------------------------------

(* The first address matches itself.                                        *)
LEMMA OwnAddressMatches ==
  ASSUME addr \in 0 .. 240
  PROVE  match_addr_flag(addr)
<1>1. 1 \in 1 .. DIMMER_CNT
  BY StartupAssumption DEF StartupAssumption
<1>2. BeginsWith(addr + 1 - 1, addr)
  <2>1. addr + 1 - 1 = addr /\ addr \div 1 = addr
    OBVIOUS
  <2> QED BY <2>1 DEF BeginsWith
<1>3. addr # Empty
  BY StartupAssumption DEF StartupAssumption
<1> QED BY <1>1, <1>2, <1>3 DEF match_addr_flag, match_addr

(* The types of what main, the user and read_addr change.                   *)
ReaderTypes ==
  /\ on \in BOOLEAN /\ dial \in Dials /\ stops \in 0 .. MaxStops
  /\ addr \in 0 .. 240 \cup {Missing, Empty}
  /\ home \in 0 .. 240 \cup {Missing} /\ was \in 0 .. 240 \cup {Missing}
  /\ reader \in {"off", "dial", "open", "write", "photometric", "scene",
                 "remote", "dimmer", "done"}
  /\ data \in 0 .. 240 /\ flag \in 0 .. 2
  /\ torn \in BOOLEAN /\ texts \subseteq Texts

(* The types of what remote_init_thread alone changes.                      *)
TableTypes ==
  /\ handle \in [{"remote", "dimmer"} -> {"closed", "open", "removed"}]
  /\ remote \in Seq(1 .. KEYS) /\ dimmer \in Seq([dev : 0 .. 255, sub : Nat])
  /\ init \in {"off", "parse", "remote", "dimmer", "rows", "done"}
  /\ dev_addr \in 0 .. 255 /\ i \in Nat /\ j \in Nat

(* The type invariant, in two parts.                                        *)
LEMMA Types == StartupTypeOK <=> ReaderTypes /\ TableTypes
BY DEF StartupTypeOK, ReaderTypes, TableTypes

(* Of the constants: addresses are bytes, and the two marks are none.       *)
LEMMA Bytes ==
  /\ Dials \subseteq 0 .. 255 /\ Strays \subseteq 0 .. 255
  /\ KEYS \in Nat /\ MaxStops \in Nat
  /\ Missing # Empty /\ Missing \notin 0 .. 255 /\ Empty \notin 0 .. 255
BY StartupAssumption DEF StartupAssumption

(* The invariant holds as the gateway is delivered.                         *)
LEMMA InitIInv == StartupInit => IInv
<1> SUFFICES ASSUME StartupInit PROVE IInv
  OBVIOUS
<1>0. on \in BOOLEAN /\ torn \in BOOLEAN
  BY DEF StartupInit
<1>1. ReaderTypes
  BY <1>0, Bytes DEF StartupInit, ReaderTypes
<1>2. TableTypes
  BY DEF StartupInit, TableTypes
<1>3. OffInv /\ AddrInv /\ FlagInv /\ RemoteInv /\ DimmerInv
  BY DEF StartupInit, OffInv, AddrInv, FlagInv, RemoteInv, DimmerInv, Removing
<1> QED BY <1>1, <1>2, <1>3, Types DEF IInv

--------------------------------------------------------------------------------
(* Types.                                                                   *)

(* The types are kept by main, the user and a stop ...                      *)
LEMMA StartType ==
  ASSUME ReaderTypes, TableTypes, main \/ Stop \/ Turn \/ Save
  PROVE  ReaderTypes' /\ TableTypes'
<1>1. CASE main
  <2>1. ReaderTypes' BY <1>1 DEF main, ReaderTypes
  <2>2. TableTypes' BY <1>1 DEF main, TableTypes
  <2> QED BY <2>1, <2>2
<1>2. CASE Stop
  <2>1. stops' \in 0 .. MaxStops
    BY <1>2, Bytes DEF Stop, ReaderTypes
  <2>0. on' \in BOOLEAN /\ torn' \in BOOLEAN
    BY <1>2 DEF Stop
  <2>2. ReaderTypes'
    BY <1>2, <2>0, <2>1 DEF Stop, ReaderEnds, ReaderTypes
  <2>3. TableTypes'
    BY <1>2 DEF Stop, InitEnds, TableTypes
  <2> QED BY <2>2, <2>3
<1>3. CASE Turn
  <2>1. ReaderTypes' BY <1>3 DEF Turn, read_addr_vars, ReaderTypes
  <2>2. TableTypes' BY <1>3 DEF Turn, init_vars, TableTypes
  <2> QED BY <2>1, <2>2
<1>4. CASE Save
  <2>1. ReaderTypes' BY <1>4 DEF Save, read_addr_vars, ReaderTypes
  <2>2. TableTypes' BY <1>4 DEF Save, init_vars, TableTypes
  <2> QED BY <2>1, <2>2
<1> QED BY <1>1, <1>2, <1>3, <1>4

(* ... by read_addr ...                                                     *)
LEMMA ReaderType ==
  ASSUME ReaderTypes, TableTypes, read_addr
  PROVE  ReaderTypes' /\ TableTypes'
<1>1. CASE ReadDial
  <2>1. data' \in 0 .. 240
    BY <1>1, Bytes DEF ReadDial, ReaderTypes
  <2>2. ReaderTypes' BY <1>1, <2>1 DEF ReadDial, ReaderTypes
  <2>3. TableTypes' BY <1>1 DEF ReadDial, init_vars, TableTypes
  <2> QED BY <2>2, <2>3
<1>2. CASE save_to_addr
  <2>1. ReaderTypes' BY <1>2 DEF save_to_addr, ReaderTypes
  <2>2. TableTypes' BY <1>2 DEF save_to_addr, init_vars, TableTypes
  <2> QED BY <2>1, <2>2
<1>3. CASE WriteAddr
  <2>1. ReaderTypes' BY <1>3 DEF WriteAddr, ReaderEnds, ReaderTypes
  <2>2. TableTypes' BY <1>3 DEF WriteAddr, init_vars, TableTypes
  <2> QED BY <2>1, <2>2
<1>4. CASE RemoveText("photometric", "scene")
  <2>1. ReaderTypes' BY <1>4 DEF RemoveText, ReaderTypes
  <2>2. TableTypes' BY <1>4 DEF RemoveText, init_vars, TableTypes
  <2> QED BY <2>1, <2>2
<1>5. CASE RemoveText("scene", "remote")
  <2>1. ReaderTypes' BY <1>5 DEF RemoveText, ReaderTypes
  <2>2. TableTypes' BY <1>5 DEF RemoveText, init_vars, TableTypes
  <2> QED BY <2>1, <2>2
<1>6. CASE RemoveRemote
  <2>1. ReaderTypes' BY <1>6 DEF RemoveRemote, RemoveDb, ReaderTypes
  <2>2. TableTypes' BY <1>6 DEF RemoveRemote, RemoveDb, init_vars, TableTypes
  <2> QED BY <2>1, <2>2
<1>7. CASE RemoveDimmer
  <2>0. torn' \in BOOLEAN
    BY <1>7 DEF RemoveDimmer
  <2>1. ReaderTypes' BY <1>7, <2>0 DEF RemoveDimmer, RemoveDb, ReaderEnds, ReaderTypes
  <2>2. TableTypes' BY <1>7 DEF RemoveDimmer, RemoveDb, init_vars, TableTypes
  <2> QED BY <2>1, <2>2
<1> QED BY <1>1, <1>2, <1>3, <1>4, <1>5, <1>6, <1>7 DEF read_addr, remove_all_files

(* ... by remote_init_thread ...                                            *)
LEMMA InitThreadType ==
  ASSUME ReaderTypes, TableTypes, remote_init_thread
  PROVE  ReaderTypes' /\ TableTypes'
<1>0. UNCHANGED <<on, dial, addr, texts, read_addr_vars, stops>>
  BY DEF remote_init_thread, parse_addr_file, DbOpen, remote_table_init,
         dimmer_table_init, InsertDimmer
<1>1. ReaderTypes'
  BY <1>0 DEF read_addr_vars, ReaderTypes
<1>2. CASE parse_addr_file
  <2>1. dev_addr' \in 0 .. 255
    BY <1>2, Bytes DEF parse_addr_file, ReaderTypes
  <2> QED BY <1>1, <1>2, <2>1 DEF parse_addr_file, TableTypes
<1>3. CASE DbOpen("remote")
  BY <1>1, <1>3 DEF DbOpen, init_vars, TableTypes
<1>4. CASE DbOpen("dimmer")
  BY <1>1, <1>4 DEF DbOpen, init_vars, TableTypes
<1>5. CASE remote_table_init
  <2>1. CASE i < KEYS
    <3>1. i + 1 \in 1 .. KEYS /\ i' \in Nat
      BY <1>5, <2>1, Bytes DEF remote_table_init, TableTypes
    <3>0. Append(remote, i + 1) \in Seq(1 .. KEYS)
      BY <3>1 DEF TableTypes
    <3>2. remote' \in Seq(1 .. KEYS)
      BY <1>5, <2>1, <3>0 DEF remote_table_init, InsertRemote, TableTypes
    <3> QED BY <1>1, <1>5, <2>1, <3>1, <3>2 DEF remote_table_init, TableTypes
  <2>2. CASE ~ (i < KEYS)
    BY <1>1, <1>5, <2>2 DEF remote_table_init, TableTypes
  <2> QED BY <2>1, <2>2
<1>6. CASE dimmer_table_init
  <2>1. CASE i = DIMMER_CNT
    BY <1>1, <1>6, <2>1 DEF dimmer_table_init, InitEnds, TableTypes
  <2>2. CASE i # DIMMER_CNT /\ if_dimmer_exist(dev_addr)
    BY <1>1, <1>6, <2>2 DEF dimmer_table_init, TableTypes
  <2>3. CASE i # DIMMER_CNT /\ ~ if_dimmer_exist(dev_addr)
    BY <1>1, <1>6, <2>3 DEF dimmer_table_init, TableTypes
  <2> QED BY <2>1, <2>2, <2>3
<1>7. CASE InsertDimmer
  <2>1. CASE j < SUBS
    <3>1. Append(dimmer, [dev |-> dev_addr, sub |-> j]) \in Seq([dev : 0 .. 255, sub : Nat])
      BY DEF TableTypes
    <3>2. dimmer' \in Seq([dev : 0 .. 255, sub : Nat])
      BY <1>7, <2>1, <3>1 DEF InsertDimmer, TableTypes
    <3> QED BY <1>1, <1>7, <2>1, <3>2 DEF InsertDimmer, TableTypes
  <2>2. CASE ~ (j < SUBS)
    <3>1. dev_addr' \in 0 .. 255
      BY <1>7, <2>2 DEF InsertDimmer, UCHAR, TableTypes
    <3> QED BY <1>1, <1>7, <2>2, <3>1 DEF InsertDimmer, TableTypes
  <2> QED BY <2>1, <2>2
<1> QED BY <1>2, <1>3, <1>4, <1>5, <1>6, <1>7 DEF remote_init_thread

(* ... and so by every step.                                                *)
LEMMA TypeStep == StartupTypeOK /\ [StartupNext]_startup => StartupTypeOK'
<1> SUFFICES ASSUME StartupTypeOK, [StartupNext]_startup PROVE StartupTypeOK'
  OBVIOUS
<1>0. ReaderTypes /\ TableTypes
  BY Types
<1>1. CASE main \/ Stop \/ Turn \/ Save
  BY <1>0, <1>1, StartType, Types DEF StartupTypeOK, ReaderTypes, TableTypes
<1>2. CASE read_addr
  BY <1>0, <1>2, ReaderType, Types DEF StartupTypeOK, ReaderTypes, TableTypes
<1>3. CASE remote_init_thread
  BY <1>0, <1>3, InitThreadType, Types DEF StartupTypeOK, ReaderTypes, TableTypes
<1>4. CASE UNCHANGED startup
  BY <1>4 DEF startup, read_addr_vars, init_vars, StartupTypeOK
<1> QED BY <1>1, <1>2, <1>3, <1>4 DEF StartupNext

--------------------------------------------------------------------------------
(* A gateway that is off has no threads.                                    *)

(* A step keeps OffInv.                                                     *)
LEMMA OffStep ==
  ASSUME TableTypes, OffInv, StartupNext
  PROVE  OffInv'
<1> USE DEF OffInv
<1>1. CASE main
  BY <1>1 DEF main
<1>2. CASE Stop
  BY <1>2 DEF Stop, ReaderEnds, InitEnds, TableTypes
<1>3. CASE Turn \/ Save
  BY <1>3 DEF Turn, Save, read_addr_vars, init_vars
<1>4. CASE read_addr
  <2>1. reader # "off" /\ UNCHANGED on
    BY <1>4 DEF read_addr, remove_all_files, ReadDial, save_to_addr, WriteAddr,
                RemoveText, RemoveRemote, RemoveDimmer, RemoveDb
  <2> QED BY <2>1
<1>5. CASE remote_init_thread
  <2>1. init # "off" /\ UNCHANGED on
    BY <1>5 DEF remote_init_thread, parse_addr_file, DbOpen, remote_table_init,
                dimmer_table_init, InsertDimmer
  <2> QED BY <2>1
<1> QED BY <1>1, <1>2, <1>3, <1>4, <1>5 DEF StartupNext

--------------------------------------------------------------------------------
(* The address file.                                                        *)

(* A step keeps what is said of the file and of flag.                       *)
LEMMA AddrStep ==
  ASSUME ReaderTypes, OffInv, AddrInv, FlagInv, StartupNext
  PROVE  AddrInv' /\ FlagInv'
<1> USE DEF AddrInv, FlagInv, Removing
<1>1. CASE main
  BY <1>1 DEF main, OffInv
<1>2. CASE Stop
  BY <1>2 DEF Stop, ReaderEnds
<1>3. CASE Turn \/ Save
  BY <1>3 DEF Turn, Save, read_addr_vars
<1>4. CASE ReadDial
  <2>1. AddrInv'
    BY <1>4 DEF ReadDial
  <2>2. ASSUME flag' = 0 PROVE torn' \/ was' # data'
    <3>1. SUFFICES ASSUME ~ torn, home = dial PROVE FALSE
      BY <1>4 DEF ReadDial
    <3>2. addr = dial
      BY <1>4, <3>1 DEF ReadDial
    <3>3. addr # Missing /\ addr \in 0 .. 240
      BY <1>4, <3>2, Bytes DEF ReadDial, ReaderTypes
    <3>4. match_addr_flag(dial)
      BY <3>2, <3>3, OwnAddressMatches
    <3>5. flag' = 1
      BY <1>4, <3>3, <3>4 DEF ReadDial
    <3> QED BY <2>2, <3>5
  <2>3. FlagInv'
    BY <1>4, <2>2 DEF ReadDial
  <2> QED BY <2>1, <2>3
<1>5. CASE save_to_addr
  BY <1>5 DEF save_to_addr
<1>6. CASE WriteAddr
  BY <1>6 DEF WriteAddr, ReaderEnds
<1>7. CASE RemoveText("photometric", "scene") \/ RemoveText("scene", "remote")
  BY <1>7 DEF RemoveText
<1>8. CASE RemoveRemote
  BY <1>8 DEF RemoveRemote, RemoveDb
<1>9. CASE RemoveDimmer
  BY <1>9 DEF RemoveDimmer, RemoveDb, ReaderEnds
<1>10. CASE remote_init_thread
  <2>1. UNCHANGED <<addr, read_addr_vars>>
    BY <1>10 DEF remote_init_thread, parse_addr_file, DbOpen, remote_table_init,
                 dimmer_table_init, InsertDimmer
  <2> QED BY <2>1 DEF read_addr_vars
<1> QED BY <1>1, <1>2, <1>3, <1>4, <1>5, <1>6, <1>7, <1>8, <1>9, <1>10
        DEF StartupNext, read_addr, remove_all_files

--------------------------------------------------------------------------------
(* The tables.                                                              *)

(* All actions but those of the tables' thread, and their end.              *)
LEMMA OthersKeepRows ==
  ASSUME TableTypes, OffInv, RemoteInv, DimmerInv, main \/ Stop \/ Turn \/ Save \/ read_addr
  PROVE  RemoteInv' /\ DimmerInv'
<1>1. CASE main
  BY <1>1 DEF main, OffInv, RemoteInv, DimmerInv, TableTypes
<1>2. CASE Stop
  BY <1>2 DEF Stop, InitEnds, RemoteInv, DimmerInv
<1>3. CASE UNCHANGED <<remote, dimmer, handle, init_vars>>
  BY <1>3 DEF init_vars, RemoteInv, DimmerInv
<1>4. CASE RemoveRemote
  <2>1. RemoteInv'
    BY <1>4 DEF RemoveRemote, RemoveDb, init_vars, RemoteInv, TableTypes
  <2>2. DimmerInv'
    BY <1>4 DEF RemoveRemote, RemoveDb, init_vars, DimmerInv, TableTypes
  <2> QED BY <2>1, <2>2
<1>5. CASE RemoveDimmer
  <2>1. RemoteInv'
    BY <1>5 DEF RemoveDimmer, RemoveDb, init_vars, RemoteInv, TableTypes
  <2>2. DimmerInv'
    BY <1>5 DEF RemoveDimmer, RemoveDb, init_vars, DimmerInv, TableTypes
  <2> QED BY <2>1, <2>2
<1>6. Turn \/ Save \/ ReadDial \/ save_to_addr \/ WriteAddr
        \/ RemoveText("photometric", "scene") \/ RemoveText("scene", "remote")
        => UNCHANGED <<remote, dimmer, handle, init_vars>>
  BY DEF Turn, Save, ReadDial, save_to_addr, WriteAddr, RemoveText
<1> QED BY <1>1, <1>2, <1>3, <1>4, <1>5, <1>6 DEF read_addr, remove_all_files

(* A row that is not there is the next number: it goes to its place.        *)
LEMMA InsertRemoteKeeps ==
  ASSUME TableTypes, RemoteInv, init = "remote", handle["remote"] = "open"
  PROVE  /\ \A k \in DOMAIN InsertRemote(i + 1) : InsertRemote(i + 1)[k] = k
         /\ i + 1 <= Len(InsertRemote(i + 1))
<1>1. /\ \A k \in DOMAIN remote : remote[k] = k
      /\ i <= Len(remote) /\ i \in Nat /\ remote \in Seq(1 .. KEYS)
  BY DEF RemoteInv, TableTypes
<1>2. CASE \E k \in DOMAIN remote : remote[k] = i + 1
  BY <1>1, <1>2 DEF InsertRemote
<1>3. CASE ~ \E k \in DOMAIN remote : remote[k] = i + 1
  <2>1. i = Len(remote)
    <3>1. i + 1 \notin DOMAIN remote
      BY <1>1, <1>3
    <3> QED BY <1>1, <3>1
  <2>2. InsertRemote(i + 1) = Append(remote, i + 1)
    BY <1>3 DEF InsertRemote
  <2>3. /\ DOMAIN Append(remote, i + 1) = 1 .. Len(remote) + 1
        /\ Len(Append(remote, i + 1)) = Len(remote) + 1
        /\ \A k \in 1 .. Len(remote) + 1 :
             Append(remote, i + 1)[k] = IF k <= Len(remote) THEN remote[k] ELSE i + 1
    BY <1>1
  <2> QED BY <1>1, <2>1, <2>2, <2>3
<1> QED BY <1>2, <1>3

(* The tables' thread keeps the rows of remote.db in their places ...       *)
LEMMA RemoteStep ==
  ASSUME TableTypes, RemoteInv, remote_init_thread
  PROVE  RemoteInv'
<1>1. CASE parse_addr_file
  BY <1>1 DEF parse_addr_file, RemoteInv
<1>2. CASE DbOpen("remote")
  <2>1. init = "remote" /\ i = 0 /\ UNCHANGED <<remote, init, i>>
    BY <1>2 DEF DbOpen, init_vars, RemoteInv
  <2>2. Len(remote) \in Nat
    BY DEF TableTypes
  <2>3. i <= Len(remote)
    BY <2>1, <2>2
  <2> QED BY <2>1, <2>3 DEF RemoteInv
<1>3. CASE DbOpen("dimmer")
  BY <1>3 DEF DbOpen, init_vars, RemoteInv
<1>4. CASE remote_table_init
  <2>1. CASE i < KEYS /\ handle["remote"] = "open"
    <3>1. /\ remote' = InsertRemote(i + 1) /\ i' = i + 1 /\ init = "remote"
          /\ UNCHANGED <<init, handle>>
      BY <1>4, <2>1 DEF remote_table_init
    <3>2. /\ \A k \in DOMAIN remote' : remote'[k] = k
          /\ i' <= Len(remote')
      BY <2>1, <3>1, InsertRemoteKeeps
    <3> QED BY <2>1, <3>1, <3>2 DEF RemoteInv
  <2>2. CASE ~ (i < KEYS /\ handle["remote"] = "open")
    BY <1>4, <2>2 DEF remote_table_init, RemoteInv
  <2> QED BY <2>1, <2>2
<1>5. CASE dimmer_table_init \/ InsertDimmer
  <2>1. UNCHANGED <<remote, handle>> /\ init' \in {"dimmer", "rows", "done"}
    BY <1>5 DEF dimmer_table_init, InsertDimmer, InitEnds
  <2> QED BY <2>1 DEF RemoteInv
<1> QED BY <1>1, <1>2, <1>3, <1>4, <1>5 DEF remote_init_thread

(* The numbers of the rows of dimmer.db.                                    *)
LEMMA DimmerRow ==
  ASSUME TableTypes
  PROVE  \A k \in DOMAIN dimmer : dimmer[k].sub \in Nat
<1> DEFINE Rows == [dev : 0 .. 255, sub : Nat]
<1>1. dimmer \in Seq(Rows)
  BY DEF TableTypes
<1> HIDE DEF Rows
<1>2. \A k \in DOMAIN dimmer : dimmer[k] \in Rows
  BY <1>1
<1> QED BY <1>2 DEF Rows

(* ... and those of a module in dimmer.db in order.                         *)
LEMMA DimmerStep ==
  ASSUME TableTypes, DimmerInv, remote_init_thread
  PROVE  DimmerInv'
<1>1. CASE parse_addr_file
  BY <1>1 DEF parse_addr_file, DimmerInv
<1>2. CASE DbOpen("remote") \/ DbOpen("dimmer")
  BY <1>2 DEF DbOpen, init_vars, DimmerInv
<1>3. CASE remote_table_init
  <2>1. UNCHANGED dimmer /\ init' # "rows"
    BY <1>3 DEF remote_table_init
  <2> QED BY <2>1 DEF DimmerInv
<1>4. CASE dimmer_table_init
  <2>1. UNCHANGED <<dimmer, handle>> /\ handle["dimmer"] # "closed"
    BY <1>4 DEF dimmer_table_init
  <2>2. init' = "rows" => ~ if_dimmer_exist(dev_addr) /\ dev_addr' = dev_addr
    BY <1>4 DEF dimmer_table_init, InitEnds
  <2> QED BY <2>1, <2>2 DEF DimmerInv, if_dimmer_exist
<1>5. CASE InsertDimmer
  <2>1. CASE j < SUBS /\ handle["dimmer"] = "open"
    <3> DEFINE row == [dev |-> dev_addr, sub |-> j]
    <3>1. dimmer' = Append(dimmer, row) /\ j' = j + 1 /\ UNCHANGED <<init, dev_addr, handle>>
      BY <1>5, <2>1 DEF InsertDimmer
    <3>2. /\ DOMAIN dimmer = 1 .. Len(dimmer) /\ Len(dimmer) \in Nat /\ j \in Nat
          /\ DOMAIN dimmer' = 1 .. Len(dimmer) + 1
          /\ \A k \in 1 .. Len(dimmer) + 1 :
               dimmer'[k] = IF k <= Len(dimmer) THEN dimmer[k] ELSE row
      BY <3>1 DEF TableTypes
    <3>3. \A k \in DOMAIN dimmer : dimmer[k].sub \in Nat
      BY DimmerRow
    <3>4. \A k \in DOMAIN dimmer : dimmer[k].dev = dev_addr => dimmer[k].sub < j
      BY <1>5, <2>1 DEF InsertDimmer, DimmerInv
    <3>5. ASSUME NEW k \in DOMAIN dimmer', NEW m \in DOMAIN dimmer', k < m,
                 dimmer'[k].dev = dimmer'[m].dev
          PROVE  dimmer'[k].sub < dimmer'[m].sub
      <4>1. k \in DOMAIN dimmer /\ dimmer'[k] = dimmer[k]
        BY <3>2, <3>5
      <4>2. CASE m \in DOMAIN dimmer
        BY <3>2, <3>5, <4>1, <4>2 DEF DimmerInv
      <4>3. CASE m = Len(dimmer) + 1
        <5>1. dimmer'[m] = row
          BY <3>2, <4>3
        <5> QED BY <3>4, <3>5, <4>1, <5>1
      <4> QED BY <3>2, <4>2, <4>3
    <3>6. \A k \in DOMAIN dimmer' : dimmer'[k].dev = dev_addr' => dimmer'[k].sub < j'
      <4>1. SUFFICES ASSUME NEW k \in DOMAIN dimmer', dimmer'[k].dev = dev_addr
                     PROVE  dimmer'[k].sub < j + 1
        BY <3>1
      <4>2. CASE k \in DOMAIN dimmer
        <5>1. dimmer[k].sub < j
          BY <3>2, <3>4, <4>1, <4>2
        <5> QED BY <3>2, <3>3, <4>2, <5>1
      <4>3. CASE k = Len(dimmer) + 1
        BY <3>2, <4>3
      <4> QED BY <3>2, <4>2, <4>3
    <3> QED BY <3>1, <3>5, <3>6, <2>1 DEF DimmerInv
  <2>2. CASE ~ (j < SUBS) \/ handle["dimmer"] # "open"
    <3>1. UNCHANGED <<dimmer, handle>> /\ (init' = "rows" => handle["dimmer"] # "open")
      BY <1>5, <2>2 DEF InsertDimmer
    <3>2. init' = "rows" => handle["dimmer"] # "closed"
      BY <1>5 DEF InsertDimmer, DimmerInv
    <3> QED BY <3>1, <3>2 DEF DimmerInv
  <2> QED BY <2>1, <2>2
<1> QED BY <1>1, <1>2, <1>3, <1>4, <1>5 DEF remote_init_thread

--------------------------------------------------------------------------------
(* Theorems.                                                                *)

(* A step keeps the invariant.                                              *)
LEMMA NextIInv == IInv /\ [StartupNext]_startup => IInv'
<1> SUFFICES ASSUME IInv, [StartupNext]_startup PROVE IInv'
  OBVIOUS
<1>1. StartupTypeOK'
  BY TypeStep DEF IInv
<1>2. ReaderTypes /\ TableTypes
  BY Types DEF IInv
<1>3. CASE StartupNext
  <2>0. OffInv'
    BY <1>2, <1>3, OffStep DEF IInv
  <2>1. AddrInv' /\ FlagInv'
    BY <1>2, <1>3, AddrStep DEF IInv
  <2>2. RemoteInv' /\ DimmerInv'
    BY <1>2, <1>3, OthersKeepRows, RemoteStep, DimmerStep DEF IInv, StartupNext
  <2> QED BY <1>1, <2>0, <2>1, <2>2 DEF IInv
<1>4. CASE UNCHANGED startup
  <2>0. OffInv'
    BY <1>4 DEF IInv, startup, read_addr_vars, init_vars, OffInv
  <2>1. AddrInv' /\ FlagInv'
    BY <1>4 DEF IInv, startup, read_addr_vars, AddrInv, FlagInv
  <2>2. RemoteInv' /\ DimmerInv'
    BY <1>4 DEF IInv, startup, init_vars, RemoteInv, DimmerInv
  <2> QED BY <1>1, <2>0, <2>1, <2>2 DEF IInv
<1> QED BY <1>3, <1>4

(* The inductive invariant.                                                 *)
THEOREM Inductive == StartupSpec => []IInv
<1> QED BY InitIInv, NextIInv, PTL DEF StartupSpec

(* Type correctness.                                                        *)
THEOREM TypeCorrect == StartupSpec => []StartupTypeOK
<1>1. IInv => StartupTypeOK
  BY DEF IInv
<1> QED BY <1>1, Inductive, PTL

(* No row of either database is ever there twice or out of order.           *)
THEOREM RowsStayInOrder == StartupSpec => []RowsInOrder
<1>1. IInv => RowsInOrder
  <2> SUFFICES ASSUME IInv PROVE RowsInOrder
    OBVIOUS
  <2>1. \A k, m \in DOMAIN remote : k < m => remote[k] < remote[m]
    BY DEF IInv, RemoteInv
  <2> QED BY <2>1 DEF IInv, DimmerInv, RowsInOrder
<1> QED BY <1>1, Inductive, PTL

(* Files are lost only when the dial was turned, or a stop has left         *)
(* addr.txt empty.                                                          *)
THEOREM FilesKept == StartupSpec => KeptUnlessDialChanged
<1>1. IInv /\ [StartupNext]_startup => [Loses => torn \/ was # data]_startup
  <2> SUFFICES ASSUME IInv, StartupNext, Loses PROVE torn \/ was # data
    OBVIOUS
  <2>1. TableTypes
    BY Types DEF IInv
  <2>2. CASE remove_all_files
    BY <2>2 DEF IInv, FlagInv, Removing, remove_all_files, RemoveText, RemoveRemote,
                RemoveDimmer, RemoveDb
  <2>3. CASE main \/ Stop \/ Turn \/ Save \/ ReadDial \/ save_to_addr \/ WriteAddr
    <3>1. texts \subseteq texts' /\ UNCHANGED <<remote, dimmer>>
      BY <2>3 DEF main, Stop, Turn, Save, ReadDial, save_to_addr, WriteAddr
    <3>2. Len(remote) \in Nat /\ Len(dimmer) \in Nat
      BY <2>1 DEF TableTypes
    <3> QED BY <3>1, <3>2 DEF Loses
  <2>4. CASE remote_init_thread
    <3>1. UNCHANGED texts
      BY <2>4 DEF remote_init_thread, parse_addr_file, DbOpen, remote_table_init,
                  dimmer_table_init, InsertDimmer
    <3>2. UNCHANGED remote \/ remote' = Append(remote, i + 1)
      BY <2>4 DEF remote_init_thread, parse_addr_file, DbOpen, remote_table_init,
                  InsertRemote, dimmer_table_init, InsertDimmer
    <3>3. UNCHANGED dimmer \/ dimmer' = Append(dimmer, [dev |-> dev_addr, sub |-> j])
      BY <2>4 DEF remote_init_thread, parse_addr_file, DbOpen, remote_table_init,
                  dimmer_table_init, InsertDimmer
    <3>4. Len(remote) \in Nat /\ Len(dimmer) \in Nat
          /\ Len(remote) <= Len(remote') /\ Len(dimmer) <= Len(dimmer')
      BY <2>1, <3>2, <3>3 DEF TableTypes
    <3> QED BY <3>1, <3>4 DEF Loses
  <2> QED BY <2>2, <2>3, <2>4 DEF StartupNext, read_addr
<1> QED BY <1>1, Inductive, PTL DEF StartupSpec, KeptUnlessDialChanged

--------------------------------------------------------------------------------
(* Enrollment.                                                              *)

(* The two threads of Startup run on whatever is enrolled meanwhile, so all *)
(* of the above holds of Enrollment as well.                                *)
THEOREM StartupRefinement == Spec => StartupSpec
<1>1. Init => StartupInit
  BY DEF Init
<1>2. [Next]_vars => [StartupNext]_startup
  BY DEF Next, vars, Begin, End, Background, Press, monitor_button, cbus_enqueue, Light,
         Network, AnswerOthers, send_innet_cmd, TakeAnswer, SendNext, StartupNext
<1> QED BY <1>1, <1>2, PTL DEF Spec, StartupSpec

(* The addresses that are ever in addr.txt.                                 *)
Accepted == Dials \cap (0 .. 240)

(* No module of others has an address with which the number of one of ours  *)
(* begins: match_addr would take it for ours.                               *)
ForeignApart ==
  \A d \in Accepted, k \in 1 .. qy_dev_num, dev \in Foreign : ~ BeginsWith(d + k - 1, dev)

(* Once read_addr has written addr.txt, it remains as it is.                *)
Settled == reader \in {"photometric", "scene", "remote", "dimmer", "done"}

(* addr.txt holds an address that the dial may have.                        *)
DialInv ==
  /\ addr \in Accepted \cup {Missing, Empty}
  /\ reader \in {"open", "write"} => data \in Accepted
  /\ Settled => addr \in Accepted

(* The module that dev is the address of may be announced: all before it    *)
(* have been accepted.                                                      *)
InTurn(dev) == Settled /\ \E k \in 1 .. qy_dev_num :
  dev = LineOf(k) /\ \A m \in 1 .. k - 1 : LineOf(m) \in accepted

(* What is announced, by whomever, is announced in its turn, and an answer  *)
(* is of a module that has been, or of others.                              *)
TurnInv == ~ early =>
  /\ button = "enqueue" => InTurn(pressed)
  /\ loop = "sleep" => InTurn(next)
  /\ \A k \in DOMAIN queue_write : InTurn(queue_write[k])
  /\ \A k \in DOMAIN queue_read : queue_read[k].ok =>
       \/ queue_read[k].dev \in Foreign
       \/ InTurn(queue_read[k].dev) /\ queue_read[k].dev \in accepted

(* The inductive invariant of the enrollment.                               *)
EnrollInv == TypeOK /\ OffInv /\ DialInv /\ TurnInv

--------------------------------------------------------------------------------
(* The lines of addr.txt.                                                   *)

(* The addresses of the lines are bytes.                                    *)
LEMMA Lines ==
  ASSUME addr \in 0 .. 240
  PROVE  /\ qy_dev_num \in 1 .. 16
         /\ \A k \in 1 .. qy_dev_num : LineOf(k) = addr + k - 1 /\ LineOf(k) \in 0 .. 255
<1>1. qy_dev_num \in 1 .. 16
  BY StartupAssumption DEF StartupAssumption, qy_dev_num
<1>2. ASSUME NEW k \in 1 .. qy_dev_num
      PROVE  LineOf(k) = addr + k - 1 /\ LineOf(k) \in 0 .. 255
  <2>1. addr + k - 1 \in 0 .. 255
    BY <1>1
  <2>2. (addr + k - 1) % 256 = addr + k - 1
    BY <2>1
  <2> QED BY <2>1, <2>2 DEF LineOf, UCHAR
<1> QED BY <1>1, <1>2

(* A number begins with itself and with no greater one.                     *)
LEMMA BeginsAtMost ==
  ASSUME NEW line \in Nat, NEW number \in Nat
  PROVE  /\ BeginsWith(line, line)
         /\ line < number => ~ BeginsWith(line, number)
<1>1. line \div 1 = line /\ line \div 10 <= line /\ line \div 100 <= line
      /\ line \div 10 \in Nat /\ line \div 100 \in Nat
  OBVIOUS
<1> QED BY <1>1 DEF BeginsWith

(* The first line that matches, as match_innet_dev searches it.             *)
IsFirst(seq, dev) ==
  /\ BeginsWith(LineOf(seq), dev)
  /\ \A k \in 1 .. seq - 1 : ~ BeginsWith(LineOf(k), dev)

(* The line of a module of ours is the first that its address matches, for  *)
(* the addresses ascend.                                                    *)
LEMMA FirstIsOwn ==
  ASSUME addr \in 0 .. 240, NEW k \in 1 .. qy_dev_num
  PROVE  match_innet_dev(LineOf(k)) = k + 1
<1> DEFINE dev == LineOf(k)
<1>1. /\ qy_dev_num \in Nat
      /\ \A m \in 1 .. qy_dev_num : LineOf(m) = addr + m - 1 /\ LineOf(m) \in Nat
  BY Lines
<1>2. BeginsWith(dev, dev) /\ dev \in Nat
  BY <1>1, BeginsAtMost
<1> HIDE DEF dev
<1>3. ASSUME NEW m \in 1 .. k - 1 PROVE ~ BeginsWith(LineOf(m), dev)
  <2>1. m \in 1 .. qy_dev_num /\ LineOf(m) < dev /\ LineOf(m) \in Nat
    BY <1>1 DEF dev
  <2> QED BY <1>2, <2>1, BeginsAtMost
<1>4. IsFirst(k, dev)
  BY <1>2, <1>3 DEF IsFirst, dev
<1>5. ASSUME NEW seq \in 1 .. qy_dev_num, IsFirst(seq, dev) PROVE seq = k
  <2>1. ~ (seq < k)
    BY <1>3, <1>5 DEF IsFirst
  <2>2. ~ (k < seq)
    BY <1>2, <1>5 DEF IsFirst, dev
  <2> QED BY <1>1, <2>1, <2>2
<1> DEFINE first == CHOOSE seq \in 1 .. qy_dev_num : IsFirst(seq, dev)
<1>6. match_innet_dev(dev) = 1 + first
  BY DEF match_innet_dev, IsFirst
<1>7. first = k
  <2> DEFINE P(seq) == IsFirst(seq, dev)
  <2>1. P(k) /\ \A seq \in 1 .. qy_dev_num : P(seq) => seq = k
    BY <1>4, <1>5
  <2> HIDE DEF P
  <2>2. (CHOOSE seq \in 1 .. qy_dev_num : P(seq)) = k
    BY <2>1
  <2> QED BY <2>2 DEF P
<1> HIDE DEF first
<1>8. match_innet_dev(dev) = k + 1
  BY <1>1, <1>6, <1>7
<1> QED BY <1>8 DEF dev

(* An address that is taken for ours begins a line.                         *)
LEMMA OwnBeginsLine ==
  ASSUME addr \in 0 .. 240, NEW dev, IsOwn(dev)
  PROVE  \E k \in 1 .. qy_dev_num : BeginsWith(addr + k - 1, dev)
<1>1. DIMMER_CNT \in Nat /\ PIR_NUM \in Nat
  BY StartupAssumption DEF StartupAssumption
<1>2. CASE match_addr(dev, addr, DIMMER_CNT)
  <2>1. PICK n \in 1 .. DIMMER_CNT : BeginsWith(addr + n - 1, dev)
    BY <1>2 DEF match_addr
  <2>2. n \in 1 .. qy_dev_num
    BY <1>1 DEF qy_dev_num
  <2> QED BY <2>1, <2>2
<1>3. CASE match_addr(dev, addr + DIMMER_CNT, PIR_NUM)
  <2>1. PICK n \in 1 .. PIR_NUM : BeginsWith(addr + DIMMER_CNT + n - 1, dev)
    BY <1>3 DEF match_addr
  <2>2. DIMMER_CNT + n \in 1 .. qy_dev_num
        /\ addr + (DIMMER_CNT + n) - 1 = addr + DIMMER_CNT + n - 1
    BY <1>1 DEF qy_dev_num
  <2> QED BY <2>1, <2>2
<1> QED BY <1>2, <1>3 DEF IsOwn

(* So a first such line exists.                                             *)
LEMMA FirstExists ==
  ASSUME addr \in 0 .. 240, NEW dev, IsOwn(dev)
  PROVE  match_innet_dev(dev) \in 2 .. qy_dev_num + 1
<1> DEFINE B == {k \in 1 .. qy_dev_num : BeginsWith(LineOf(k), dev)}
<1>1. /\ qy_dev_num \in Nat
      /\ \A m \in 1 .. qy_dev_num : LineOf(m) = addr + m - 1
  BY Lines
<1>2. B # {} /\ B \subseteq Nat
  <2>1. PICK k \in 1 .. qy_dev_num : BeginsWith(addr + k - 1, dev)
    BY OwnBeginsLine
  <2>2. LineOf(k) = addr + k - 1
    BY <1>1
  <2>3. k \in B
    BY <2>1, <2>2
  <2> QED BY <1>1, <2>3
<1> HIDE DEF B
<1>3. IsWellFoundedOn(OpToRel(<, Nat), Nat)
  BY NatLessThanWellFounded
<1>4. \E m \in B : \A k \in B : ~ (<<k, m>> \in OpToRel(<, Nat))
  BY <1>2, <1>3, WFMin
<1>5. PICK m \in B : \A k \in B : ~ (k < m)
  BY <1>2, <1>4 DEF OpToRel
<1>6. m \in 1 .. qy_dev_num /\ IsFirst(m, dev)
  BY <1>1, <1>5 DEF B, IsFirst
<1>7. match_innet_dev(dev) = 1 + CHOOSE seq \in 1 .. qy_dev_num : IsFirst(seq, dev)
  BY DEF match_innet_dev, IsFirst
<1>8. (CHOOSE seq \in 1 .. qy_dev_num : IsFirst(seq, dev)) \in 1 .. qy_dev_num
  <2> DEFINE P(seq) == IsFirst(seq, dev)
  <2>1. \E seq \in 1 .. qy_dev_num : P(seq)
    BY <1>6
  <2> HIDE DEF P
  <2>2. (CHOOSE seq \in 1 .. qy_dev_num : P(seq)) \in 1 .. qy_dev_num
    BY <2>1
  <2> QED BY <2>2 DEF P
<1> QED BY <1>1, <1>7, <1>8

--------------------------------------------------------------------------------
(* The types of Enrollment.                                                 *)

(* What TypeOK says of the variables that Startup does not have.            *)
EnrollTypes ==
  /\ button \in {"watch", "enqueue", "light"} /\ loop \in {"get_handle", "sleep"}
  /\ pressed \in 0 .. 255 /\ next \in 0 .. 255
  /\ led \in BOOLEAN
  /\ queue_write \in Seq(0 .. 255)
  /\ queue_read \in Seq([dev : 0 .. 255, ok : BOOLEAN])
  /\ accepted \subseteq 0 .. 255
  /\ begun \in BOOLEAN /\ early \in BOOLEAN /\ trouble \in BOOLEAN
  /\ presses \in 0 .. MaxPresses /\ answers \in 0 .. MaxForeign

(* The type invariant, in two parts.                                        *)
LEMMA EnrollTypesAre == TypeOK <=> StartupTypeOK /\ EnrollTypes
BY DEF TypeOK, EnrollTypes

(* What a queue holds when its first is taken.                              *)
LEMMA TailElements ==
  ASSUME NEW S, NEW q \in Seq(S), q # <<>>
  PROVE  /\ Tail(q) \in Seq(S) /\ Head(q) \in S /\ 1 \in DOMAIN q /\ Head(q) = q[1]
         /\ \A k \in DOMAIN Tail(q) : k + 1 \in DOMAIN q /\ Tail(q)[k] = q[k + 1]
OBVIOUS

(* What a queue holds when one is added.                                    *)
LEMMA AppendElements ==
  ASSUME NEW S, NEW q \in Seq(S), NEW x \in S
  PROVE  /\ Append(q, x) \in Seq(S)
         /\ \A k \in DOMAIN Append(q, x) :
              \/ k \in DOMAIN q /\ Append(q, x)[k] = q[k]
              \/ Append(q, x)[k] = x
OBVIOUS

(* The first of the queue of announcements or of answers.                   *)
LEMMA Firsts ==
  ASSUME EnrollTypes
  PROVE  /\ queue_write # <<>> => /\ Tail(queue_write) \in Seq(0 .. 255)
                                  /\ Head(queue_write) \in 0 .. 255
         /\ queue_read # <<>> => /\ Tail(queue_read) \in Seq([dev : 0 .. 255, ok : BOOLEAN])
                                 /\ Head(queue_read).dev \in 0 .. 255
                                 /\ Head(queue_read).ok \in BOOLEAN
<1> DEFINE A == 0 .. 255
           B == [dev : 0 .. 255, ok : BOOLEAN]
<1>1. queue_write \in Seq(A) /\ queue_read \in Seq(B)
  BY DEF EnrollTypes
<1> HIDE DEF A, B
<1>2. queue_write # <<>> => Tail(queue_write) \in Seq(A) /\ Head(queue_write) \in A
  BY <1>1
<1>3. queue_read # <<>> => Tail(queue_read) \in Seq(B) /\ Head(queue_read) \in B
  BY <1>1
<1> QED BY <1>2, <1>3 DEF A, B

(* An address that is announced is a byte.                                  *)
LEMMA AnnouncedByte ==
  ASSUME StartupTypeOK, addr # Missing, NEW seq \in Nat
  PROVE  Announced(seq) \in 0 .. 255
<1>1. CASE addr = Empty
  BY <1>1 DEF Announced
<1>2. CASE addr # Empty
  <2>1. addr + seq - 1 \in Int
    BY <1>2 DEF StartupTypeOK
  <2>2. (addr + seq - 1) % 256 \in 0 .. 255
    BY <2>1
  <2> QED BY <1>2, <2>2 DEF Announced, LineOf, UCHAR
<1> QED BY <1>1, <1>2

(* A step keeps these types.                                                *)
LEMMA EnrollTypesStep ==
  ASSUME StartupTypeOK, EnrollTypes, [Next]_vars
  PROVE  EnrollTypes'
<1>1. CASE UNCHANGED enroll
  BY <1>1 DEF enroll, threads, network, seen, bounds, EnrollTypes
<1>2. CASE End
  <2>1. led' \in BOOLEAN /\ begun' \in BOOLEAN /\ early' \in BOOLEAN /\ trouble' \in BOOLEAN
    BY <1>2 DEF End
  <2>2. queue_write' \in Seq(0 .. 255) /\ queue_read' \in Seq([dev : 0 .. 255, ok : BOOLEAN])
    BY <1>2 DEF End
  <2> QED BY <1>2, <2>1, <2>2 DEF End, bounds, EnrollTypes
<1>3. CASE Press
  <2>1. pressed' \in 0 .. 255
    BY <1>3, AnnouncedByte DEF Press
  <2>2. presses' \in 0 .. MaxPresses
    BY <1>3, EnrollmentAssumption DEF Press, EnrollTypes
  <2>3. early' \in BOOLEAN
    BY <1>3 DEF Press
  <2> QED BY <1>3, <2>1, <2>2, <2>3 DEF Press, network, EnrollTypes
<1>4. CASE cbus_enqueue
  <2>1. queue_write' \in Seq(0 .. 255)
    BY <1>4 DEF cbus_enqueue, EnrollTypes
  <2>2. begun' \in BOOLEAN
    BY <1>4 DEF cbus_enqueue
  <2> QED BY <1>4, <2>1, <2>2 DEF cbus_enqueue, bounds, EnrollTypes
<1>5. CASE Light
  BY <1>5 DEF Light, network, seen, bounds, EnrollTypes
<1>6. CASE Network
  <2>1. Take /\ Tail(queue_write) \in Seq(0 .. 255) /\ Head(queue_write) \in 0 .. 255
    BY <1>6, Firsts DEF Network, Accept, Decline, Lose, Take
  <2>2. Answer(Head(queue_write), TRUE) \in [dev : 0 .. 255, ok : BOOLEAN]
        /\ Answer(Head(queue_write), FALSE) \in [dev : 0 .. 255, ok : BOOLEAN]
    BY <2>1 DEF Answer
  <2>3. /\ Append(queue_read, Answer(Head(queue_write), TRUE))
             \in Seq([dev : 0 .. 255, ok : BOOLEAN])
        /\ Append(queue_read, Answer(Head(queue_write), FALSE))
             \in Seq([dev : 0 .. 255, ok : BOOLEAN])
    BY <2>2, AppendElements DEF EnrollTypes
  <2>4. queue_read' \in Seq([dev : 0 .. 255, ok : BOOLEAN])
    BY <1>6, <2>3, ZenonT(60) DEF Network, Accept, Decline, Lose, EnrollTypes
  <2>5. queue_write' \in Seq(0 .. 255) /\ accepted' \subseteq 0 .. 255
    BY <1>6, <2>1 DEF Network, Accept, Decline, Lose, Take, EnrollTypes
  <2>6. trouble' \in BOOLEAN
    BY <1>6 DEF Network, Accept, Decline, Lose, EnrollTypes
  <2> QED BY <1>6, <2>4, <2>5, <2>6 DEF Network, threads, bounds, EnrollTypes
<1>7. CASE AnswerOthers
  <2>1. PICK dev \in Foreign : queue_read' = Append(queue_read, Answer(dev, TRUE))
    BY <1>7 DEF AnswerOthers
  <2>2. Answer(dev, TRUE) \in [dev : 0 .. 255, ok : BOOLEAN]
    BY EnrollmentAssumption DEF Answer
  <2>3. queue_read' \in Seq([dev : 0 .. 255, ok : BOOLEAN])
    BY <2>1, <2>2, AppendElements DEF EnrollTypes
  <2>4. answers' \in 0 .. MaxForeign
    BY <1>7, EnrollmentAssumption DEF AnswerOthers, EnrollTypes
  <2> QED BY <1>7, <2>3, <2>4 DEF AnswerOthers, threads, seen, EnrollTypes
<1>8. CASE TakeAnswer
  <2> DEFINE answer == Head(queue_read)
  <2>1. queue_read' \in Seq([dev : 0 .. 255, ok : BOOLEAN])
    BY <1>8, Firsts DEF TakeAnswer
  <2>2. loop' \in {"get_handle", "sleep"} /\ next' \in 0 .. 255 /\ led' \in BOOLEAN
    <3>1. CASE IsOwn(answer.dev) /\ answer.ok
      <4>1. addr \in 0 .. 240 /\ addr # Missing
        BY <3>1 DEF IsOwn, StartupTypeOK
      <4>2. qy_dev_num \in Nat
        BY <4>1, Lines
      <4>3. match_innet_dev(answer.dev) \in 2 .. qy_dev_num + 1
        BY <3>1, <4>1, FirstExists
      <4>4. match_innet_dev(answer.dev) \in Nat
        BY <4>2, <4>3
      <4>5. Announced(match_innet_dev(answer.dev)) \in 0 .. 255
        BY <4>1, <4>4, AnnouncedByte
      <4>6. NextModule(match_innet_dev(answer.dev))
        BY <1>8, <3>1 DEF TakeAnswer
      <4> QED BY <4>5, <4>6 DEF NextModule, EnrollTypes
    <3>2. CASE ~ (IsOwn(answer.dev) /\ answer.ok)
      BY <1>8, <3>2 DEF TakeAnswer, EnrollTypes
    <3> QED BY <3>1, <3>2
  <2> QED BY <1>8, <2>1, <2>2 DEF TakeAnswer, seen, bounds, EnrollTypes
<1>9. CASE SendNext
  <2>1. queue_write' \in Seq(0 .. 255)
    BY <1>9 DEF SendNext, EnrollTypes
  <2> QED BY <1>9, <2>1 DEF SendNext, seen, bounds, EnrollTypes
<1> QED BY <1>1, <1>2, <1>3, <1>4, <1>5, <1>6, <1>7, <1>8, <1>9
    DEF Next, Begin, monitor_button, send_innet_cmd, vars

--------------------------------------------------------------------------------
(* The order of announcements.                                              *)

(* addr.txt is written once in a run, with what the dial says.              *)
LEMMA DialStep ==
  ASSUME ReaderTypes, OffInv, DialInv, [StartupNext]_startup
  PROVE  /\ DialInv'
         /\ Settled /\ on' => Settled' /\ addr' = addr
<1> USE DEF DialInv, Settled
<1>1. CASE main
  BY <1>1 DEF main, OffInv
<1>2. CASE Stop
  BY <1>2 DEF Stop, ReaderEnds
<1>3. CASE Turn \/ Save
  BY <1>3 DEF Turn, Save, read_addr_vars
<1>4. CASE ReadDial
  <2>1. dial \in Accepted
    BY <1>4, Bytes DEF ReadDial, ReaderTypes, Accepted
  <2> QED BY <1>4, <2>1 DEF ReadDial
<1>5. CASE save_to_addr
  BY <1>5 DEF save_to_addr
<1>6. CASE WriteAddr
  BY <1>6 DEF WriteAddr, ReaderEnds
<1>7. CASE remove_all_files
  BY <1>7 DEF remove_all_files, RemoveText, RemoveRemote, RemoveDimmer, RemoveDb, ReaderEnds
<1>8. CASE remote_init_thread \/ UNCHANGED startup
  <2>1. UNCHANGED <<addr, read_addr_vars>>
    BY <1>8 DEF remote_init_thread, parse_addr_file, DbOpen, remote_table_init,
                dimmer_table_init, InsertDimmer, startup
  <2> QED BY <2>1 DEF read_addr_vars
<1> QED BY <1>1, <1>2, <1>3, <1>4, <1>5, <1>6, <1>7, <1>8 DEF StartupNext, read_addr

(* An announcement in its turn remains so, until the gateway is stopped.    *)
LEMMA StaysInTurn ==
  ASSUME Settled => Settled' /\ addr' = addr, accepted \subseteq accepted', NEW dev
  PROVE  InTurn(dev) => /\ Settled'
                        /\ \E k \in 1 .. qy_dev_num :
                             /\ dev = LineOf(k)'
                             /\ \A m \in 1 .. k - 1 : LineOf(m)' \in accepted'
BY DEF InTurn, LineOf

(* With accepted answers the next module's turn comes, or they are all in.  *)
LEMMA NextTurn ==
  ASSUME DialInv, NEW dev, IsOwn(dev), InTurn(dev), dev \in accepted
  PROVE  LET seq == match_innet_dev(dev)
         IN  IF seq > qy_dev_num THEN OwnModules \subseteq accepted
             ELSE InTurn(Announced(seq))
<1>1. addr \in 0 .. 240 /\ addr # Empty
  BY Bytes DEF IsOwn, DialInv, Accepted
<1>2. PICK k \in 1 .. qy_dev_num :
        dev = LineOf(k) /\ \A m \in 1 .. k - 1 : LineOf(m) \in accepted
  BY DEF InTurn
<1>3. match_innet_dev(dev) = k + 1
  BY <1>1, <1>2, FirstIsOwn
<1>4. qy_dev_num \in Nat
  BY <1>1, Lines
<1>5. \A m \in 1 .. k : LineOf(m) \in accepted
  <2> SUFFICES ASSUME NEW m \in 1 .. k PROVE LineOf(m) \in accepted
    OBVIOUS
  <2>1. CASE m = k
    BY <1>2, <2>1
  <2>2. CASE m # k
    BY <1>2, <1>4, <2>2
  <2> QED BY <2>1, <2>2
<1>6. CASE k + 1 > qy_dev_num
  <2>1. k = qy_dev_num
    BY <1>4, <1>6
  <2>2. OwnModules \subseteq accepted
    BY <1>5, <2>1 DEF OwnModules
  <2> QED BY <1>3, <1>6, <2>2
<1>7. CASE ~ (k + 1 > qy_dev_num)
  <2>1. k + 1 \in 1 .. qy_dev_num /\ (k + 1) - 1 = k
    BY <1>4, <1>7
  <2>2. Announced(k + 1) = LineOf(k + 1)
    BY <1>1 DEF Announced
  <2>3. InTurn(LineOf(k + 1))
    BY <1>5, <2>1 DEF InTurn
  <2> QED BY <1>3, <1>7, <2>2, <2>3
<1> QED BY <1>6, <1>7

(* A module of others is not taken for ours.                                *)
LEMMA OthersNotOwn ==
  ASSUME ForeignApart, DialInv, NEW dev \in Foreign
  PROVE  ~ IsOwn(dev)
<1> SUFFICES ASSUME IsOwn(dev) PROVE FALSE
  OBVIOUS
<1>1. addr \in Accepted /\ addr \in 0 .. 240
  BY DEF IsOwn, DialInv, Accepted
<1>2. PICK k \in 1 .. qy_dev_num : BeginsWith(addr + k - 1, dev)
  BY <1>1, OwnBeginsLine
<1> QED BY <1>1, <1>2 DEF ForeignApart

(* What is in the queues, and with the threads, is in its turn.             *)
LEMMA TurnStep ==
  ASSUME ForeignApart, EnrollTypes, StartupTypeOK, OffInv, DialInv, TurnInv, [Next]_vars
  PROVE  TurnInv'
<1>0. [StartupNext]_startup
  BY DEF Next, vars, Begin, End, Background, Press, monitor_button, cbus_enqueue, Light,
         Network, AnswerOthers, send_innet_cmd, TakeAnswer, SendNext, StartupNext
<1>1. CASE End
  BY <1>1 DEF End, TurnInv
<1> DEFINE Steady == (Settled => Settled' /\ addr' = addr) /\ accepted \subseteq accepted'
<1>2. ASSUME ~ End PROVE Steady
  <2>1. accepted \subseteq accepted'
    BY <1>2 DEF Next, vars, enroll, network, Begin, Background, Press, monitor_button,
                cbus_enqueue, Light, Network, Accept, Decline, Lose, AnswerOthers,
                send_innet_cmd, TakeAnswer, SendNext
  <2>2. on' \/ ~ Settled
    <3>1. CASE UNCHANGED on
      BY <3>1 DEF OffInv, Settled
    <3>2. CASE on' # on
      <4>1. Begin
        BY <1>2, <3>2 DEF Next, vars, startup, Background, Turn, Save, read_addr, ReadDial,
                          save_to_addr, WriteAddr, remove_all_files, RemoveText, RemoveRemote,
                          RemoveDimmer, RemoveDb, remote_init_thread, parse_addr_file, DbOpen,
                          remote_table_init, dimmer_table_init, InsertDimmer, Press,
                          monitor_button, cbus_enqueue, Light, Network, AnswerOthers,
                          send_innet_cmd, TakeAnswer, SendNext
      <4> QED BY <4>1 DEF Begin, main
    <3> QED BY <3>1, <3>2
  <2>3. ReaderTypes
    BY Types
  <2> QED BY <1>0, <2>1, <2>2, <2>3, DialStep
<1> SUFFICES ASSUME ~ End, ~ early' PROVE TurnInv'
  BY <1>1 DEF TurnInv
<1>3. Steady
  BY <1>2
<1> DEFINE InTurnNext(dev) == /\ Settled'
                              /\ \E k \in 1 .. qy_dev_num :
                                   /\ dev = LineOf(k)'
                                   /\ \A m \in 1 .. k - 1 : LineOf(m)' \in accepted'
<1>4. \A dev : InTurn(dev) => InTurnNext(dev)
  BY <1>3, StaysInTurn
<1>5. ~ early
  BY DEF Next, vars, enroll, seen, Begin, Background, Press, monitor_button, cbus_enqueue, Light,
         Network, AnswerOthers, send_innet_cmd, TakeAnswer, SendNext
<1> DEFINE T1 == button = "enqueue" => InTurn(pressed)
           T2 == loop = "sleep" => InTurn(next)
           T3 == \A k \in DOMAIN queue_write : InTurn(queue_write[k])
           Fine(a) == a.ok => \/ a.dev \in Foreign
                              \/ InTurn(a.dev) /\ a.dev \in accepted
           FineNext(a) == a.ok => \/ a.dev \in Foreign
                                  \/ InTurnNext(a.dev) /\ a.dev \in accepted'
           T4 == \A k \in DOMAIN queue_read : Fine(queue_read[k])
           N1 == button' = "enqueue" => InTurnNext(pressed')
           N2 == loop' = "sleep" => InTurnNext(next')
           N3 == \A k \in DOMAIN queue_write' : InTurnNext(queue_write'[k])
           N4 == \A k \in DOMAIN queue_read' : FineNext(queue_read'[k])
<1>6. T1 /\ T2 /\ T3 /\ T4
  BY <1>5 DEF TurnInv
<1>7. \A a : Fine(a) => FineNext(a)
  BY <1>3, <1>4
<1>8. SUFFICES N1 /\ N2 /\ N3 /\ N4
  BY DEF TurnInv, InTurn
<1> DEFINE S1 == UNCHANGED <<button, pressed>>
           S2 == UNCHANGED <<loop, next>>
           S3 == UNCHANGED queue_write
           S4 == UNCHANGED queue_read
<1>9. (S1 => N1) /\ (S2 => N2) /\ (S3 => N3) /\ (S4 => N4)
  BY <1>4, <1>6, <1>7
<1> DEFINE A == 0 .. 255
           B == [dev : 0 .. 255, ok : BOOLEAN]
<1>10. queue_write \in Seq(A) /\ queue_read \in Seq(B) /\ pressed \in A /\ next \in A
  BY DEF EnrollTypes
<1> HIDE DEF Steady, InTurnNext, Fine, FineNext, A, B
<1>11. CASE UNCHANGED enroll
  <2>1. S1 /\ S2 /\ S3 /\ S4
    BY <1>11 DEF enroll, threads, network
  <2> QED BY <1>9, <2>1
<1>12. CASE Press
  <2>1. S2 /\ S3 /\ S4 /\ UNCHANGED <<startup, accepted>>
    BY <1>12 DEF Press, network
  <2>2. Settled /\ pressed' = Announced(1)
    BY <1>12 DEF Press, Settled
  <2>3. addr \in 0 .. 240 /\ addr # Empty
    BY <2>2, Bytes DEF DialInv, Accepted
  <2>4. 1 \in 1 .. qy_dev_num
    BY <2>3, Lines
  <2>5. InTurn(LineOf(1))
    BY <2>2, <2>4 DEF InTurn
  <2>6. pressed' = LineOf(1)
    BY <2>2, <2>3 DEF Announced
  <2>7. N1
    BY <1>4, <2>5, <2>6
  <2> QED BY <1>9, <2>1, <2>7
<1>13. CASE cbus_enqueue
  <2>1. S2 /\ S4 /\ N1 /\ queue_write' = Append(queue_write, pressed) /\ button = "enqueue"
    BY <1>13 DEF cbus_enqueue
  <2>2. \A k \in DOMAIN queue_write' :
          \/ k \in DOMAIN queue_write /\ queue_write'[k] = queue_write[k]
          \/ queue_write'[k] = pressed
    BY <1>10, <2>1, AppendElements
  <2>3. N3
    BY <1>4, <1>6, <2>1, <2>2
  <2> QED BY <1>9, <2>1, <2>3
<1>14. CASE Light
  <2>1. S2 /\ S3 /\ S4 /\ N1
    BY <1>14 DEF Light, network
  <2> QED BY <1>9, <2>1
<1>15. CASE Network
  <2>1. S1 /\ S2 /\ queue_write # <<>> /\ queue_write' = Tail(queue_write)
    BY <1>15 DEF Network, Accept, Decline, Lose, Take, threads
  <2>2. /\ 1 \in DOMAIN queue_write /\ Head(queue_write) = queue_write[1]
        /\ \A k \in DOMAIN queue_write' :
             k + 1 \in DOMAIN queue_write /\ queue_write'[k] = queue_write[k + 1]
    BY <1>10, <2>1, TailElements
  <2>3. N3
    BY <1>4, <1>6, <2>2
  <2>4. InTurnNext(Head(queue_write)) /\ Head(queue_write) \in 0 .. 255
    BY <1>4, <1>6, <2>1, <2>2, Firsts
  <2>5. CASE S4
    BY <1>9, <2>1, <2>3, <2>5
  <2>6. CASE ~ S4
    <3>1. PICK ok \in BOOLEAN :
            /\ queue_read' = Append(queue_read, Answer(Head(queue_write), ok))
            /\ ok => Head(queue_write) \in accepted'
      BY <1>15, <2>6 DEF Network, Accept, Decline, Lose
    <3> DEFINE a == Answer(Head(queue_write), ok)
    <3>2. a \in B
      BY <2>4 DEF Answer, B
    <3>3. FineNext(a)
      BY <2>4, <3>1 DEF FineNext, Answer
    <3>4. queue_read' = Append(queue_read, a)
      BY <3>1
    <3> HIDE DEF a
    <3>5. \A k \in DOMAIN queue_read' :
            \/ k \in DOMAIN queue_read /\ queue_read'[k] = queue_read[k]
            \/ queue_read'[k] = a
      BY <1>10, <3>2, <3>4, AppendElements
    <3>6. N4
      BY <1>6, <1>7, <3>3, <3>5
    <3> QED BY <1>9, <2>1, <2>3, <3>6
  <2> QED BY <2>5, <2>6
<1>16. CASE AnswerOthers
  <2>1. S1 /\ S2 /\ S3
    BY <1>16 DEF AnswerOthers, threads
  <2>2. PICK dev \in Foreign : queue_read' = Append(queue_read, Answer(dev, TRUE))
    BY <1>16 DEF AnswerOthers
  <2> DEFINE a == Answer(dev, TRUE)
  <2>3. a \in B
    BY EnrollmentAssumption DEF Answer, B
  <2>4. FineNext(a)
    BY DEF FineNext, Answer
  <2>5. queue_read' = Append(queue_read, a)
    BY <2>2
  <2> HIDE DEF a
  <2>6. \A k \in DOMAIN queue_read' :
          \/ k \in DOMAIN queue_read /\ queue_read'[k] = queue_read[k]
          \/ queue_read'[k] = a
    BY <1>10, <2>3, <2>5, AppendElements
  <2>7. N4
    BY <1>6, <1>7, <2>4, <2>6
  <2> QED BY <1>9, <2>1, <2>7
<1>17. CASE TakeAnswer
  <2> DEFINE a == Head(queue_read)
             seq == match_innet_dev(a.dev)
  <2>1. S1 /\ S3 /\ queue_read # <<>> /\ queue_read' = Tail(queue_read) /\ loop = "get_handle"
    BY <1>17 DEF TakeAnswer
  <2>2. /\ 1 \in DOMAIN queue_read /\ a = queue_read[1]
        /\ \A k \in DOMAIN queue_read' :
             k + 1 \in DOMAIN queue_read /\ queue_read'[k] = queue_read[k + 1]
    BY <1>10, <2>1, TailElements
  <2>3. N4
    BY <1>6, <1>7, <2>2
  <2>4. N2
    <3>1. CASE IsOwn(a.dev) /\ a.ok
      <4>1. a.dev \notin Foreign
        BY <3>1, OthersNotOwn
      <4>2. InTurn(a.dev) /\ a.dev \in accepted
        BY <1>6, <2>2, <3>1, <4>1 DEF Fine
      <4>3. ~ (seq > qy_dev_num) => InTurn(Announced(seq))
        BY <3>1, <4>2, NextTurn
      <4>4. NextModule(seq)
        BY <1>17, <3>1 DEF TakeAnswer
      <4> HIDE DEF seq
      <4>5. loop' = "sleep" => ~ (seq > qy_dev_num) /\ next' = Announced(seq)
        BY <2>1, <4>4 DEF NextModule
      <4> QED BY <1>4, <4>3, <4>5
    <3>2. CASE ~ (IsOwn(a.dev) /\ a.ok)
      BY <1>9, <1>17, <3>2 DEF TakeAnswer
    <3> QED BY <3>1, <3>2
  <2> QED BY <1>9, <2>1, <2>3, <2>4
<1>18. CASE SendNext
  <2>1. S1 /\ S4 /\ N2 /\ queue_write' = Append(queue_write, next) /\ loop = "sleep"
    BY <1>18 DEF SendNext
  <2>2. \A k \in DOMAIN queue_write' :
          \/ k \in DOMAIN queue_write /\ queue_write'[k] = queue_write[k]
          \/ queue_write'[k] = next
    BY <1>10, <2>1, AppendElements
  <2>3. N3
    BY <1>4, <1>6, <2>1, <2>2
  <2> QED BY <1>9, <2>1, <2>3
<1> QED BY <1>11, <1>12, <1>13, <1>14, <1>15, <1>16, <1>17, <1>18
    DEF Next, Begin, monitor_button, send_innet_cmd, vars

(* The invariant of Enrollment.                                             *)
THEOREM EnrollmentInductive == ForeignApart => (Spec => []EnrollInv)
<1> SUFFICES ASSUME ForeignApart PROVE Spec => []EnrollInv
  OBVIOUS
<1>1. Init => EnrollInv
  <2> SUFFICES ASSUME Init PROVE EnrollInv
    OBVIOUS
  <2>1. IInv
    BY InitIInv DEF Init
  <2>2. led \in BOOLEAN /\ begun \in BOOLEAN /\ early \in BOOLEAN /\ trouble \in BOOLEAN
    BY DEF Init
  <2>3. queue_write \in Seq(0 .. 255) /\ queue_read \in Seq([dev : 0 .. 255, ok : BOOLEAN])
    BY DEF Init
  <2>4. EnrollTypes
    BY <2>2, <2>3, EnrollmentAssumption DEF Init, EnrollTypes
  <2>5. DialInv /\ TurnInv
    BY DEF Init, StartupInit, DialInv, Settled, TurnInv
  <2> QED BY <2>1, <2>4, <2>5, EnrollTypesAre DEF EnrollInv, IInv
<1>2. ASSUME EnrollInv, [Next]_vars PROVE EnrollInv'
  <2>0. StartupTypeOK /\ EnrollTypes /\ ReaderTypes /\ TableTypes
        /\ OffInv /\ DialInv /\ TurnInv
    BY <1>2, EnrollTypesAre, Types DEF EnrollInv
  <2>1. [StartupNext]_startup
    BY <1>2 DEF Next, vars, Begin, End, Background, Press, monitor_button, cbus_enqueue, Light,
                Network, AnswerOthers, send_innet_cmd, TakeAnswer, SendNext, StartupNext
  <2>2. StartupTypeOK'
    BY <2>0, <2>1, TypeStep
  <2>3. EnrollTypes'
    BY <1>2, <2>0, EnrollTypesStep
  <2>4. OffInv'
    <3>1. CASE StartupNext
      BY <2>0, <3>1, OffStep
    <3>2. CASE UNCHANGED startup
      BY <2>0, <3>2 DEF startup, read_addr_vars, init_vars, OffInv
    <3> QED BY <2>1, <3>1, <3>2
  <2>5. DialInv'
    BY <2>0, <2>1, DialStep
  <2>6. TurnInv'
    BY <1>2, <2>0, TurnStep
  <2>7. TypeOK'
    BY <2>2, <2>3 DEF TypeOK, EnrollTypes
  <2> QED BY <2>4, <2>5, <2>6, <2>7 DEF EnrollInv
<1> QED BY <1>1, <1>2, PTL DEF Spec

(* When the LED goes out, all modules have been accepted, for any number of *)
(* modules, answers, refusals, losses, presses and stops.                   *)
THEOREM LedTellsTruth == ForeignApart => (Spec => LedOffMeansEnrolled)
<1> SUFFICES ASSUME ForeignApart PROVE Spec => LedOffMeansEnrolled
  OBVIOUS
<1>1. ASSUME EnrollInv, [Next]_vars
      PROVE  [led /\ ~ led' /\ on' /\ ~ early => OwnModules \subseteq accepted]_vars
  <2> SUFFICES ASSUME Next, led, ~ led', on', ~ early PROVE OwnModules \subseteq accepted
    BY <1>1
  <2> DEFINE a == Head(queue_read)
  <2>1. TakeAnswer
    BY DEF Next, Begin, End, Stop, Background, enroll, threads, Press, monitor_button,
           cbus_enqueue, Light, Network, AnswerOthers, send_innet_cmd, SendNext
  <2>2. IsOwn(a.dev) /\ a.ok /\ match_innet_dev(a.dev) > qy_dev_num
    BY <2>1 DEF TakeAnswer, NextModule
  <2>3. DialInv /\ EnrollTypes
    BY <1>1, EnrollTypesAre DEF EnrollInv
  <2>4. 1 \in DOMAIN queue_read /\ a = queue_read[1]
    <3> DEFINE B == [dev : 0 .. 255, ok : BOOLEAN]
    <3>1. queue_read \in Seq(B) /\ queue_read # <<>>
      BY <2>1, <2>3 DEF TakeAnswer, EnrollTypes
    <3> HIDE DEF B
    <3> QED BY <3>1, TailElements
  <2>5. a.dev \notin Foreign
    BY <2>2, <2>3, OthersNotOwn
  <2>6. InTurn(a.dev) /\ a.dev \in accepted
    BY <1>1, <2>2, <2>4, <2>5 DEF EnrollInv, TurnInv
  <2> QED BY <2>2, <2>3, <2>6, NextTurn
<1> QED BY <1>1, EnrollmentInductive, PTL DEF Spec, LedOffMeansEnrolled

================================================================================
