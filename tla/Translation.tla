------------------------------ MODULE Translation ------------------------------
(****************************************************************************)
(* The translations between the two buses: brightness (clo_qy_trans,        *)
(* qy_clo_trans), lamp addresses (addr_trans, addr_trans_qy), rows of the   *)
(* sensor table (pir_addr_trans) and the address filter (match_addr).  They *)
(* are functions of one frame and of addr.txt, which holds one address per  *)
(* module: the dimmers from the dial's value on, then the PIR modules.      *)
(****************************************************************************)
EXTENDS Integers

UCHAR(x) == x % 256                          (* an int stored in one byte   *)

CIRCUIT_MAX  == 8
DIMMER       == 4
SUB_ADDR_MIN == 49                           (* 0x31, the first lamp        *)
SUB_PIR_ADDR == 33                           (* 0x21, the first sensor      *)

LampSubs   == SUB_ADDR_MIN .. SUB_ADDR_MIN + 7
SensorSubs == SUB_PIR_ADDR .. SUB_PIR_ADDR + CIRCUIT_MAX - 1

--------------------------------------------------------------------------------
(* Brightness.                                                              *)

(* From per cent to a Qiyuan level: 2.55 times the value, rounded twice (to *)
(* a tenth, then to an integer).  2.55 has no exact binary form; the four   *)
(* bytes below are those for which the product falls just short of a half.  *)
FloatShort == {19, 39, 219, 239}

BrokenTruncates(value) == UCHAR((255 * value) \div 100)
BrokenByteProduct(value) == UCHAR(255 * value) \div 100
clo_qy_trans(value) ==
  UCHAR(((255 * value + 5) \div 10 + 5) \div 10 - (IF value \in FloatShort THEN 1 ELSE 0))

qy_clo_trans(value) == (100 * value) \div 255

--------------------------------------------------------------------------------
(* Lamp addresses.  A dimmer module has eight subaddresses in four pairs; a *)
(* pair shares a circuit, and the application byte tells the two apart.     *)

IsColorTemp(sub_addr) == sub_addr \in {50, 52, 54, 56}
app(sub_addr) == IF IsColorTemp(sub_addr) THEN 59 ELSE 58       (* 3B, 3A   *)

(* C's division by two, towards zero.                                       *)
Half(x) == IF x >= 0 THEN x \div 2 ELSE - ((- x) \div 2)

(* The circuit a command is sent to; dimmer_addr is the first address of    *)
(* addr.txt, and the callers store the result in one byte.                  *)
BrokenCircuitFromZero(dimmer_addr, dev_addr, sub_addr) ==
  UCHAR((dev_addr - dimmer_addr) * DIMMER + Half(sub_addr - SUB_ADDR_MIN))
addr_trans(dimmer_addr, dev_addr, sub_addr) ==
  LET odd == IF IsColorTemp(sub_addr) THEN sub_addr - 1 ELSE sub_addr
  IN  UCHAR((dev_addr - dimmer_addr) * DIMMER + Half(odd - SUB_ADDR_MIN) + 1)

(* The lamp a Qiyuan frame is about, as feed_back reports it.               *)
addr_trans_qy(dimmer_addr, circuit_num, application) ==
  LET module_num == IF circuit_num = 0 THEN 0 ELSE (circuit_num - 1) \div DIMMER
      odd        == (circuit_num - module_num * DIMMER - 1) * 2 + SUB_ADDR_MIN
  IN  [dev |-> UCHAR(module_num + dimmer_addr),
       sub |-> UCHAR(IF application = 59 THEN odd + 1 ELSE odd)]

(* The row of a sensor in remote.db.                                        *)
BrokenRowWidth(pir_addr, dev_addr, sub_addr) ==
  UCHAR((dev_addr - pir_addr) * DIMMER + (sub_addr - SUB_PIR_ADDR) + 1)
pir_addr_trans(pir_addr, dev_addr, sub_addr) ==
  UCHAR((dev_addr - pir_addr) * CIRCUIT_MAX + (sub_addr - SUB_PIR_ADDR) + 1)

--------------------------------------------------------------------------------
(* The address filter: a line of addr.txt matches when it contains the name *)
(* and the address as text, so an address also matches every line whose     *)
(* number begins with the same digits.                                      *)

BeginsWith(line, number) ==
  \E k \in {1, 10, 100} : line \div k = number /\ (k > 1 => number > 0)

BrokenMatchFirstOnly(dev_addr, first, count) == count > 0 /\ dev_addr = first
match_addr(dev_addr, first, count) ==
  \E i \in 1 .. count : BeginsWith(first + i - 1, dev_addr)

================================================================================
