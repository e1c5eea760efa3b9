------------------------------ MODULE BsdRs232 ------------------------------
(***************************************************************************)
(* The OpenBSD serial driver doc/systems/openbsd/rs323_polling: open, which*)
(* programs the UART from the static table gl_devs, and close.  The bodies *)
(* of read, write and ioctl are commented out.                             *)
(*                                                                         *)
(* The kernel (external) runs these calls one after the other: none of them*)
(* sleeps.  It calls close for a device that was opened.                   *)
(***************************************************************************)
EXTENDS Integers, Sequences, SequencesExt

NB_DEVS == 4
UART_BAUDRATE == 115200

UART_DLL == 0
UART_THR == 0
UART_DLM == 1
UART_IER == 1
UART_FCR == 2
UART_LCR == 3

FCR_ENABLE_FIFO == 199
IER_DISABLE_INT == 0
LCR_ONE_STOP_BIT == 0
LCR_WORD_8 == 3
LCR_NO_PARITY == 0
LCR_DLAB == 128

REG_ISSET(reg, bit) == (reg \div bit) % 2 = 1
REG_SET(reg, bit) == IF REG_ISSET(reg, bit) THEN reg ELSE reg + bit
REG_CLR(reg, bit) == IF REG_ISSET(reg, bit) THEN reg - bit ELSE reg

\* The members of struct rs232_device from baudrate on, and the values that
\* every line of gl_devs lists from there on.
Members == <<"baudrate", "busy", "reg_rbr", "reg_thr", "reg_ier", "reg_iir", "reg_fcr",
             "reg_lcr", "reg_mcr", "reg_lsr", "reg_msr", "reg_scr">>
Initializers == <<0, 0, 0, IER_DISABLE_INT, 0, FCR_ENABLE_FIFO,
                  LCR_WORD_8 + LCR_ONE_STOP_BIT + LCR_NO_PARITY, 0, 0, 0, 0>>

\* C gives the values to the members in their order, and zero to the last ones.
Initialized ==
  [m \in ToSet(Members) |->
     LET i == CHOOSE i \in DOMAIN Members : Members[i] = m
     IN IF i \in DOMAIN Initializers THEN Initializers[i] ELSE 0]

VARIABLES
  gl_devs,
  uart,      \* the registers of each port
  result     \* what the last call returned

bsdVars == <<gl_devs, uart, result>>

BsdInit ==
  /\ gl_devs = [minor \in 0..NB_DEVS - 1 |-> Initialized]
  /\ uart = [minor \in 0..NB_DEVS - 1 |->
               [thr |-> 0, ier |-> 0, dll |-> 0, dlm |-> 0, fcr |-> 0, lcr |-> 0]]
  /\ result = "none"

\* bus_space_write_1, as the UART takes it: DLAB selects what ports 0 and 1 are.
Written(u, write) ==
  LET reg == write[1]
      val == write[2]
      dlab == REG_ISSET(u.lcr, LCR_DLAB)
  IN CASE reg = UART_LCR -> [u EXCEPT !.lcr = val]
       [] reg = UART_FCR -> [u EXCEPT !.fcr = val]
       [] reg = UART_DLL /\ dlab -> [u EXCEPT !.dll = val]
       [] reg = UART_THR /\ ~ dlab -> [u EXCEPT !.thr = val]
       [] reg = UART_DLM /\ dlab -> [u EXCEPT !.dlm = val]
       [] reg = UART_IER /\ ~ dlab -> [u EXCEPT !.ier = val]

\* What open writes to the port, in its order.
OpenWrites(dev) ==
  LET divisor == dev.baudrate \div UART_BAUDRATE
      on == REG_SET(dev.reg_lcr, LCR_DLAB)
  IN << <<UART_LCR, dev.reg_lcr>>, <<UART_FCR, dev.reg_fcr>>, <<UART_IER, dev.reg_ier>>,
        <<UART_LCR, on>>, <<UART_DLL, divisor % 256>>, <<UART_DLM, divisor \div 256>>,
        <<UART_LCR, REG_CLR(on, LCR_DLAB)>> >>

rs232_open(minor) ==
  IF minor >= NB_DEVS THEN result' = "ENXIO" /\ UNCHANGED <<gl_devs, uart>>
  ELSE IF gl_devs[minor].busy = 1 THEN result' = "EBUSY" /\ UNCHANGED <<gl_devs, uart>>
  ELSE /\ uart' = [uart EXCEPT ![minor] = FoldLeft(Written, @, OpenWrites(gl_devs[minor]))]
       /\ gl_devs' = [gl_devs EXCEPT ![minor].busy = 1,
                                     ![minor].reg_lcr = REG_CLR(@, LCR_DLAB)]
       /\ result' = "ok"

rs232_close(minor) ==
  /\ gl_devs[minor].busy = 1
  /\ gl_devs' = [gl_devs EXCEPT ![minor].busy = 0]
  /\ result' = "ok"
  /\ UNCHANGED uart

BsdNext ==
  \/ \E minor \in 0..NB_DEVS : rs232_open(minor)
  \/ \E minor \in 0..NB_DEVS - 1 : rs232_close(minor)

BsdSpec == BsdInit /\ [][BsdNext]_bsdVars
-----------------------------------------------------------------------------
\* A port that is open has the word length, stop bit and parity, and the FIFO,
\* that its line of gl_devs lists, as the comments of open say ("LCR word length,
\* stop bit and parity initialization", "FCR enable FIFO initialization").
OpenSetsLine ==
  \A minor \in 0..NB_DEVS - 1 :
    gl_devs[minor].busy = 1 =>
      /\ uart[minor].lcr = LCR_WORD_8 + LCR_ONE_STOP_BIT + LCR_NO_PARITY
      /\ uart[minor].fcr = FCR_ENABLE_FIFO
=============================================================================
