------------------------------- MODULE Rl8029 -------------------------------
(***************************************************************************)
(* The OpenBSD network driver doc/systems/openbsd/rl8029/if_ne2000.c:      *)
(* attach, the interrupt handler and the ioctls, which run at splnet.      *)
(*                                                                         *)
(* start, stop, init, enable, disable and the media callbacks print a line.*)
(* The kernel (external) never calls the watchdog of an interface that does*)
(* not set if_timer, as this one; other devices share the interrupt line.  *)
(***************************************************************************)
EXTENDS Integers

CONSTANTS ETHERMIN, ETHERMTU, Mtus    \* Mtus: the sizes that are asked for

ASSUME MtuAssumption == ETHERMIN \in Nat /\ ETHERMTU \in Nat /\ ETHERMIN <= ETHERMTU

VARIABLES
  apc,           \* rl8029_attach: its next step, "attached", "failed" or "refused"
  mapped, sc_ih, \* is the I/O space mapped? is the interrupt established?
  sc_enabled,
  IFF_UP, IFF_RUNNING,
  if_mtu,
  error,         \* what the last ioctl returned
  interrupted    \* history: has the handler run?

rlnVars == <<apc, mapped, sc_ih, sc_enabled, IFF_UP, IFF_RUNNING, if_mtu, error,
             interrupted>>
ifVars == <<IFF_UP, IFF_RUNNING, if_mtu, error>>

RlnInit ==
  /\ apc = "map" /\ mapped = FALSE /\ sc_ih = FALSE
  /\ sc_enabled = 0 /\ IFF_UP = FALSE /\ IFF_RUNNING = FALSE
  /\ if_mtu = ETHERMTU /\ error = "none" /\ interrupted = FALSE
-----------------------------------------------------------------------------
AttachMap ==
  /\ apc = "map"
  /\ \/ mapped' = TRUE /\ sc_enabled' = 1 /\ apc' = "intr_map"
     \/ apc' = "failed" /\ UNCHANGED <<mapped, sc_enabled>>
  /\ UNCHANGED <<sc_ih, ifVars, interrupted>>

\* Mutant: the I/O space is kept when the interrupt cannot be mapped.
AttachIntrMap_Keep ==
  /\ apc = "intr_map"
  /\ apc' \in {"establish", "failed"}
  /\ UNCHANGED <<mapped, sc_ih, sc_enabled, ifVars, interrupted>>

AttachIntrMap ==
  /\ apc = "intr_map"
  /\ \/ apc' = "establish" /\ UNCHANGED mapped
     \/ apc' = "failed" /\ mapped' = FALSE
  /\ UNCHANGED <<sc_ih, sc_enabled, ifVars, interrupted>>

\* A handler that is refused leaves the I/O space mapped.
AttachEstablish ==
  /\ apc = "establish"
  /\ \/ sc_ih' = TRUE /\ apc' = "config"
     \/ apc' = "refused" /\ UNCHANGED sc_ih
  /\ UNCHANGED <<mapped, sc_enabled, ifVars, interrupted>>

\* rl8029_config: ether_ifattach makes the interface known with an MTU of ETHERMTU.
RlnConfig ==
  /\ apc = "config"
  /\ IFF_UP' = FALSE /\ IFF_RUNNING' = FALSE /\ if_mtu' = ETHERMTU
  /\ apc' = "attached"
  /\ UNCHANGED <<mapped, sc_ih, sc_enabled, error, interrupted>>

\* rl8029_intr, for a device of the line.
RlnIntr ==
  /\ sc_ih
  /\ sc_enabled' = 0 /\ interrupted' = TRUE
  /\ UNCHANGED <<apc, mapped, sc_ih, ifVars>>
-----------------------------------------------------------------------------
(* rl8029_ioctl.                                                            *)

SIOCSIFADDR ==
  /\ apc = "attached"
  /\ IFF_UP' = TRUE /\ error' = "none"
  /\ UNCHANGED <<apc, mapped, sc_ih, sc_enabled, IFF_RUNNING, if_mtu, interrupted>>

SIOCSIFMTU(mtu) ==
  /\ apc = "attached"
  /\ IF mtu > ETHERMTU \/ mtu < ETHERMIN THEN error' = "EINVAL" /\ UNCHANGED if_mtu
     ELSE error' = "none" /\ if_mtu' = mtu
  /\ UNCHANGED <<apc, mapped, sc_ih, sc_enabled, IFF_UP, IFF_RUNNING, interrupted>>

\* The kernel sets IFF_UP as it was asked to before it calls the driver; nothing
\* sets IFF_RUNNING, so the branches that stop the card are never taken.
SIOCSIFFLAGS(up) ==
  /\ apc = "attached"
  /\ IFF_UP' = up
  /\ IFF_RUNNING' = (IFF_RUNNING /\ up)
  /\ error' = "none"
  /\ UNCHANGED <<apc, mapped, sc_ih, sc_enabled, if_mtu, interrupted>>

\* SIOCADDMULTI and SIOCDELMULTI: error is never ENETRESET here.
SIOCXXXMULTI ==
  /\ apc = "attached"
  /\ error' = IF sc_enabled = 0 THEN "EIO" ELSE "none"
  /\ UNCHANGED <<apc, mapped, sc_ih, sc_enabled, IFF_UP, IFF_RUNNING, if_mtu, interrupted>>

RlnAttach == AttachMap \/ AttachIntrMap \/ AttachEstablish \/ RlnConfig
RlnIoctl ==
  \/ SIOCSIFADDR \/ SIOCXXXMULTI
  \/ \E mtu \in Mtus : SIOCSIFMTU(mtu)
  \/ \E up \in BOOLEAN : SIOCSIFFLAGS(up)

RlnNext == RlnAttach \/ RlnIntr \/ RlnIoctl
RlnSpec == RlnInit /\ [][RlnNext]_rlnVars
-----------------------------------------------------------------------------
\* What attach leaves behind, whichever of its steps fails and whenever the first
\* interrupt comes: an interface that the kernel knows has its registers and its
\* handler, and takes multicast addresses until the first interrupt of the line,
\* after which no ioctl brings them back; an attach that failed has neither, and
\* only a refused handler leaves registers mapped (if_ne2000.c:130-163, 171, 256).
AttachOutcome ==
  /\ apc = "attached" => mapped /\ sc_ih /\ (sc_enabled = 1 <=> ~ interrupted)
  /\ apc \in {"failed", "refused"} => ~ sc_ih /\ ~ interrupted
  /\ apc = "failed" => ~ mapped
  /\ error = "EIO" => interrupted
=============================================================================
