---------------------------- MODULE MCLinkCache ----------------------------
(***************************************************************************)
(* Instances of LinkCache for TLC.  hello and lkm are two targets that, as *)
(* in samples/helloworld and samples/windows_minimal_lkm, register files   *)
(* of the same names with the same interface and prototypes.  user runs    *)
(* commands by hand.                                                       *)
(***************************************************************************)
EXTENDS LinkCache

CONSTANTS hello, lkm, user, rti1, rti2, log1, log2, lkmLinux, lkmWin, generic, types,
          Log, Lkm, write, load, device, noValues, linux, windows, INCLUDE, CODE

MCSourceFiles == {rti1, rti2, log1, log2, lkmLinux, lkmWin, generic, types}
MCItfs == {Log, Lkm}
MCProtos == {write, load, device}
MCWiths == {noValues, linux, windows}
MCPointcuts == {INCLUDE, CODE}

MCFileItfs == [f \in MCSourceFiles |-> IF f \in {rti1, rti2} THEN {Log} ELSE {}]

Tpl(p, w, pcs) == [kind |-> "tpl", proto |-> p, with |-> w, pcs |-> pcs, mapped |-> FALSE]
GlobCode(i, w) == [kind |-> "glob", itf |-> i, with |-> w]

MCFileItems ==
  [f \in MCSourceFiles |->
     CASE f = log1     -> <<GlobCode(Log, noValues), Tpl(write, noValues, {CODE}),
                            Tpl(load, noValues, {INCLUDE, CODE})>>
       [] f = log2     -> <<GlobCode(Lkm, noValues), Tpl(write, noValues, {INCLUDE, CODE})>>
       [] f = lkmLinux -> <<GlobCode(Lkm, linux), Tpl(load, linux, {CODE})>>
       [] f = lkmWin   -> <<GlobCode(Lkm, windows), Tpl(load, windows, {INCLUDE, CODE})>>
       [] f = generic  -> <<GlobCode(Lkm, linux), Tpl(device, noValues, {})>>
       [] f = types    -> <<[Tpl(device, linux, {INCLUDE}) EXCEPT !.mapped = TRUE]>>
       [] OTHER        -> << >>]

Register(f) == [op |-> "register", file |-> f]
Clear == [op |-> "clear"]
Gen(os) == [op |-> "generate", config |-> {noValues, os}]
Install == [op |-> "install"]

\* ADD_RATHAXES_SOURCES of the two targets; by hand, files that share pointcuts,
\* files that clash, an install that succeeds and one that fails half way.
MCScripts ==
  (hello :> {<<Clear, Register(rti1), Register(log1), Gen(linux), Gen(windows)>>})
  @@ (lkm :> {<<Clear, Register(rti2), Register(lkmWin), Register(log2), Gen(windows)>>})
  @@ (user :> {<<Register(log1), Register(lkmWin), Register(lkmLinux), Gen(linux)>>,
               <<Register(log1), Register(log2)>>,
               <<Clear, Register(generic), Install, Register(types), Gen(linux)>>,
               <<Clear, Register(lkmLinux), Install>>})
=============================================================================
