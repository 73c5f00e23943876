---------------------------- MODULE MCUnitFiles ----------------------------
(* Small instances of UnitFiles: two directories, a template with an alias, an instance*)
(* of it that names it in Also=, a socket unit, and two built-in targets.               *)
EXTENDS UnitFiles

MCNames == {"w@.service", "w@1.service", "h.service", "s.socket", "s.socket.service", "m.target", "d.target"}
MCSuffix == [n \in MCNames |->
  CASE n = "s.socket" -> "socket" [] n \in {"m.target", "d.target"} -> "target" [] OTHER -> "service"]
MCServiceOf == [n \in MCNames |-> IF n = "s.socket" THEN "s.socket.service" ELSE n]
MCTemplate == [n \in MCNames |-> IF n = "w@1.service" THEN "w@.service" ELSE "-"]

File(w, r, al, also) == [ok |-> TRUE, wanted_by |-> w, required_by |-> r, alias |-> al, also |-> also]
Wanted   == File({"m.target"}, {}, "h.service", "-")
Required == File({"d.target"}, {"m.target"}, "-", "w@.service")
Cyclic   == File({"m.target"}, {}, "-", "w@1.service")
Plain    == File({"m.target"}, {}, "-", "-")
Bad      == [Wanted EXCEPT !.ok = FALSE]
MCContents == {Wanted, Required, Cyclic, Plain, Bad}
MCInitial == [d \in 1..2 |-> [n \in MCNames |->
  IF d = 2 /\ n = "w@.service" THEN Reg(Wanted)
  ELSE IF d = 2 /\ n = "s.socket" THEN Reg(Plain)
  ELSE IF d = 1 /\ n = "w@1.service" THEN Reg(Required) ELSE None]]
============================================================================
