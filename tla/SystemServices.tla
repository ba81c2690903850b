--------------------------- MODULE SystemServices ---------------------------
(***************************************************************************)
(* The systemd pack: systemd_unit with its unit file, its service identity *)
(* drop-in and the state of the service, timezone and timesync.  What      *)
(* systemctl does is external, modelled from how the pack uses it; the     *)
(* identity of a service is one value for User and Group.                  *)
(***************************************************************************)
EXTENDS GuestOps

\* A unit: path is its file under /etc/systemd/system (a masked unit has a link to
\* /dev/null there), drop the provider's drop-in, "other" if somebody else wrote it,
\* seen the identity systemd has loaded, runs the one the process was started with.
\* A drop-in that overrides the identity is found by its name ("later") or not.
Identity == {"u1", "u2"}
UnitHost ==
  [pkg : {TRUE}, path : {Nil}, drop : {Nil}, override : {"none", "later", "hidden"},
   seen : {""}, runs : {""}, enabled : {FALSE}, active : {TRUE}]
  \cup [pkg : {TRUE}, path : {Nil}, drop : {"other"}, override : {"none"}, seen : {""}, runs : {""},
        enabled : {FALSE}, active : {FALSE}]
  \cup [pkg : {FALSE}, path : {Nil}, drop : {Nil}, override : {"none"}, seen : {""}, runs : {""},
        enabled : {FALSE}, active : {FALSE}]

\* Arguments that are not set are sent as "" and FALSE.
UnitPlan ==
  {p \in [content : {"", "c1"}, ident : {""} \cup Identity, state : {"", "running", "stopped"},
          enabled : BOOLEAN, masked : BOOLEAN] :
     /\ p.content # "" => p.state = "running"
     /\ p.ident = "u2" => p.content = "" /\ p.state = "running"
     /\ p.masked => p.state # "running" /\ ~p.enabled /\ p.content = "" /\ p.ident = ""
     /\ p.enabled => p.content = "" /\ p.ident = "" /\ p.state = "running"}

effective(h) ==
  IF h.override # "none" THEN "else" ELSE IF h.drop \in Identity THEN h.drop ELSE ""

daemonReload(h) == [h EXCEPT !.seen = effective(h)]

Exists(h) == h.pkg \/ h.path # Nil

\* systemctl: when the command can succeed, and what it then does.
Can(h, verb) ==
  CASE verb \in {"enable", "start", "restart"} -> Exists(h) /\ h.path # "mask"
    [] verb = "mask" -> h.path \in {Nil, "mask"}
    [] OTHER -> Exists(h)

Effect(h, verb) ==
  CASE verb = "enable" -> [h EXCEPT !.enabled = TRUE]
    [] verb = "disable" -> [h EXCEPT !.enabled = FALSE]
    [] verb = "mask" -> [h EXCEPT !.path = "mask"]
    [] verb = "unmask" -> [h EXCEPT !.path = IF @ = "mask" THEN Nil ELSE @]
    [] verb = "stop" -> [h EXCEPT !.active = FALSE]
    [] verb = "start" -> [h EXCEPT !.active = TRUE, !.runs = IF h.active THEN @ ELSE h.seen]
    [] verb = "restart" -> [h EXCEPT !.active = TRUE, !.runs = h.seen]

\* The hosts a sequence of commands passes through, up to the first that cannot succeed;
\* "" is no command.
systemctl(x, verb) ==
  CASE verb = "" -> x
    [] verb # "" /\ x.ok /\ Can(Last(x.hs), verb) -> [x EXCEPT !.hs = Append(@, Effect(Last(@), verb))]
    [] OTHER -> [x EXCEPT !.ok = FALSE]

desiredStateFromActiveState(h) == IF h.active THEN "running" ELSE "stopped"

-----------------------------------------------------------------------------
hasServiceIdentityState(s) == s # Nil /\ s.ident # ""

\* The provider's drop-in is there and holds what the state says.
validateServiceIdentityDropInMatchesState(h, s) == hasServiceIdentityState(s) /\ h.drop = s.ident

validateServiceIdentityDropInForApply(h, s) ==
  IF h.drop = Nil THEN ~hasServiceIdentityState(s) ELSE validateServiceIdentityDropInMatchesState(h, s)

validateNoLaterServiceIdentityDropIns(h, s) == s.ident # "" => h.override # "later"

UnitRead(h, s) ==
  CASE ~Exists(h) -> Nil
    [] /\ Exists(h)
       /\ \/ h.drop = Nil /\ hasServiceIdentityState(s)
          \/ h.drop # Nil /\ ~validateServiceIdentityDropInMatchesState(h, s)
          \/ ~validateNoLaterServiceIdentityDropIns(h, s) -> Refused
    [] OTHER ->
         [content |-> IF h.path \in {Nil, "mask"} THEN "" ELSE h.path,
          ident |-> IF h.drop = Nil THEN "" ELSE h.drop,
          state |-> desiredStateFromActiveState(h),
          enabled |-> h.enabled /\ h.path # "mask",
          masked |-> h.path = "mask"]

\* The host with the drop-in the plan asks for, or Refused.
applyServiceIdentityDropIn(h, s, p) ==
  LET wanted == p.ident # ""
      had == hasServiceIdentityState(s)
  IN IF (wanted \/ had) /\ ~validateServiceIdentityDropInForApply(h, s) THEN Refused
     ELSE IF ~wanted THEN (IF had THEN [h EXCEPT !.drop = Nil] ELSE h)
     ELSE IF ~validateNoLaterServiceIdentityDropIns(h, p) THEN Refused
     ELSE [h EXCEPT !.drop = p.ident]

validateEffectiveServiceIdentity(h, p) == p.ident # "" => h.seen = p.ident

\* The drop-in is put back and loaded; the unit file is not.
rollbackServiceIdentityDropIn(d, h) == <<d, [d EXCEPT !.drop = h.drop], daemonReload([d EXCEPT !.drop = h.drop])>>

If(cond, verb) == IF cond THEN verb ELSE ""

ensureUnitRunningAfterIdentityChange(h, changed) == IF changed /\ h.active THEN "restart" ELSE "start"
restartActiveUnit(h) == If(h.active, "restart")

reconcileCreateServiceState(h, p, changed) ==
  CASE p.state = "running" -> ensureUnitRunningAfterIdentityChange(h, changed)
    [] p.state = "stopped" -> "stop"
    [] OTHER -> IF changed /\ ~p.masked THEN restartActiveUnit(h) ELSE ""

\* A plan without a state is taken for a change of the state, and changes nothing.
reconcileUpdateServiceState(h, s, p, changed) ==
  CASE p.state # s.state /\ p.state = "running" -> ensureUnitRunningAfterIdentityChange(h, changed)
    [] p.state # s.state /\ p.state = "stopped" -> "stop"
    [] p.state = s.state /\ changed /\ ~p.masked /\ p.state # "stopped" -> restartActiveUnit(h)
    [] OTHER -> ""

reconcileEnabled(s, p) ==
  IF s = Nil THEN If(p.enabled, "enable") ELSE If(p.enabled # s.enabled, IF p.enabled THEN "enable" ELSE "disable")
reconcileMasked(s, p) ==
  IF s = Nil THEN If(p.masked, "mask") ELSE If(p.masked # s.masked, IF p.masked THEN "mask" ELSE "unmask")

\* The commands a create or an update ends with, on a host h with unit and drop-in in
\* place.  A reload for changed triggers comes last and leaves what is modelled as it is.
UnitCommands(h, s, p, changed) ==
  LET state == IF s = Nil THEN reconcileCreateServiceState(h, p, changed) ELSE reconcileUpdateServiceState(h, s, p, changed)
  IN systemctl(systemctl(systemctl([hs |-> <<h>>, ok |-> TRUE], reconcileEnabled(s, p)), reconcileMasked(s, p)), state)

\* What create and update share: the file is written (w), then the drop-in (d),
\* systemd loads both, the identity it resolves is compared with the plan, and the
\* commands of UnitCommands follow.  The cause of a rollback is an error in any case.
ApplyUnit(h, w, s, p, reload) ==
  LET d == applyServiceIdentityDropIn(w, s, p)
      fresh == w = h /\ h.seen = effective(h)
      changed == d.drop # w.drop
      ready == IF reload \/ changed THEN daemonReload(d) ELSE d
      cmds == UnitCommands(ready, s, p, changed)
      undo(x) == IF changed THEN Run(rollbackServiceIdentityDropIn(x, w), IF fresh THEN Refused ELSE Failed)
                 ELSE {Outcome(x, IF x = h THEN Refused ELSE Failed)}
  IN IF d = Refused THEN Change(<<h, w>>, IF w = h THEN Refused ELSE Failed)
     ELSE ChangeThen(<<h, w, d, ready>>,
               (IF reload \/ changed THEN undo(d) ELSE {})
               \cup (IF p.ident # "" THEN undo(ready) ELSE {})
               \cup IF validateEffectiveServiceIdentity(ready, p)
                    THEN Run(cmds.hs, IF cmds.ok /\ IsState(UnitRead(Last(cmds.hs), p)) THEN UnitRead(Last(cmds.hs), p) ELSE Failed)
                    ELSE {})

UnitCreate(h, p) ==
  LET w == IF p.content = "" THEN h ELSE [h EXCEPT !.path = p.content]
  IN ApplyUnit(h, w, Nil, p, w # h)

UnitUpdate(h, s, p) ==
  LET w == CASE p.content = s.content -> h
             [] p.content \notin {"", s.content} -> [h EXCEPT !.path = p.content]
             [] OTHER -> [h EXCEPT !.path = Nil]
  IN ApplyUnit(h, w, s, p, p.content # s.content)

\* Unmask, stop and disable are tried, whether they succeed or not; so is the removal
\* of the unit file.
UnitDelete(h, s) ==
  LET tries(hs, verb) == hs \cup {Effect(x, verb) : x \in hs}
      stopped == tries(tries(IF s.masked THEN tries({h}, "unmask") ELSE {h}, "stop"), "disable")
      undropped(x) ==
        IF hasServiceIdentityState(s) THEN <<x, [x EXCEPT !.drop = Nil], daemonReload([x EXCEPT !.drop = Nil])>> ELSE <<x>>
      removed(x) == IF s.content = "" THEN {x} ELSE {x, [x EXCEPT !.path = Nil], daemonReload([x EXCEPT !.path = Nil])}
  IN IF hasServiceIdentityState(s) /\ ~validateServiceIdentityDropInMatchesState(h, s) THEN Refuse(h)
     ELSE UNION {Then(undropped(x), UNION {Answers(y, Nil) : y \in removed(Last(undropped(x)))}) : x \in stopped}

-----------------------------------------------------------------------------
\* timezone: whatever zone the host has is read; there is nothing to delete.
ZoneHost == [zone : {"UTC", "old"}]
ZonePlan == [zone : {"UTC", "CET"}]

ZoneRead(h, s) == h
applyTimezone(h, p) == Run(<<h, [h EXCEPT !.zone = p.zone]>>, p)
ZoneDelete(h, s) == Answers(h, Nil)

-----------------------------------------------------------------------------
\* timesync: the drop-in of systemd-timesyncd, its unit, and the servers the running
\* daemon has read.
SyncHost == [file : {Nil, {"s1"}}, enabled : BOOLEAN, active : BOOLEAN, live : {{}}]
SyncPlan == [enabled : BOOLEAN, servers : {{}, {"s1"}, {"s2"}}]

readTimesyncdConfig(h) == IF h.file = Nil THEN {} ELSE h.file
timesyncdEnabled(h) == h.enabled /\ h.active

SyncRead(h, s) == [enabled |-> timesyncdEnabled(h), servers |-> readTimesyncdConfig(h)]

applyTimesync(h, p) ==
  LET w == [h EXCEPT !.file = p.servers]
      first == [w EXCEPT !.enabled = IF p.enabled THEN TRUE ELSE @, !.active = IF p.enabled THEN @ ELSE FALSE]
      done == [first EXCEPT !.enabled = p.enabled, !.active = p.enabled, !.live = IF p.enabled THEN p.servers ELSE @]
  IN Change(<<h, w, first, done>>, SyncRead(done, p))

SyncDelete(h, s) == Answers(h, Nil)
=============================================================================
