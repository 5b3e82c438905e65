----------------------------- MODULE Containers -----------------------------
(* The generic container resource (internal/domain/container): the          *)
(* containers and images of one engine, and the requests that change them.  *)
(* A request on a container first inspects it, to leave the containers of   *)
(* the database module alone, and then asks the engine: two calls, between  *)
(* which other requests and the database module go on.                      *)
(* A container is addressed by name or by id; only names can be taken over  *)
(* by another container, so requests address names here.                    *)
EXTENDS Naturals

CONSTANTS
    Names,        \* container names
    MaxId,        \* bound: containers ever created
    MaxFaults     \* bound: calls that fail

VARIABLES
    up,           \* the engine's socket answers
    boxes,        \* name -> [id, managed, state]
    lastId,
    image,        \* the image is in the local store
    seen,         \* names in the last list the client was given
    op,           \* the request between its two calls, [kind, name, found]
    faults

vars == <<up, boxes, lastId, image, seen, op, faults>>

(* What the proofs assume of the constants.                                 *)
BoxBounds == {MaxId, MaxFaults} \subseteq Nat

NoOp == [kind |-> "none", name |-> "", found |-> 0]
Charge(at) == faults' = faults + (IF at = "none" THEN 0 ELSE 1) /\ faults' <= MaxFaults
Without(f, x) == [y \in DOMAIN f \ {x} |-> f[y]]
With(f, x, v) == [y \in DOMAIN f \cup {x} |-> IF y = x THEN v ELSE f[y]]

----------------------------------------------------------------------------
(* The client asks the engine; without its socket every call fails.         *)
do(at) == up /\ at # "call"
Ping == do("none")
checkEngine == Ping
ContainerInspect(n, at) == IF do(at) /\ n \in DOMAIN boxes THEN boxes[n].id ELSE 0
ContainerList == DOMAIN boxes

(* What the engine makes of a container.  Starting what runs and stopping   *)
(* what is stopped succeed without effect.                                  *)
ContainerStart(b) == IF b.state \in {"created", "exited"} THEN [b EXCEPT !.state = "running"] ELSE b
ContainerStop(b) == IF b.state \in {"running", "paused"} THEN [b EXCEPT !.state = "exited"] ELSE b
ContainerRestart(b) == [b EXCEPT !.state = "running"]
ContainerPause(b) == IF b.state = "running" THEN [b EXCEPT !.state = "paused"] ELSE b
ContainerUnpause(b) == IF b.state = "paused" THEN [b EXCEPT !.state = "running"] ELSE b
ContainerRemove(n, force) ==
    IF boxes[n].state \in {"running", "paused"} /\ ~force THEN boxes ELSE Without(boxes, n)
ContainerRename(n, new) ==
    IF new \in DOMAIN boxes THEN boxes ELSE With(Without(boxes, n), new, boxes[n])
ContainerCreate(n, managed) ==
    With(boxes, n, [id |-> lastId + 1, managed |-> managed, state |-> "created"])

----------------------------------------------------------------------------
ListContainers ==
    /\ checkEngine
    /\ seen' = ContainerList
    /\ UNCHANGED <<up, boxes, lastId, image, op, faults>>

(* Bug variant: the label is looked for on running containers only.         *)
rejectManagedRunning(kind, n, at) ==
    /\ op = NoOp /\ at \in {"none", "call"} /\ Charge(at)
    /\ LET found == ContainerInspect(n, at)
       IN op' = IF found # 0 /\ boxes[n].managed /\ boxes[n].state = "running" THEN NoOp
                ELSE [kind |-> kind, name |-> n, found |-> found]
    /\ UNCHANGED <<up, boxes, lastId, image, seen>>

(* An inspection that fails lets the request go on, whatever the reason.    *)
rejectManaged(kind, n, at) ==
    /\ op = NoOp /\ at \in {"none", "call"} /\ Charge(at)
    /\ LET found == ContainerInspect(n, at)
       IN op' = IF found # 0 /\ boxes[n].managed THEN NoOp
                ELSE [kind |-> kind, name |-> n, found |-> found]
    /\ UNCHANGED <<up, boxes, lastId, image, seen>>

StartContainer(n, at) == rejectManaged("start", n, at)
StopContainer(n, at) == rejectManaged("stop", n, at)
RestartContainer(n, at) == rejectManaged("restart", n, at)
PauseContainer(n, at) == rejectManaged("pause", n, at)
UnpauseContainer(n, at) == rejectManaged("unpause", n, at)
RemoveContainer(n, force, at) == rejectManaged(IF force THEN "force" ELSE "remove", n, at)
RenameContainer(n, new, at) == rejectManaged(new, n, at)
UpdateContainer(n, at) == rejectManaged("update", n, at)
ExecInContainer(n, at) == rejectManaged("exec", n, at)

(* The second call of the request, on whatever carries the name by then.    *)
Effect(n) ==
    CASE op.kind = "start" -> With(boxes, n, ContainerStart(boxes[n]))
      [] op.kind = "stop" -> With(boxes, n, ContainerStop(boxes[n]))
      [] op.kind = "restart" -> With(boxes, n, ContainerRestart(boxes[n]))
      [] op.kind = "pause" -> With(boxes, n, ContainerPause(boxes[n]))
      [] op.kind = "unpause" -> With(boxes, n, ContainerUnpause(boxes[n]))
      [] op.kind = "remove" -> ContainerRemove(n, FALSE)
      [] op.kind = "force" -> ContainerRemove(n, TRUE)
      [] op.kind \in {"update", "exec"} -> boxes    \* limits and commands are not kept
      [] OTHER -> ContainerRename(n, op.kind)

Call(at) ==
    /\ op # NoOp /\ at \in {"none", "call"} /\ Charge(at)
    /\ boxes' = IF do(at) /\ op.name \in DOMAIN boxes THEN Effect(op.name) ELSE boxes
    /\ op' = NoOp
    /\ UNCHANGED <<up, lastId, image, seen>>

(* Labels of the request are handed on as they are, the panel's mark with   *)
(* them: managed is the client's choice.                                    *)
CreateContainer(n, managed, at) ==
    /\ lastId < MaxId /\ at \in {"none", "call"} /\ Charge(at)
    /\ LET done == do(at) /\ image /\ n \notin DOMAIN boxes
       IN /\ boxes' = IF done THEN ContainerCreate(n, managed) ELSE boxes
          /\ lastId' = IF done THEN lastId + 1 ELSE lastId
    /\ UNCHANGED <<up, image, seen, op>>

----------------------------------------------------------------------------
(* A pull whose stream reports an error leaves nothing.                     *)
ImagePull(at) == image \/ do(at)
ImageRemove(force, at) == image /\ ~(do(at) /\ (force \/ DOMAIN boxes = {}))
PullImage(at) ==
    /\ at \in {"none", "call"} /\ Charge(at)
    /\ image' = ImagePull(at)
    /\ UNCHANGED <<up, boxes, lastId, seen, op>>

RemoveImage(force, at) ==
    /\ at \in {"none", "call"} /\ Charge(at)
    /\ image' = ImageRemove(force, at)
    /\ UNCHANGED <<up, boxes, lastId, seen, op>>

----------------------------------------------------------------------------
(* The routes: on a container of the client's list, at a failing call.      *)
Ats == {"none", "call"}
PostStart == \E n \in seen, at \in Ats : StartContainer(n, at)
PostStop == \E n \in seen, at \in Ats : StopContainer(n, at)
PostRestart == \E n \in seen, at \in Ats : RestartContainer(n, at)
PostPause == \E n \in seen, at \in Ats : PauseContainer(n, at)
PostUnpause == \E n \in seen, at \in Ats : UnpauseContainer(n, at)
DeleteRequest == \E n \in seen, force \in BOOLEAN, at \in Ats : RemoveContainer(n, force, at)
PutName == \E n \in seen, new \in Names, at \in Ats : RenameContainer(n, new, at)
PutLimits == \E n \in seen, at \in Ats : UpdateContainer(n, at)
PostExec == \E n \in seen, at \in Ats : ExecInContainer(n, at)
PostContainer == \E n \in Names, at \in Ats : CreateContainer(n, FALSE, at)
PostImage == \E at \in Ats : PullImage(at)
DeleteImage == \E force \in BOOLEAN, at \in Ats : RemoveImage(force, at)
GetContainers == ListContainers

----------------------------------------------------------------------------
(* The database module creates and removes its own containers; a container  *)
(* ends by itself; the engine comes and goes.                               *)
DbCreate(n) ==
    /\ up /\ lastId < MaxId /\ n \notin DOMAIN boxes
    /\ boxes' = ContainerCreate(n, TRUE) /\ lastId' = lastId + 1
    /\ UNCHANGED <<up, image, seen, op, faults>>
DbRemove(n) ==
    /\ up /\ n \in DOMAIN boxes /\ boxes[n].managed
    /\ boxes' = Without(boxes, n)
    /\ UNCHANGED <<up, lastId, image, seen, op, faults>>
BoxExits(n) ==
    /\ n \in DOMAIN boxes /\ boxes[n].state = "running"
    /\ boxes' = [boxes EXCEPT ![n].state = "exited"]
    /\ UNCHANGED <<up, lastId, image, seen, op, faults>>
EngineToggles ==
    /\ up' = ~up
    /\ boxes' = [n \in DOMAIN boxes |-> [boxes[n] EXCEPT !.state =
                     IF up /\ @ \in {"running", "paused"} THEN "exited" ELSE @]]
    /\ UNCHANGED <<lastId, image, seen, op, faults>>

Init ==
    /\ up = TRUE /\ boxes = [n \in {} |-> n] /\ lastId = 0 /\ image = FALSE
    /\ seen = {} /\ op = NoOp /\ faults = 0

Next ==
    \/ GetContainers \/ PostContainer \/ PostStart \/ PostStop \/ PostRestart \/ PostPause
    \/ PostUnpause \/ DeleteRequest \/ PutName \/ PutLimits \/ PostExec
    \/ PostImage \/ DeleteImage
    \/ \E at \in Ats : Call(at)
    \/ \E n \in Names : DbCreate(n) \/ DbRemove(n) \/ BoxExits(n)
    \/ EngineToggles

----------------------------------------------------------------------------
TypeOK ==
    /\ up \in BOOLEAN /\ image \in BOOLEAN /\ lastId \in 0..MaxId /\ faults \in 0..MaxFaults
    /\ DOMAIN boxes \subseteq Names /\ seen \subseteq Names
    /\ \A n \in DOMAIN boxes : boxes[n] \in
           [id: 1..MaxId, managed: BOOLEAN, state: {"created", "running", "paused", "exited"}]
    /\ op = NoOp \/ (op.name \in Names /\ op.found \in 0..MaxId)

Answered == op # NoOp /\ op' = NoOp
Touched(n) == \/ n \notin DOMAIN boxes' \/ boxes'[n] # boxes[n]

(* A request that saw a container when it inspected never changes it if it  *)
(* is one of the database module's: the engine's answer is about the        *)
(* container the second call changes, or that call changes another one.     *)
InspectedIsSpared ==
    Answered => \A n \in DOMAIN boxes : boxes[n].managed /\ Touched(n) => op.found # boxes[n].id

(* The comment of rejectManaged: the generic resource never takes over,     *)
(* edits or deletes a container of the database module.  It does, when the  *)
(* inspection failed or the name changed hands after it.                    *)
ManagedUntouched == Answered => \A n \in DOMAIN boxes : boxes[n].managed => ~Touched(n)
=============================================================================
