------------------------------ MODULE Startup ------------------------------
(***************************************************************************)
(* How an application comes up: StaticHelper creates the objects that a    *)
(* configuration names, each maps its parameters, Aggregator connects      *)
(* them, and a runner takes them through INIT, NORMAL and FINAL.  The      *)
(* client may then add, hold and clear objects.                            *)
(*                                                                         *)
(* An object is a number, in the order of creation.  A class has the types *)
(* that a dynamic cast finds in it, the types it has a handle or a Multi   *)
(* handle for, its parameters and whether it is an IRunnableObject.        *)
(***************************************************************************)
EXTENDS JsonTree, Integers, Sequences, FiniteSets, SequencesExt

CONSTANTS
  Class,         \* Class[c]: [is, wants, wantsAll, spec], IRunnableObject in is
  Types,         \* the types handles are for
  DefaultNames,  \* the StaticHelper given first, whose objects have defaults
  OwnNames,      \* the other objects of the StaticHelper
  Factory,       \* Factory[f]: [objects, multi] for the names that are factories
  Plugins,       \* Plugins[path]: the class its register function registers
  ClientClasses, \* the classes of the objects that the client adds
  Starts         \* what to start from: [file, overrides, ops], with a bound on the
                 \* operations of the client

ASSUME StartupAssumption ==
  /\ \A start \in Starts : start.ops \in Nat
  /\ DefaultNames \in Seq(DOMAIN Class \cup DOMAIN Factory)
  /\ OwnNames \in Seq(DOMAIN Class \cup DOMAIN Factory)
  /\ \A f \in DOMAIN Factory : Factory[f].objects \in Seq(DOMAIN Class) /\ Factory[f].objects # << >>
  /\ \A p \in DOMAIN Plugins : Plugins[p] \in DOMAIN Class

Runnable == "IRunnableObject"
Stages == <<"INIT", "NORMAL", "FINAL">>

VARIABLES
  conf,      \* the configuration after the overrides
  plan,      \* what createAggregation still has to do
  pending,   \* the object whose parameters are being mapped, if any
  cls, vals, \* class and parameter values of every object created
  reported,  \* what configure() of the object returned
  box,       \* DynamicObjectContainer of the aggregator and of the defaults
  held,      \* objects of which the client has a shared_ptr
  handle,    \* handle[o][T]: the object that the weak_ptr is for, 0 if none
  many,      \* many[o][T]: MultiObjectHandle, a sequence of objects
  runner,    \* [kind, stage, queue, error, members]
  ran,       \* the stages that each object has run
  phase,     \* "create", "client", "run", "done" or "thrown"
  ops,       \* operations that the client may still do
  cleared    \* the client has called clear()

made == <<conf, plan, pending>>
objects == <<cls, vals, reported>>
graph == <<box, held, handle, many>>
running == <<runner, ran>>
vars == <<made, objects, graph, running, phase, ops, cleared>>

Members(s) == {s[i] : i \in DOMAIN s}
NoObject == [class |-> "none"]

----------------------------------------------------------------------------
\* StaticHelper, StaticFactory and PluginHelper: what to create

\* applyParamOverrides: an odd number is refused, a value is always a string
Overridden(j, list) ==
  IF Len(list) % 2 # 0 THEN j
  ELSE FoldLeft(LAMBDA c, k : <<"obj", [n \in DOMAIN c[2] \cup {list[2*k - 1]} |->
                                         IF n = list[2*k - 1] THEN <<"str", list[2*k]>> ELSE c[2][n]]>>,
                j, [k \in 1..(Len(list) \div 2) |-> k])

Make(isDefault, class, c) == [isDefault |-> isDefault, class |-> class, conf |-> c]
Unconfigured == <<"none", 0>>

\* createSpecific: the names of the file that the factory knows
Known(f, c) == {n \in (IF IsObject(c) THEN DOMAIN c[2] ELSE {}) : n \in Members(Factory[f].objects)}
\* StaticFactory::create
FromFactory(f, c) ==
  LET known == SetToSeq(Known(f, c))
  IN IF Empty(c) \/ (~Factory[f].multi /\ IsObject(c) /\ Cardinality(DOMAIN c[2]) > 1) THEN << >>
     ELSE [i \in DOMAIN known |-> Make(FALSE, known[i], c[2][known[i]])]
\* createDefault makes the first of the objects
FactoryDefault(f) == Factory[f].objects[1]

AddIfInConfig(name) ==
  IF ~Has(conf, name) THEN << >>
  ELSE IF name \in DOMAIN Factory THEN FromFactory(name, conf[2][name])
  ELSE <<Make(FALSE, name, conf[2][name])>>

AddIfNotInConfig(name) ==
  IF Has(conf, name) THEN << >>
  ELSE <<Make(TRUE, IF name \in DOMAIN Factory THEN FactoryDefault(name) ELSE name,
              Unconfigured)>>

\* PluginHelper: what can be loaded registers its class, and what the configuration
\* names is created
LoadPlugins(paths) == {Plugins[p] : p \in Members(paths) \cap DOMAIN Plugins}
CreatePlugins(registered) ==
  LET named == SetToSeq({c \in registered : Has(conf, c)})
  IN [i \in DOMAIN named |-> Make(FALSE, named[i], conf[2][named[i]])]
PluginPlan ==
  IF ~Has(conf, "plugin_helper") THEN << >>
  ELSE LET r == AddParam(<<"vector", <<"string">> >>, conf[2]["plugin_helper"], "plugins", << >>, TRUE)
       IN IF r.ok THEN CreatePlugins(LoadPlugins(r.val)) ELSE << >>

Each(names, Op(_)) == FlattenSeq([i \in DOMAIN names |-> Op(names[i])])
Merging == Make(TRUE, "none", Null)

CreateAggregation ==
  Each(DefaultNames, AddIfNotInConfig) \o Each(DefaultNames, AddIfInConfig)
    \o <<Merging>> \o Each(OwnNames, AddIfInConfig) \o PluginPlan

----------------------------------------------------------------------------
\* Aggregator and the handles

\* the objects of a container to which a dynamic cast to T succeeds, in order
Casts(objs, T, class) ==
  LET all[n \in 0..Len(objs)] ==
        IF n = 0 THEN << >>
        ELSE IF T \in Class[class[objs[n]]].is THEN Append(all[n - 1], objs[n]) ELSE all[n - 1]
  IN all
GetAll(objs, T, class) == Casts(objs, T, class)[Len(objs)]
\* getOne: the first of them
\* A slip: the cast is forgotten.
FirstOfAny(objs, T, class) == IF objs = << >> THEN 0 ELSE objs[1]
GetOne(objs, T, class) ==
  LET all == GetAll(objs, T, class) IN IF all = << >> THEN 0 ELSE all[1]

\* what keeps an object alive
Alive(o, b, h, r) == o \in h \cup Members(b["main"]) \cup Members(b["defaults"])
                             \cup Members(r.members) \cup Members(r.queue)

\* setFromAggregationIfNotSet, for a handle that still has its object and one that
\* has not, and for a Multi handle, which is taken again if the number has changed
SetSingle(old, alive, objs, T, class) == IF old # 0 /\ alive THEN old ELSE GetOne(objs, T, class)
\* A slip: a Multi handle is taken only once.
SetMultiOnce(old, objs, T, class) == IF old = << >> THEN GetAll(objs, T, class) ELSE old
SetMulti(old, objs, T, class) ==
  IF Len(GetAll(objs, T, class)) # Len(old) THEN GetAll(objs, T, class) ELSE old

\* who is told of an update: every member of the container
\* A slip: only the new object is told.
NotifiesNew(objs) == IF objs = << >> THEN {} ELSE {objs[Len(objs)]}
Notified(objs) == Members(objs)

\* notifyAggregationOnUpdate of container a, when b, h are the new containers and
\* objects held, for objects of the classes class
Notify(a, b, h, class) ==
  LET is(o) == o \in Notified(b[a])
      none == [T \in Types |-> 0]
      empty == [T \in Types |-> << >>]
      old(o) == IF o \in DOMAIN handle THEN handle[o] ELSE none
      olds(o) == IF o \in DOMAIN many THEN many[o] ELSE empty
  IN /\ handle' = [o \in DOMAIN class |-> IF ~is(o) THEN old(o) ELSE
           [T \in Types |-> IF T \notin Class[class[o]].wants THEN 0
              ELSE SetSingle(old(o)[T], Alive(old(o)[T], b, h, runner), b[a], T, class)]]
     /\ many' = [o \in DOMAIN class |-> IF ~is(o) THEN olds(o) ELSE
           [T \in Types |-> IF T \notin Class[class[o]].wantsAll THEN << >>
              ELSE SetMulti(olds(o)[T], b[a], T, class)]]

\* an AggregatableRunner takes the runnable objects again as long as it is itself in
\* the aggregator
RunnerNotified(a, b, class) ==
  IF runner.kind = "aggregatable" /\ a = "main" /\ ~cleared
  THEN [runner EXCEPT !.members = GetAll(b[a], Runnable, class)] ELSE runner

\* Aggregator::add of a new object of class c
AddNew(a, c, values, ok) ==
  /\ cls' = Append(cls, c) /\ vals' = Append(vals, values)
  /\ reported' = Append(reported, ok) /\ ran' = Append(ran, << >>)
  /\ box' = [box EXCEPT ![a] = Append(@, Len(cls) + 1)]
  /\ Notify(a, box', held, cls')

----------------------------------------------------------------------------
Init ==
  /\ \E start \in Starts : conf = Overridden(start.file, start.overrides) /\ ops = start.ops
  /\ plan = CreateAggregation
  /\ pending = NoObject
  /\ cls = << >> /\ vals = << >> /\ reported = << >> /\ ran = << >>
  /\ box = [a \in {"main", "defaults"} |-> << >>]
  /\ held = {} /\ handle = << >> /\ many = << >>
  /\ \E kind \in {"simple", "aggregatable"} :
       runner = [kind |-> kind, stage |-> 0, queue |-> << >>, error |-> FALSE, members |-> << >>]
  /\ phase = "create" /\ cleared = FALSE

Creating == phase = "create" /\ pending = NoObject /\ plan # << >>

\* createObject, up to configure
CreateObject ==
  /\ Creating /\ Head(plan) # Merging
  /\ LET p == Head(plan) IN
       pending' = [class |-> p.class, isDefault |-> p.isDefault, conf |-> p.conf, i |-> 1,
                   vals |-> Defaults(Class[p.class].spec), ok |-> TRUE]
  /\ plan' = Tail(plan)
  /\ UNCHANGED <<conf, objects, graph, running, phase, ops, cleared>>

Mapped == pending.conf = Unconfigured \/ pending.i > Len(Class[pending.class].spec)

\* one parameter of its configure: an exception leaves createAggregation
MapParameter ==
  /\ phase = "create" /\ pending # NoObject /\ ~Mapped
  /\ LET p == Class[pending.class].spec[pending.i]
         r == AddParam(p.type, pending.conf, p.id, pending.vals[pending.i], p.mandatory)
     IN /\ phase' = IF r.thrown THEN "thrown" ELSE phase
        /\ pending' = IF r.thrown THEN NoObject
                      ELSE [pending EXCEPT !.vals[pending.i] = r.val, !.i = @ + 1,
                                           !.ok = @ /\ ~r.missing]
  /\ UNCHANGED <<conf, plan, objects, graph, running, ops, cleared>>

\* agg.add(obj): the result of configure is not looked at
Container(p) == IF p.isDefault THEN "defaults" ELSE "main"
AddObjectToAggregator ==
  /\ phase = "create" /\ pending # NoObject /\ Mapped
  /\ AddNew(Container(pending), pending.class, pending.vals, pending.ok)
  /\ runner' = RunnerNotified(Container(pending), box', cls')
  /\ pending' = NoObject
  /\ UNCHANGED <<conf, plan, held, phase, ops, cleared>>

\* agg.merge(defaults)
MergeDefaults ==
  /\ Creating /\ Head(plan) = Merging /\ plan' = Tail(plan)
  /\ box' = [main |-> box["main"] \o box["defaults"], defaults |-> << >>]
  /\ Notify("main", box', held, cls)
  /\ runner' = RunnerNotified("main", box', cls)
  /\ UNCHANGED <<conf, pending, objects, held, ran, phase, ops, cleared>>

Created ==
  /\ phase = "create" /\ pending = NoObject /\ plan = << >>
  /\ phase' = "client"
  /\ UNCHANGED <<made, objects, graph, running, ops, cleared>>

----------------------------------------------------------------------------
\* The client

ClientCalls == phase = "client" /\ ops > 0 /\ ops' = ops - 1

ClientAdd(c) ==
  /\ ClientCalls /\ AddNew("main", c, Defaults(Class[c].spec), TRUE)
  /\ runner' = RunnerNotified("main", box', cls')
  /\ UNCHANGED <<made, held, phase, cleared>>

\* getOne or getAll give the client a shared_ptr
ClientHold(o) ==
  /\ ClientCalls /\ o \in Members(box["main"]) \ held /\ held' = held \cup {o}
  /\ UNCHANGED <<made, objects, box, handle, many, running, phase, cleared>>

\* and it lets go of it: an object that nobody else has is destroyed
ClientRelease(o) ==
  /\ ClientCalls /\ o \in held /\ held' = held \ {o}
  /\ UNCHANGED <<made, objects, box, handle, many, running, phase, cleared>>

ClientAddHeld(o) ==
  /\ ClientCalls /\ o \in held \ Members(box["main"])
  /\ box' = [box EXCEPT !["main"] = Append(@, o)]
  /\ Notify("main", box', held, cls)
  /\ runner' = RunnerNotified("main", box', cls)
  /\ UNCHANGED <<made, objects, held, ran, phase, cleared>>

ClientClear ==
  /\ ClientCalls /\ box' = [box EXCEPT !["main"] = << >>] /\ cleared' = TRUE
  /\ UNCHANGED <<made, objects, held, handle, many, running, phase>>

----------------------------------------------------------------------------
\* SimpleRunner and AggregatableRunner: runAllStages

StageObjects == IF runner.kind = "simple" THEN GetAll(box["main"], Runnable, cls)
                ELSE runner.members

\* A slip: runAllStages does not look at the result of runStage.
GoesOnAnyway == runner.stage < Len(Stages)
GoesOn == runner.stage < Len(Stages) /\ ~runner.error

StageDone == runner.queue = << >>

BeginStage ==
  /\ \/ phase = "client" \/ (phase = "run" /\ StageDone)
  /\ GoesOn
  /\ runner' = [runner EXCEPT !.stage = @ + 1, !.queue = StageObjects]
  /\ phase' = "run"
  /\ UNCHANGED <<made, objects, graph, ran, ops, cleared>>

\* run(stage) of one object: AggregatableRunner stops at the first error
RunObject ==
  /\ phase = "run" /\ ~StageDone
  /\ \E fails \in BOOLEAN :
       runner' = [runner EXCEPT !.error = @ \/ fails,
                                !.queue = IF fails /\ runner.kind = "aggregatable" THEN << >> ELSE Tail(@)]
  /\ ran' = [ran EXCEPT ![Head(runner.queue)] = Append(@, Stages[runner.stage])]
  /\ UNCHANGED <<made, objects, graph, phase, ops, cleared>>

\* run(stage) that adds an object to the aggregator, under SimpleRunner: the new
\* object misses the stage (in ran, "missed")
RunObjectAdding(c) ==
  /\ phase = "run" /\ ~StageDone /\ runner.kind = "simple" /\ ops > 0
  /\ ops' = ops - 1
  /\ runner' = [runner EXCEPT !.queue = Tail(@)]
  /\ cls' = Append(cls, c) /\ vals' = Append(vals, Defaults(Class[c].spec))
  /\ reported' = Append(reported, TRUE)
  /\ ran' = Append([ran EXCEPT ![Head(runner.queue)] = Append(@, Stages[runner.stage])],
                   [s \in 1..runner.stage |-> "missed"])
  /\ box' = [box EXCEPT !["main"] = Append(@, Len(cls) + 1)]
  /\ Notify("main", box', held, cls')
  /\ UNCHANGED <<made, held, phase, cleared>>

EndStages ==
  /\ phase = "run" /\ StageDone /\ ~GoesOn
  /\ phase' = "done"
  /\ UNCHANGED <<made, objects, graph, running, ops, cleared>>

Next == \/ CreateObject \/ MapParameter \/ AddObjectToAggregator \/ MergeDefaults \/ Created
        \/ \E c \in ClientClasses : ClientAdd(c) \/ RunObjectAdding(c)
        \/ \E o \in DOMAIN cls : ClientHold(o) \/ ClientRelease(o) \/ ClientAddHeld(o)
        \/ ClientClear \/ BeginStage \/ RunObject \/ EndStages

Spec == Init /\ [][Next]_vars

----------------------------------------------------------------------------
Objects == DOMAIN cls

\* The state has its shape: all objects have values, a result and handles, and a
\* handle is for an object of the type asked for.
TypeOK ==
  /\ phase \in {"create", "client", "run", "done", "thrown"}
  /\ DOMAIN vals = Objects /\ DOMAIN reported = Objects /\ DOMAIN ran = Objects
  /\ DOMAIN handle = Objects /\ DOMAIN many = Objects
  /\ \A a \in DOMAIN box : Members(box[a]) \subseteq Objects
  /\ \A o \in Objects, T \in Types :
       /\ handle[o][T] # 0 => T \in Class[cls[handle[o][T]]].is
       /\ \A q \in Members(many[o][T]) : T \in Class[cls[q]].is
  /\ runner.stage \in 0..Len(Stages) /\ ops \in Nat /\ held \subseteq Objects

\* o has a living object behind its handle for T, if the aggregator has one of that
\* type (ObjectHandleContainer::isSet)
IsSet(o, T) ==
  T \in Class[cls[o]].wants /\ GetOne(box["main"], T, cls) # 0
    => handle[o][T] # 0 /\ Alive(handle[o][T], box, held, runner)

\* However the objects are created, added, merged, held and cleared, every change of
\* the aggregator leaves all its objects with their handles set.  Between the changes
\* a handle is lost only when the client lets go of the object behind it, which is
\* then no longer in the aggregator: nobody is told of that.
KeepsHandles ==
  \A o \in Members(box'["main"]), T \in Types :
    \/ IsSet(o, T)'
    \/ box'["main"] = box["main"] /\ (IsSet(o, T) => handle[o][T] \in held \ held')
HandlesComplete == [][KeepsHandles]_vars

\* Until clear() is called, a Multi handle has every object of its type in the
\* aggregator, in the order in which they were added.
MultiComplete ==
  ~cleared => \A o \in Members(box["main"]), T \in Types :
    T \in Class[cls[o]].wantsAll => many[o][T] = GetAll(box["main"], T, cls)

\* Every object of the runner goes through the stages in their order, and none enters a
\* stage before the others have run the one before without an error (runAllStages);
\* only one that is added in a stage misses it.
StageBarrier ==
  \A o, p \in Members(StageObjects) :
    /\ \A s \in DOMAIN ran[o] : ran[o][s] \in {Stages[s], "missed"}
    /\ Len(ran[p]) >= Len(ran[o]) - 1
=============================================================================
