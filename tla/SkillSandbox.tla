---------------------------- MODULE SkillSandbox ----------------------------
(***************************************************************************)
(* Running a skill: services/execution/src/service.ts, on units that       *)
(* packages/manifest/src accepted.                                         *)
(*                                                                         *)
(* A run races its work against the wall timeout and abandons the work     *)
(* when it loses, nothing cancels it; a request has a timeout of its own.  *)
(* Time passes for all runs together, in units of ten seconds, and not     *)
(* past a timer that is due.  A host is the sequence of its labels, the    *)
(* last one first, "*" being the wildcard of a manifest.  Of an URL only   *)
(* the host and which inputs it carries matter here, of an answer whether  *)
(* the work goes on.                                                       *)
(***************************************************************************)
EXTENDS Naturals, Sequences, SequencesExt

CONSTANTS
    Runs,       \* calls of the execution service
    Manifests,  \* documents publishers write
    Inputs,     \* what callers give: names, and the host a placeholder is filled with
    Redirects,  \* hosts an answer may send a request on to
    Walls       \* settings of SANDBOX_MAX_WALL_MS, 30 s if there is none

VARIABLES
    work,     \* per run: its unit, the requests made, where the last one is,
              \* and its age while it is under way,
    elapsed,  \* the age of the run,
    outcome,  \* "none", "running", "done", "threw", "wall"
    wall      \* the wall timeout

boxVars == <<work, elapsed, outcome, wall>>

(* The default of the wall timeout, and the timeout of ctx.http.get (after *)
(* one too long for two requests).                                         *)
DefaultWall == 3
FetchLimitTwice == 2
FetchLimit == 1

-----------------------------------------------------------------------------
(* parseSkill and validateManifest.  HOST_RE wants two labels, and allows  *)
(* the wildcard in front of them.  The other fields are as they must be or *)
(* not.                                                                    *)
ValidHost(host) ==
    LET labels == SelectSeq(host, LAMBDA l : l # "*")
    IN Len(labels) >= 2 /\ host \in {labels, Append(labels, "*")}

ValidManifest(m) ==
    /\ m.wellFormed
    /\ \A e \in m.endpoint : e.absolute
    /\ m.egress # {} /\ \A host \in m.egress : ValidHost(host)

(* allowedHost: a listed host or one below it; no label is "*" there.      *)
AllowedHost(host, egress) == \E h \in egress : IsPrefix(h, host)

(* buildEndpointUrl: placeholders are filled, what is left of the input is *)
(* appended to the query; no URL when a placeholder's input is missing.    *)
BuildEndpointUrl(endpoint, input) ==
    IF endpoint.needs \subseteq input.names
      THEN {[host |-> IF endpoint.host = <<>> THEN input.host ELSE endpoint.host,
             path |-> endpoint.needs, query |-> input.names \ endpoint.needs]}
      ELSE {}

(* runHelloWeather: a place is looked up, then its weather.                *)
HelloWeather == <<<<"com", "open-meteo", "geocoding-api">>, <<"com", "open-meteo", "api">>>>

-----------------------------------------------------------------------------
Idle == [unit |-> [egress |-> {}], builtin |-> FALSE, made |-> <<>>, at |-> <<>>, age |-> {}]

SandboxInit ==
    /\ work = [r \in Runs |-> Idle]
    /\ elapsed = [r \in Runs |-> 0]
    /\ outcome = [r \in Runs |-> "none"]
    /\ wall \in Walls

(* ctx.http.get of run r, whose work is w: the request, or a throw.        *)
Get(r, w, url) ==
    IF AllowedHost(url.host, w.unit.egress)
      THEN /\ work' = [work EXCEPT ![r] = [w EXCEPT !.made = Append(@, url), !.at = url.host,
                                                    !.age = {0}]]
           /\ outcome' = [outcome EXCEPT ![r] = IF @ = "none" THEN "running" ELSE @]
      ELSE /\ work' = [work EXCEPT ![r] = [w EXCEPT !.age = {}]]
           /\ outcome' = [outcome EXCEPT ![r] = IF @ = "wall" THEN @ ELSE "threw"]

Throw(r, w) ==
    /\ work' = [work EXCEPT ![r] = w]
    /\ outcome' = [outcome EXCEPT ![r] = "threw"]

WeatherUrl(i) == [host |-> HelloWeather[i], path |-> {}, query |-> {}]

(* run, up to the race: a built-in handler goes before the endpoint, and   *)
(* a unit with neither is refused.                                         *)
StartRun(r, m, builtin, input) ==
    /\ outcome[r] = "none" /\ ValidManifest(m)
    /\ LET w == [Idle EXCEPT !.unit = m, !.builtin = builtin]
           urls == UNION {BuildEndpointUrl(e, input) : e \in m.endpoint}
       IN \/ builtin /\ Get(r, w, WeatherUrl(1))
          \/ ~builtin /\ \E url \in urls : Get(r, w, url)
          \/ ~builtin /\ urls = {} /\ Throw(r, w)
    /\ UNCHANGED <<elapsed, wall>>

(* The answer of a request: the weather after the place, unless there is   *)
(* no such place; else the output.                                         *)
FetchAnswered(r) ==
    /\ work[r].age # {}
    /\ \/ /\ work[r].builtin /\ Len(work[r].made) = 1
          /\ Get(r, work[r], WeatherUrl(2))
       \/ /\ work' = [work EXCEPT ![r].age = {}]
          /\ outcome' = [outcome EXCEPT ![r] = IF @ = "running" THEN "done" ELSE @]
    /\ UNCHANGED <<elapsed, wall>>

(* It is answered with a redirect, which fetch follows by itself: nobody   *)
(* looks at where it leads, and the timeout goes on.                       *)
FetchRedirected(r) ==
    /\ work[r].age # {}
    /\ \E host \in Redirects : work' = [work EXCEPT ![r].at = host]
    /\ UNCHANGED <<elapsed, outcome, wall>>

(* It fails, or its own timeout aborts it.                                 *)
FetchFails(r) ==
    /\ work[r].age # {}
    /\ work' = [work EXCEPT ![r].age = {}]
    /\ outcome' = [outcome EXCEPT ![r] = IF @ = "running" THEN "threw" ELSE @]
    /\ UNCHANGED <<elapsed, wall>>

(* The wall timeout wins the race.                                         *)
WallTimeout(r) ==
    /\ outcome[r] = "running" /\ elapsed[r] = wall
    /\ outcome' = [outcome EXCEPT ![r] = "wall"]
    /\ UNCHANGED <<work, elapsed, wall>>

TimePasses ==
    /\ \A r \in Runs :
         /\ FetchLimit \notin work[r].age
         /\ outcome[r] = "running" => elapsed[r] < wall
    /\ \E r \in Runs : work[r].age # {}
    /\ work' = [r \in Runs |-> [work[r] EXCEPT !.age = {a + 1 : a \in @}]]
    /\ elapsed' = [r \in Runs |-> IF outcome[r] = "running" THEN elapsed[r] + 1 ELSE elapsed[r]]
    /\ UNCHANGED <<outcome, wall>>

SandboxNext ==
    \/ \E r \in Runs :
         \/ \E m \in Manifests, builtin \in BOOLEAN, input \in Inputs : StartRun(r, m, builtin, input)
         \/ FetchAnswered(r) \/ FetchRedirected(r) \/ FetchFails(r) \/ WallTimeout(r)
    \/ TimePasses

SandboxSpec == SandboxInit /\ [][SandboxNext]_boxVars

-----------------------------------------------------------------------------
(* Nothing of a run outlives it, unless the wall was set lower: the        *)
(* timeouts of the requests a handler makes one after the other, redirects *)
(* included, add up to less than the default, so abandoning the work       *)
(* abandons nothing.  And no run, abandoned or not, asks for anything at a *)
(* host its manifest does not list, whatever the input puts into the URL.  *)
(* This is about where a request is sent, not where it ends: a redirect    *)
(* leads where the answering host says.                                    *)
SandboxBounds ==
    \A r \in Runs :
        /\ wall >= DefaultWall /\ outcome[r] # "running" => work[r].age = {}
        /\ \A i \in DOMAIN work[r].made :
             \E h \in work[r].unit.egress : IsPrefix(h, work[r].made[i].host)
=============================================================================
