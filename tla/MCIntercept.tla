---------------------------- MODULE MCIntercept ----------------------------
(***************************************************************************)
(* Instances of MoltenIntercept for TLC.  A behaviour keeps to one menu of *)
(* interceptors, so that all of them are exercised in small mixtures.      *)
(***************************************************************************)
EXTENDS MoltenIntercept

VARIABLE menu   \* the interceptors of this behaviour

Multi == {"curl_multi_add", "curl_multi_remove"}
Mixed == Multi \cup {"curl_exec"}
Timed == {Multi, Mixed, {"guzzle"}}
Menus ==
  Timed \cup {{"es_request", "redis"}} \cup {{kind} : kind \in DOMAIN Interceptor}

AllKinds == DOMAIN Interceptor

(* Three calls with Mixed and two requests with Multi, two calls and one   *)
(* request otherwise; the clock moves for Timed, while a call is under way.*)
Limits ==
  /\ Len(frames') > Len(frames) => frames'[Len(frames')].kind \in menu
  /\ calls' = 3 => menu = Mixed
  /\ served' = 2 => menu = Multi
  /\ redis_error' # redis_error => "redis" \in menu
  /\ clock' # clock => menu \in Timed /\ frames # <<>>

AnyMenu == Init /\ menu \in Menus

MenuSpec ==
  /\ AnyMenu
  /\ [][Next /\ Limits /\ UNCHANGED menu]_<<vars, menu>>
=============================================================================
