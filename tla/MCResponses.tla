---------------------------- MODULE MCResponses ----------------------------
(* What the facade makes of responses and what it posts: a behaviour is    *)
(* one of the update check, of the self-test and the mailbox, or of the    *)
(* bodies; they share nothing.                                             *)
(* Two-digit binary numbers, a URL that fits and one that does not, the    *)
(* three required fields in every order, one of them left out, the         *)
(* cosmetic one in, and an unknown one ahead of them, between them and at  *)
(* the end, whose value is a key or not.                                   *)
EXTENDS UpdateCheck, Responses, DiagBody

Orders == {o \in [1 .. 3 -> Required] : IsInjective(o)}
          \cup {<<"version", "url">>, <<"url", "device_type">>,
                <<"version_str", "version", "device_type", "url">>}

ExtraOrders == {<<"extra", "version", "device_type", "url">>,
                <<"url", "extra", "version", "device_type">>,
                <<"device_type", "url", "version", "extra">>}

Published(orders, urls, extras) ==
  [order : orders, version : {<<1, 0>>, <<0, 1>>}, device_type : {<<1>>, <<1, 0>>},
   url : urls, version_str : {<<4>>}, extra : extras]

MCDocuments == Published(Orders, {<<1>>, <<1, 2, 3>>}, {""})
               \cup Published(ExtraOrders, {<<1>>}, {"", "url", "version"})

VARIABLE
  subject          \* the calls this behaviour is about

MCInit ==
  /\ subject \in {"check", "responses", "bodies"}
  /\ Init /\ ResponsesInit /\ DiagInit
  /\ subject # "check" => /\ current = 0
                          /\ config.device_type = CHOOSE t \in DeviceTypes : TRUE
  /\ subject # "bodies" => postMax = 0

MCNext ==
  /\ UNCHANGED subject
  /\ \/ subject = "check" /\ Next /\ UNCHANGED <<responseVars, diagVars>>
     \/ subject = "responses" /\ ResponsesNext /\ UNCHANGED <<vars, diagVars>>
     \/ subject = "bodies" /\ DiagNext /\ UNCHANGED <<vars, responseVars>>

MCSpec == MCInit /\ [][MCNext]_<<subject, vars, responseVars, diagVars>>
=============================================================================
