----------------------- MODULE MCStunMessageHandler -----------------------
(***************************************************************************)
(* The request handler with the four kinds of socket configuration main    *)
(* programs build (one socket, four sockets, four sockets on INADDR_ANY,   *)
(* and one that lacks a socket), each message once with each feature that  *)
(* a branch of the handler reads.                                          *)
(*                                                                         *)
(* And the stream the handler's answers, and all other messages, are       *)
(* written to: strings of two bytes or none, in buffers of up to four.      *)
(***************************************************************************)
EXTENDS StunMessageHandler, DataStream, TLC

VARIABLE component

MCVars == <<component, vars, dataStreamVars>>

MCIPs     == {"s", "t"}
MCPorts   == {1, 2}
MCClients == {[ip |-> "t", port |-> 1]}

Msg(class, type, port, padding, ip, chport, integ) ==
    [class |-> class, type |-> type, responsePort |-> port, fHasPadding |-> padding,
     change |-> [fChangeIP |-> ip, fChangePort |-> chport], integrity |-> integ]

MCMessages ==
    {Msg("Request", "Binding", p, FALSE, ip, port, "None") :
        p \in {0, 2}, ip \in BOOLEAN, port \in BOOLEAN}
    \cup {Msg("Request", "Binding", p, TRUE, FALSE, FALSE, "None") : p \in {0, 2}}
    \cup {Msg("Request", "Binding", 0, FALSE, FALSE, TRUE, i) :
             i \in {"ShortTerm", "LongTerm"}}
    \cup {Msg("Request", "SharedSecret", p, FALSE, FALSE, FALSE, "None") : p \in {0, 2}}
    \cup {Msg(c, "Binding", 2, FALSE, FALSE, FALSE, "None") : c \in {"Indication", "Invalid"}}

Auth(type, mech, challenge) ==
    [responseType |-> type, authCredMech |-> mech,
     fRealm |-> challenge, fNonce |-> challenge]

MCAuthResponses ==
    {Auth(t, "ShortTerm", FALSE) : t \in {"NoProvider", "ProviderFails", "Allow", "Reject"}}
    \cup {Auth("StaleNonce", "LongTerm", TRUE), Auth("Unauthorized", "LongTerm", TRUE),
          Auth("Unauthorized", "ShortTerm", TRUE)}
    \cup {Auth("AllowConditional", "ShortTerm", FALSE),
          Auth("AllowConditional", "LongTerm", TRUE)}

(* The four addresses, and which of them have a socket                     *)
AddressSet(ip0, ip1, valid) ==
    [r \in Roles |-> [addr |-> [ip   |-> IF r < 2 THEN ip0 ELSE ip1,
                                port |-> IF r % 2 = 0 THEN 1 ELSE 2],
                      fValid |-> r \in valid]]

MCAddressSets ==
    {AddressSet("s", "t", {0}), AddressSet("s", "t", 0 .. 3),
     AddressSet("zero", "zero", 0 .. 3), AddressSet("s", "t", {0, 1, 3})}

-----------------------------------------------------------------------------
MCStrings == {<<>>, <<1, 2>>}
MCOffsets == {-1, 1}
MCPokes   == {<<1, 2>>}
Alike     == Permutations(Objects)

MCInit ==
    /\ component \in {"handler", "stream"}
    /\ Init /\ DataStreamInit
    /\ component = "stream" => addrSet = AddressSet("s", "t", {0})

MCNext ==
    /\ \/ component = "handler" /\ Next /\ UNCHANGED dataStreamVars
       \/ component = "stream" /\ DataStreamNext /\ UNCHANGED vars
    /\ UNCHANGED component

MCSpec == MCInit /\ [][MCNext]_MCVars
============================================================================
