--------------------------- MODULE ServerOptions ---------------------------
(***************************************************************************)
(* What the command line makes of the server (server_tap.py:18-60, 80-121; *)
(* server.py:563-580, 706-736): the options in the order they are given,   *)
(* the welcome every client gets, and what is logged of a client.  Times   *)
(* are rounded with --blur-usage, and then addresses are kept out of the   *)
(* logs, in two places that each decide for themselves.                    *)
(***************************************************************************)
EXTENDS Integers, Sequences, SequencesExt

CONSTANTS
    Text,       \* the values of options
    EmptyText,  \* "" among them
    Number,     \* the numbers --blur-usage takes
    NotGiven    \* Python's None

ASSUME TextAssumption   == EmptyText \in Text /\ NotGiven \notin Text
ASSUME NumberAssumption == Number \subseteq Nat /\ NotGiven \notin Number

TextOptions == {"motd", "advertise-version", "signal-error"}

Arguments ==
    [option : TextOptions, value : Text]
        \union [option : {"blur-usage"}, value : Number]
        \union {[option |-> "disallow-list"]}
        \union [option : {"websocket-protocol-option"}, key : Text, value : Text]

Config ==
    [motd : Text \union {NotGiven}, advertise : Text \union {NotGiven},
     error : Text \union {NotGiven}, blur : Number \union {NotGiven}, allowList : BOOLEAN,
     websocket : Seq(Text \X Text)]

DefaultConfig ==
    [motd |-> NotGiven, advertise |-> NotGiven, error |-> NotGiven, blur |-> NotGiven,
     allowList |-> TRUE, websocket |-> <<>>]

WithArgument(config, arg) ==
    CASE arg.option = "motd"              -> [config EXCEPT !.motd = arg.value]
      [] arg.option = "advertise-version" -> [config EXCEPT !.advertise = arg.value]
      [] arg.option = "signal-error"      -> [config EXCEPT !.error = arg.value]
      [] arg.option = "blur-usage"        -> [config EXCEPT !.blur = arg.value]
      [] arg.option = "disallow-list"     -> [config EXCEPT !.allowList = FALSE]
      [] arg.option = "websocket-protocol-option" ->
            [config EXCEPT !.websocket = Append(@, <<arg.key, arg.value>>)]

\* Fault: an option that is given again is ignored.
ParsedBackward(args) == FoldRight(LAMBDA arg, config : WithArgument(config, arg), args, DefaultConfig)

Parsed(args) == FoldLeft(WithArgument, DefaultConfig, args)

Given(text) == text # NotGiven /\ text # EmptyText

\* make_server: "will cause all clients to display the message", an empty one too;
\* the other keys only with something in them.
Welcome(config) ==
    [key \in {k \in {"motd", "current_cli_version", "error"} :
                \/ k = "motd" /\ config.motd # NotGiven
                \/ k = "current_cli_version" /\ Given(config.advertise)
                \/ k = "error" /\ Given(config.error)} |->
        CASE key = "motd"                -> config.motd
          [] key = "current_cli_version" -> config.advertise
          [] key = "error"               -> config.error]

\* _onOpen: a copy of it for each connection, with the client's address.
WelcomeFor(config, address) ==
    [key \in DOMAIN Welcome(config) \union {"your-address"} |->
        IF key = "your-address" THEN address ELSE Welcome(config)[key]]

\* get_nameplate_ids: what the answer to "list" tells of the nameplates there are.
Listed(config, nameplates) == IF config.allowList THEN nameplates ELSE {}

\* if self._blur_usage
Blurs(config) == config.blur \notin {NotGiven, 0}

\* Server._log_requests, for "ws client connecting" and the namespaces.
LogsClients(config) == config.blur = NotGiven

\* makeService's log_requests, for PrivacyEnhancedSite.log.
LogsRequests(config) == config.blur = NotGiven

\* setProtocolOptions(**dict(options))
ProtocolOptions(config) ==
    [key \in {config.websocket[i][1] : i \in DOMAIN config.websocket} |->
        LET last == CHOOSE i \in DOMAIN config.websocket :
                        /\ config.websocket[i][1] = key
                        /\ \A j \in DOMAIN config.websocket :
                              config.websocket[j][1] = key => j <= i
        IN config.websocket[last][2]]

-----------------------------------------------------------------------------
\* The value of an option that is given more than once is the last one, whatever
\* stands between, and --disallow-list cannot be taken back; what reaches the
\* clients in the welcome is that value.
LastValueCounts(args) ==
    LET LastGiven(opt) == {i \in DOMAIN args : /\ args[i].option = opt
                                          /\ \A j \in (i + 1)..Len(args) : args[j].option # opt}
        config    == Parsed(args)
        welcome   == WelcomeFor(config, NotGiven)
    IN /\ "error" \in DOMAIN welcome <=>
             \E i \in LastGiven("signal-error") : args[i].value # EmptyText
       /\ \A i \in LastGiven("signal-error") : args[i].value # EmptyText => welcome["error"] = args[i].value
       /\ \A i \in LastGiven("motd") : welcome["motd"] = args[i].value
       /\ LastGiven("motd") = {} => "motd" \notin DOMAIN welcome
       /\ Listed(config, Text) = Text <=>
             \A i \in DOMAIN args : args[i].option # "disallow-list"
       /\ \A i \in DOMAIN args :
             LET Same(j) == args[j].option = args[i].option /\ args[j].key = args[i].key
             IN args[i].option = "websocket-protocol-option" =>
                  \/ ProtocolOptions(config)[args[i].key] = args[i].value
                  \/ \E j \in (i + 1)..Len(args) : Same(j)

\* server_tap.py:24 "round logged access times to improve privacy": when times are
\* rounded, neither the web server's log nor the server's own names a client or
\* the exact time of its request.
BlurringIsPrivate(args) ==
    Blurs(Parsed(args)) => ~LogsClients(Parsed(args)) /\ ~LogsRequests(Parsed(args))
=============================================================================
