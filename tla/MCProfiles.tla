------------------------------ MODULE MCProfiles ------------------------------
(* Machines that each have a few of the controls: packages with ranges of
   their own, one without a maximum, one that cannot be written; cards of which
   one scales; big and small cores; laptops whose kernels list few preferences,
   or refuse them under the governor "performance", and one whose has governors
   and no preferences; and switches. *)
EXTENDS Profiles

Missing == [named |-> FALSE, min |-> 0, max |-> 0, node |-> FALSE]
Zone(lo, hi) == [named |-> TRUE, min |-> lo, max |-> hi, node |-> TRUE]

Bare ==
  [mac |-> FALSE, zones |-> <<>>, boot |-> <<>>, package |-> {},
   cards |-> <<>>,
   cpus |-> [c \in {0} |-> [min |-> 0, max |-> 0]],
   pref |-> FALSE, governor |-> FALSE, prefs |-> <<>>, govs |-> {}, busy |-> FALSE,
   policies |-> {}, writeback |-> FALSE, backlight |-> FALSE,
   nodes |-> [k \in Switches |-> <<>>], switched |-> {}]

Server ==
  [Bare EXCEPT
    !.zones = <<[long_term |-> Zone(2, 4), short_term |-> [Zone(0, 0) EXCEPT !.min = 1]],
                [long_term |-> Zone(3, 6), short_term |-> Missing],
                [long_term |-> [Zone(2, 4) EXCEPT !.node = FALSE], short_term |-> Missing]>>,
    !.boot = <<[long_term |-> 7, short_term |-> 9],
               [long_term |-> 6, short_term |-> 0],
               [long_term |-> 0, short_term |-> 0]>>]

Graphics ==
  [Bare EXCEPT
    !.cards = [n \in {0, 2} |-> [node |-> n = 2, rpn |-> 3, rp0 |-> 5]],
    !.zones = <<[long_term |-> [Zone(0, 0) EXCEPT !.max = 0], short_term |-> Missing]>>,
    !.boot = <<[long_term |-> 8, short_term |-> 0]>>,
    !.package = {[min |-> 4, max |-> 12]}]

Hybrid ==
  [Bare EXCEPT
    !.cpus = [c \in 0 .. 2 |-> IF c = 2 THEN [min |-> 2, max |-> 5]
                                        ELSE [min |-> 1, max |-> 3]]]

Old ==
  [Bare EXCEPT
    !.cpus = [c \in 0 .. 1 |-> [min |-> 0, max |-> 0]],
    !.governor = TRUE, !.govs = {"performance", "schedutil"}]

Laptop ==
  [Bare EXCEPT
    !.cpus = [c \in 0 .. 1 |-> [min |-> 0, max |-> 0]],
    !.pref = TRUE, !.governor = TRUE, !.prefs = <<"balance_performance", "performance", "power">>,
    !.govs = {"performance", "powersave"}]

Strict == [Laptop EXCEPT !.busy = TRUE, !.govs = {}, !.prefs = Prefs]

Desk ==
  [Bare EXCEPT
    !.nodes = [k \in Switches |->
                 CASE k = "turbo" -> <<"no_turbo">>
                   [] k = "audio_save" -> <<"audio", "controller">>
                   [] k = "autosuspend" -> <<"usb1", "usb2", "pci">>
                   [] OTHER -> <<>>],
    !.switched = {"no_turbo", "audio", "controller", "usb1", "usb2", "pci"}]

Travel ==
  [Bare EXCEPT
    !.nodes = [k \in Switches |->
                 CASE k = "turbo" -> <<"boost">> [] k = "autosuspend" -> <<"pci">>
                   [] k = "wifi_save" -> <<"iwlwifi", "wlan0">>
                   [] OTHER -> <<>>],
    !.switched = {"boost", "iwlwifi", "wlan0", "pci"},
    !.policies = {"default", "performance"}]

Panel ==
  [Bare EXCEPT
    !.nodes = [k \in Switches |->
                 CASE k = "kbd" -> <<"led">> [] k = "watchdog" -> <<"watchdog">>
                   [] k = "bluetooth" -> <<"rfkill", "rfkill2">>
                   [] OTHER -> <<>>],
    !.switched = {"led", "watchdog", "rfkill", "rfkill2"},
    !.writeback = TRUE, !.backlight = TRUE]

Mac(blueutil) ==
  [Bare EXCEPT
    !.mac = TRUE, !.cpus = [c \in 0 .. 1 |-> [min |-> 0, max |-> 0]],
    !.nodes = MacNodes(blueutil),
    !.switched = UNION {Items(MacNodes(blueutil)[k]) : k \in Switches}]

MCMachines ==
  {Server, Graphics, Hybrid, Old, Laptop, Strict, Desk, Travel, Panel, Mac(TRUE), Mac(FALSE)}

=============================================================================
