---------------------------- MODULE MCRfLinkLive -----------------------------
\* Two keymaps: one with LNK_USB and two wireless links, and the shipped one, with
\* a single wireless link.  The keys that the USB host is told of are left out:
\* no guard and no property of this run reads usb_down.
EXTENDS RfLink

VARIABLE keymap    \* "LNK_USB" or "shipped"

LiveInit ==
    /\ Init
    /\ keymap \in {"LNK_USB", "shipped"}
    /\ keymap = "shipped" =>
         s.rf_channel = LINK_BT_1 /\ LINK_RF_24 \notin {s.link_mode, s.module_link}

LiveNext ==
    /\ \/ keymap = "LNK_USB" /\ Next
       \/ keymap = "shipped" /\ ShippedNext /\ rf_sw_temp' # LINK_RF_24
    /\ ~s'.usb_down
    /\ UNCHANGED keymap

LiveSpec == LiveInit /\ [][LiveNext]_<<vars, keymap>> /\ Fairness

\* rf.c:485-497, user_kb.c:301-308: with the shipped keymap and the dial left
\* alone, the driver catches up with link_mode, although three places set it and
\* two variables stand for it.
DriverFollows ==
    \A d \in {"USB", "RF"} :
      <>[](dial = d /\ keymap = "shipped")
        => []<>(s.driver = "USB" <=> s.link_mode = LINK_USB)
=============================================================================
