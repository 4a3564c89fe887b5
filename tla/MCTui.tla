------------------------------- MODULE MCTui -------------------------------
EXTENDS Tui

CONSTANTS usb, ssd

MCDisks == {usb, ssd}
MCInternal == {ssd}
MCOrder == <<ssd, usb>>
=============================================================================
