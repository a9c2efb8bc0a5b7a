----------------------------- MODULE MCCheckout -----------------------------
EXTENDS Checkout
CONSTANTS cash, line
MCWallets == {cash, line}
MCShort == {line}
BothViews == {"page", "widget"}
=============================================================================
