---------------------------- MODULE MCScreenCast ----------------------------
EXTENDS ScreenCast

=============================================================================
