-------------------------- MODULE MCBlueGreenFlip --------------------------
EXTENDS BlueGreenFlip, TLC

CONSTANTS h1, h2, h3
=============================================================================
