----------------------------- MODULE MCBlockCodec -----------------------------
EXTENDS BlockCodec
===============================================================================
