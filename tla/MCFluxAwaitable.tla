-------------------------- MODULE MCFluxAwaitable --------------------------
\* Instance for TLC: a starter and two copies of the completion token.
EXTENDS FluxAwaitable
=============================================================================
