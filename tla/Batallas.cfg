SPECIFICATION Bloqueados
CONSTANTS
    Entrenadores = {t1, t2, t3}
    Pokenests = {"a", "b"}
    Objetivos <- ObjetivosDeTres
    Coordenada <- Lugares
    Stock <- UnoYDos
    Modos <- ConBatalla
    MaxFd = 4
    MaxPcb = 5
    Quantum = 2
    Vidas <- UnaVida
    Sensibles = {}
    MaxSeniales = 0
    t1 = t1
    t2 = t2
    t3 = t3
    t4 = t4
INVARIANTS
    EnFase
    BloqueadosRespaldados

    
CHECK_DEADLOCK FALSE
