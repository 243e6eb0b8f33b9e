SPECIFICATION SpecJusta
CONSTANTS
    Entrenadores = {t1, t2}
    Pokenests = {"a"}
    Objetivos <- UnObjetivo
    Coordenada <- UnLugar
    Stock <- DosDeUna
    Modos <- SoloRR
    MaxFd = 2
    MaxPcb = 2
    Quantum = 2
    Vidas <- VidasDeDos
    Sensibles = {}
    MaxSeniales = 0
    t1 = t1
    t2 = t2
    t3 = t3
    t4 = t4
PROPERTIES
    HabilitaAlPlanificador
CHECK_DEADLOCK FALSE
